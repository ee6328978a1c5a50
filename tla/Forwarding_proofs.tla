------------------------- MODULE Forwarding_proofs --------------------------
(***************************************************************************)
(* Proofs about the single-copy protocols, for every network, traffic      *)
(* load, buffer size, time to live and congestion control, and whatever    *)
(* the utilities of the nodes become: no handler ends the program, there   *)
(* is one copy of a packet, in a buffer or on its way, and where buffers   *)
(* are without limit it is not lost; PRoPHET moves packets uphill only,    *)
(* what is known of a buffer is forgotten with the exchange, and a         *)
(* mechanism that keeps to the remaining storage never makes the receiver  *)
(* drop a packet.                                                          *)
(***************************************************************************)
EXTENDS Forwarding, Exchange_proofs

\* The settings, in which packets leave the buffer they are sent from.
LEMMA FWSettings ==
    ASSUME SetOK
    PROVE  /\ LeavesBuffer /\ ~KeepsDelivered /\ ~NoDuplicatesSupport
           /\ DelMech = "JUSTTTL" /\ BufferSize \in Nat /\ TTL \in Nat
           /\ RT \in {"DIRECT", "PROPHET", "SIMBET", "BUBBLERAP"}
           /\ needsBufferInformation => RT \in {"PROPHET", "SIMBET"} /\ BufferSize > 0
           /\ ~needsBufferInformation => CongestionControl = "NOCC"
  <1>1. Set \in Settings /\ Set \in Configurations
    BY RoutingAssumption DEF SetOK
  <1>2. /\ RT \in {"DIRECT", "PROPHET", "SIMBET", "BUBBLERAP"} /\ DelMech = "JUSTTTL"
        /\ CongestionControl # "NOCC" => RT \in {"PROPHET", "SIMBET"} /\ BufferSize > 0
    BY <1>1, ForwardingAssumption DEF RT, DelMech, CongestionControl, BufferSize
  <1>3. BufferSize \in Nat /\ TTL \in Nat
    BY <1>1 DEF Settings, BufferSize, TTL
  <1> QED
    BY <1>2, <1>3 DEF LeavesBuffer, isSingleCopy, KeepsDelivered, NoDuplicatesSupport,
       needsBufferInformation

-----------------------------------------------------------------------------
(* Steps of the protocols and the stack.                                   *)

\* The types of the answers are not those of class Routing.
LEMMA ReplyTypes ==
    {"BUFFER_INFO", "DEST_PREDICT", "CONTACTS", "DEST", "REQ_DEST", "LC_FS",
     "BUBBLE_SUMMARY", "MARKED_REQUEST_PKTS"} \cap Types = {}
  BY DEF Types

\* An answer to the control packet on top, over the link it came by.
LEMMA ReplyKept ==
    ASSUME IInv, NEW r, Receiving(r), pool[Top.id].type # "DATA",
           NEW type, type \notin Types, NEW body,
           Send(<<Reply(type, r, pool[Top.id].prev, body)>>, {Top.id}, RestAfter(r)),
           DataOK'
    PROVE  Kept
  <1>1. r \in Nodes /\ conn' \in [Nodes -> SUBSET Nodes]
    BY TopFacts
  <1>2. Sendable(<<Reply(type, r, pool[Top.id].prev, body)>>, r, conn')
    BY <1>1, ControlFacts, SendableReply
  <1> QED
    BY <1>1, <1>2, ControlFacts, SendStack DEF Kept

\* A handler that purges one buffer at most, or none, and records nothing.
LEMMA PurgeData ==
    ASSUME DataOK, NEW n \in Nodes,
           \/ buffer' = buffer
           \/ buffer' = [buffer EXCEPT ![n] = buffer[n]]
           \/ buffer' = [buffer EXCEPT ![n] = Alive(buffer[n])],
           UNCHANGED <<dmVars, statVars, halted>>
    PROVE  DataOK'
  <1>1. buffer[n] \in SUBSET PktIDs /\ buffer \in [Nodes -> SUBSET PktIDs]
    BY DEF DataOK
  <1>2. Alive(buffer[n]) \in SUBSET PktIDs
    BY <1>1, BufferParts
  <1>3. buffer' \in [Nodes -> SUBSET PktIDs]
    BY <1>1, <1>2
  <1> QED
    BY <1>3 DEF DataOK, dmVars, statVars

\* Congestion control takes packets away, and adds none.
LEMMA FilterParts ==
    ASSUME NEW n, NEW out, NEW useless, NEW sent \in filterPackets(n, out, useless)
    PROVE  sent \subseteq out \cup useless
  <1>1. CASE out = {} \/ ~needsBufferInformation
    BY <1>1 DEF filterPackets
  <1>2. CASE ~(out = {} \/ ~needsBufferInformation)
    <2>1. \A k, S : S \in kSubset(k, out) => S \subseteq out
      BY DEF kSubset
    <2>2. \A k, S : S \in OfSize(out, k) => S \subseteq out
      BY <2>1 DEF OfSize
    <2>3. PICK i \in information[n] :
             sent \in CASE CongestionControl = "ACC" ->
                              UNION {kSubset(k, out) :
                                        k \in 0..Min({Cardinality(out), remainingStorage(i)})}
                        [] CongestionControl = "FAIRROUTE" ->
                              {S \cup useless :
                                  S \in OfSize(out, fairPackets(i, Cardinality(buffer[n])))}
                        [] OTHER -> OfSize(out, remainingStorage(i))
      BY <1>2 DEF filterPackets
    <2>4. CASE CongestionControl = "ACC"
      BY <2>1, <2>3, <2>4
    <2>5. CASE CongestionControl = "FAIRROUTE"
      BY <2>2, <2>3, <2>5
    <2>6. CASE CongestionControl \notin {"ACC", "FAIRROUTE"}
      BY <2>2, <2>3, <2>6
    <2> QED
      BY <2>4, <2>5, <2>6
  <1> QED
    BY <1>1, <1>2

\* The packets in transmission after packets were handed over.
LEMMA ForwardKept ==
    ASSUME IInv, NEW r, Receiving(r), pool[Top.id].type # "DATA",
           NEW out \in SUBSET PktIDs, NEW useless \in SUBSET PktIDs, NEW notBetter,
           Forward(r, pool[Top.id].prev, out, useless, notBetter, Top.id, RestAfter(r))
    PROVE  Kept
  <1> DEFINE m == pool[Top.id].prev
  <1>1. CASE Undecided(r, out, notBetter)
    BY <1>1, ExitKept DEF Forward
  <1>2. CASE ~Undecided(r, out, notBetter)
    <2>1. PICK sent \in filterPackets(r, out, useless) :
             /\ \E order \in Orders(sent) :
                   Send(DataFor(r, m, order, 1), {Top.id}, RestAfter(r))
             /\ buffer' = [buffer EXCEPT ![r] = Alive(@) \ sent]
      BY <1>2 DEF Forward
    <2>2. UNCHANGED <<dmVars, statVars, halted>>
      BY <1>2 DEF Forward
    <2>3. sent \in SUBSET PktIDs
      BY FilterParts
    <2>4. PICK order \in Orders(sent) : Send(DataFor(r, m, order, 1), {Top.id}, RestAfter(r))
      BY <2>1
    <2>5. r \in Nodes /\ conn' \in [Nodes -> SUBSET Nodes] /\ buffer[r] \in SUBSET PktIDs
      BY TopFacts DEF IInv, DataOK
    <2>6. Sendable(DataFor(r, m, order, 1), r, conn')
      BY <2>3, <2>5, ControlFacts, SendableData
    <2>7. Alive(buffer[r]) \ sent \in SUBSET PktIDs
      BY <2>5, BufferParts
    <2>8. DataOK'
      BY <2>1, <2>2, <2>5, <2>7, BufferData DEF IInv
    <2> QED
      BY <2>4, <2>5, <2>6, <2>8, ControlFacts, SendStack DEF Kept
  <1> QED
    BY <1>1, <1>2

\* The answers of each protocol, one after the other.
LEMMA RepliesKept ==
    ASSUME IInv, NEW r, Receiving(r),
           \/ ReceptionBufferReq(r, Top.id, pool[Top.id], RestAfter(r))
           \/ ReceptionRequestContacts(r, Top.id, pool[Top.id], RestAfter(r))
           \/ ReceptionContacts(r, Top.id, pool[Top.id], RestAfter(r))
           \/ ReceptionMetricsPerDest(r, Top.id, pool[Top.id], RestAfter(r))
           \/ ReceptionReqLCandFS(r, Top.id, pool[Top.id], RestAfter(r))
           \/ ReceptionLCandFS(r, Top.id, pool[Top.id], RestAfter(r))
           \/ ReceptionBubbleSummary(r, Top.id, pool[Top.id], RestAfter(r))
    PROVE  Kept
  <1> DEFINE m == pool[Top.id].prev
  <1> DEFINE Purged == \/ buffer' = buffer
                       \/ buffer' = [buffer EXCEPT ![r] = buffer[r]]
                       \/ buffer' = [buffer EXCEPT ![r] = Alive(buffer[r])]
  <1> DEFINE Sent(type) == \E body : Send(<<Reply(type, r, m, body)>>, {Top.id}, RestAfter(r))
  <1> DEFINE Own == {"BUFFER_INFO", "DEST_PREDICT", "CONTACTS", "DEST", "REQ_DEST", "LC_FS",
                     "BUBBLE_SUMMARY", "MARKED_REQUEST_PKTS"}
  <1> DEFINE Told == /\ pool[Top.id].type # "DATA" /\ Purged
                     /\ UNCHANGED <<dmVars, statVars, halted>>
                     /\ \E type \in Own : Sent(type)
  <1>1. ASSUME Told PROVE Kept
    <2>1. DataOK'
      BY <1>1, TopFacts, PurgeData DEF IInv
    <2>2. PICK type \in Own : Sent(type)
      BY <1>1
    <2>3. PICK body : Send(<<Reply(type, r, m, body)>>, {Top.id}, RestAfter(r))
      BY <2>2
    <2>4. type \notin Types
      BY <2>2, ReplyTypes
    <2>5. pool[Top.id].type # "DATA"
      BY <1>1
    <2> QED
      BY <2>1, <2>3, <2>4, <2>5, ReplyKept
  <1>2. ASSUME ReceptionBufferReq(r, Top.id, pool[Top.id], RestAfter(r)) PROVE Told
    <2>1. pool[Top.id].type # "DATA" /\ Sent("BUFFER_INFO")
          /\ UNCHANGED <<buffer, dmVars, statVars, halted>>
      BY <1>2 DEF ReceptionBufferReq
    <2> HIDE DEF Sent
    <2> QED
      BY <2>1
  <1>3. ASSUME ReceptionRequestContacts(r, Top.id, pool[Top.id], RestAfter(r)) PROVE Told
    <2>1. /\ pool[Top.id].type # "DATA" /\ (Sent("DEST_PREDICT") \/ Sent("CONTACTS"))
          /\ UNCHANGED <<buffer, dmVars, statVars, halted>>
      BY <1>3 DEF ReceptionRequestContacts
    <2> HIDE DEF Sent
    <2> QED
      BY <2>1
  <1>4. ASSUME ReceptionContacts(r, Top.id, pool[Top.id], RestAfter(r)) PROVE Told
    <2>1. /\ pool[Top.id].type # "DATA" /\ Sent("DEST")
          /\ buffer' = [buffer EXCEPT ![r] = Alive(buffer[r])]
          /\ UNCHANGED <<dmVars, statVars, halted>>
      BY <1>4 DEF ReceptionContacts
    <2> HIDE DEF Sent
    <2> QED
      BY <2>1
  <1>5. ASSUME ReceptionMetricsPerDest(r, Top.id, pool[Top.id], RestAfter(r)) PROVE Told
    <2>1. pool[Top.id].type # "DATA" /\ Sent("REQ_DEST")
          /\ UNCHANGED <<buffer, dmVars, statVars, halted>>
      BY <1>5 DEF ReceptionMetricsPerDest
    <2> HIDE DEF Sent
    <2> QED
      BY <2>1
  <1>6. ASSUME ReceptionReqLCandFS(r, Top.id, pool[Top.id], RestAfter(r)) PROVE Told
    <2>1. pool[Top.id].type # "DATA" /\ Sent("LC_FS")
          /\ UNCHANGED <<buffer, dmVars, statVars, halted>>
      BY <1>6 DEF ReceptionReqLCandFS
    <2> HIDE DEF Sent
    <2> QED
      BY <2>1
  <1>7. ASSUME ReceptionLCandFS(r, Top.id, pool[Top.id], RestAfter(r)) PROVE Told
    <2>1. /\ pool[Top.id].type # "DATA" /\ Sent("BUBBLE_SUMMARY")
          /\ buffer' = [buffer EXCEPT ![r] = Alive(buffer[r])]
          /\ UNCHANGED <<dmVars, statVars, halted>>
      BY <1>7 DEF ReceptionLCandFS
    <2> HIDE DEF Sent
    <2> QED
      BY <2>1
  <1>8. ASSUME ReceptionBubbleSummary(r, Top.id, pool[Top.id], RestAfter(r)) PROVE Told
    <2>1. /\ pool[Top.id].type # "DATA" /\ Sent("MARKED_REQUEST_PKTS") /\ Purged
          /\ UNCHANGED <<dmVars, statVars, halted>>
      BY <1>8 DEF ReceptionBubbleSummary
    <2> HIDE DEF Sent, Purged
    <2> QED
      BY <2>1
  <1> HIDE DEF Told
  <1> QED
    BY <1>1, <1>2, <1>3, <1>4, <1>5, <1>6, <1>7, <1>8

\* What is known of the buffer, the exchange goes on.
LEMMA BufferRspKept ==
    ASSUME IInv, NEW r, Receiving(r),
           ReceptionBufferRsp(r, Top.id, pool[Top.id], RestAfter(r))
    PROVE  Kept
  <1> DEFINE m == pool[Top.id].prev
  <1>1. /\ pool[Top.id].type # "DATA"
        /\ Send(AfterDirectTransfers(r, m, buffer[r]), {Top.id}, RestAfter(r))
        /\ UNCHANGED <<buffer, dmVars, statVars, halted>>
    BY DEF ReceptionBufferRsp
  <1>2. r \in Nodes /\ buffer[r] \in SUBSET PktIDs /\ conn' \in [Nodes -> SUBSET Nodes]
    BY TopFacts DEF IInv, DataOK
  <1>3. Sendable(AfterDirectTransfers(r, m, buffer[r]), r, conn')
    BY <1>1, <1>2, ControlFacts, SendableProceed
  <1>4. DataOK'
    BY <1>1, <1>2, PurgeData DEF IInv
  <1> QED
    BY <1>1, <1>2, <1>3, <1>4, ControlFacts, SendStack DEF Kept

\* The packets of b for some destinations are packets of b.
LEMMA ForParts ==
    ASSUME NEW b \in SUBSET PktIDs, NEW D
    PROVE  For(Alive(b), D) \in SUBSET PktIDs /\ For(b, D) \in SUBSET PktIDs
  <1>1. Alive(b) \in SUBSET PktIDs
    BY BufferParts
  <1> QED
    BY <1>1 DEF For

\* Those that hand over packets.
LEMMA HandoversKept ==
    ASSUME IInv, NEW r, Receiving(r),
           \/ ReceptionDPT(r, Top.id, pool[Top.id], RestAfter(r))
           \/ ReceptionReqForDest(r, Top.id, pool[Top.id], RestAfter(r))
           \/ ReceptionRequestVector(r, Top.id, pool[Top.id], RestAfter(r))
    PROVE  Kept
  <1> DEFINE m == pool[Top.id].prev
  <1>1. r \in Nodes /\ buffer[r] \in SUBSET PktIDs /\ Alive(buffer[r]) \in SUBSET PktIDs
    BY TopFacts, BufferParts DEF IInv, DataOK
  <1>2. CASE ReceptionDPT(r, Top.id, pool[Top.id], RestAfter(r))
    <2>1. PICK mine \in UpdateDPT(r, m, pool[Top.id].body) :
             LET out == For(Alive(buffer[r]), CheckDPs(mine, pool[Top.id].body))
             IN  Forward(r, m, out, For(out, {d \in Destinations : mine[d] = 0}),
                         For(out, {d \in Destinations : pool[Top.id].body[d] <= mine[d]}),
                         Top.id, RestAfter(r))
      BY <1>2 DEF ReceptionDPT
    <2> DEFINE out == For(Alive(buffer[r]), CheckDPs(mine, pool[Top.id].body))
    <2>2. out \in SUBSET PktIDs
      BY <1>1, ForParts
    <2> HIDE DEF out
    <2>3. For(out, {d \in Destinations : mine[d] = 0}) \in SUBSET PktIDs
      BY <2>2, ForParts
    <2>4. Forward(r, m, out, For(out, {d \in Destinations : mine[d] = 0}),
                  For(out, {d \in Destinations : pool[Top.id].body[d] <= mine[d]}),
                  Top.id, RestAfter(r))
      BY <2>1 DEF out
    <2>5. pool[Top.id].type # "DATA"
      BY <1>2 DEF ReceptionDPT
    <2> QED
      BY <2>2, <2>3, <2>4, <2>5, ForwardKept
  <1>3. CASE ReceptionReqForDest(r, Top.id, pool[Top.id], RestAfter(r))
    <2> DEFINE out == For(Alive(buffer[r]), pool[Top.id].body.dests)
    <2> DEFINE mine == pool[Top.id].body.sender
    <2> DEFINE useless == For(out, {d \in Nodes : mine.sim[d] = 0 /\ mine.bet = 0})
    <2>1. /\ pool[Top.id].type # "DATA"
          /\ \E notBetter : Forward(r, m, out, useless, notBetter, Top.id, RestAfter(r))
      BY <1>3 DEF ReceptionReqForDest
    <2>2. out \in SUBSET PktIDs
      BY <1>1, ForParts
    <2> HIDE DEF out
    <2>3. useless \in SUBSET PktIDs
      BY <2>2, ForParts
    <2> HIDE DEF useless
    <2> QED
      BY <2>1, <2>2, <2>3, ForwardKept
  <1>4. CASE ReceptionRequestVector(r, Top.id, pool[Top.id], RestAfter(r))
    <2>1. pool[Top.id].type # "DATA"
      BY <1>4 DEF ReceptionRequestVector
    <2>2. CASE pool[Top.id].body \subseteq Alive(buffer[r])
      <3>1. Forward(r, m, pool[Top.id].body, {}, {}, Top.id, RestAfter(r))
        BY <1>4, <2>2 DEF ReceptionRequestVector
      <3>2. pool[Top.id].body \in SUBSET PktIDs /\ {} \in SUBSET PktIDs
        BY <1>1, <2>2
      <3> QED
        BY <2>1, <3>1, <3>2, ForwardKept
    <2>3. CASE ~(pool[Top.id].body \subseteq Alive(buffer[r]))
      BY <1>4, <2>3, ExitKept DEF ReceptionRequestVector
    <2> QED
      BY <2>2, <2>3
  <1> QED
    BY <1>2, <1>3, <1>4

LEMMA RelayKept ==
    ASSUME IInv, NEW r, Receiving(r), pool[Top.id].type = "DATA",
           NEW p \in pool[Top.id].ids,
           Relay(r, Top.id, pool[Top.id], RestAfter(r), p)
    PROVE  Kept
  <1>1. r \in Nodes /\ p \in PktIDs /\ buffer[r] \in SUBSET PktIDs
    BY TopFacts, TypeFacts DEF Message, IsPacket, IInv, DataOK
  <1>2. CASE p \in Alive(buffer[r])
    BY <1>2, ExitKept DEF Relay
  <1>3. CASE p \notin Alive(buffer[r])
    <2>1. PICK b \in Added(buffer[r], p) : buffer' = [buffer EXCEPT ![r] = b]
      BY <1>3 DEF Relay
    <2>2. Access(Top.id, RestAfter(r)) /\ UNCHANGED <<dmVars, statVars, halted>>
      BY <1>3 DEF Relay
    <2>3. b \in SUBSET PktIDs
      BY <1>1, <2>1, BufferParts
    <2>4. DataOK'
      BY <1>1, <2>1, <2>2, <2>3, BufferData DEF IInv
    <2> QED
      BY <2>2, <2>4, AccessStack DEF Kept
  <1> QED
    BY <1>2, <1>3

\* The transmission on top is received by a node that is on the link.
LEMMA Received ==
    ASSUME IInv, Receive
    PROVE  \E r \in Top.rcv :
              Receiving(r) /\ recv(r, Top.id, pool[Top.id], RestAfter(r))
  <1>1. TopIs("TX") /\ UNCHANGED netVars
    BY DEF Receive
  <1>2. PICK r \in Top.rcv :
           IF r \notin conn[Top.a] THEN Discard(r) /\ UNCHANGED <<information, utilVars>>
           ELSE IF Top.id \notin DOMAIN pool THEN Exit /\ UNCHANGED <<information, utilVars>>
           ELSE recv(r, Top.id, pool[Top.id], RestAfter(r))
    BY DEF Receive
  <1>3. Receiving(r)
    BY <1>1 DEF Receiving
  <1>4. r \in conn[Top.a] /\ Top.id \in DOMAIN pool
    BY <1>3, TopFacts
  <1> QED
    BY <1>2, <1>3, <1>4

LEMMA ReceptionKept == IInv /\ Receive => Kept
  <1> SUFFICES ASSUME IInv, Receive PROVE Kept
    OBVIOUS
  <1>1. PICK r \in Top.rcv : Receiving(r) /\ recv(r, Top.id, pool[Top.id], RestAfter(r))
    BY Received
  <1>2. CASE ReceptionData(r, Top.id, pool[Top.id], RestAfter(r))
    BY <1>1, <1>2, OverhearKept, DeliverKept, RelayKept DEF ReceptionData
  <1> QED
    BY <1>1, <1>2, RepliesKept, BufferRspKept, HandoversKept DEF recv

LEMMA ReceiveKept == IInv /\ Receive => IInv'
  <1> SUFFICES ASSUME IInv, Receive PROVE IInv'
    OBVIOUS
  <1>2. Kept
    BY ReceptionKept
  <1>3. NetOK'
    BY DEF Receive, IInv, NetOK, netVars
  <1>4. AppOK'
    BY <1>2 DEF Kept, NoApp, AppOK
  <1> QED
    BY <1>2, <1>3, <1>4 DEF Kept, IInv

\* What a contact starts with.
LEMMA NewContact ==
    ASSUME IInv, FWContactUp
    PROVE  /\ Top.a \in Nodes /\ Top.b \in Nodes /\ Top.a # Top.b
           /\ NoApp(Tail(evlist)) /\ evlist # <<>> /\ Head(evlist).ev # "TX"
           /\ conn' \in [Nodes -> SUBSET Nodes] /\ Top.b \in conn'[Top.a]
           /\ \A m, n \in Nodes : n \in conn'[m] => m \in conn'[n]
           /\ DOMAIN pool = {}
           /\ StackOK(Tail(evlist), [i \in DOMAIN pool \ {} |-> pool[i]], conn', variousIDs)
           /\ SendDirectPackets(Top.a, Top.b, buffer[Top.a], {}, {}, Tail(evlist))
           /\ UNCHANGED <<now, origin, information, dpt, ego, community>>
  <1>1. /\ TopIs("UP") /\ Connect(Top.a, Top.b) /\ UNCHANGED <<now, origin>>
        /\ SendDirectPackets(Top.a, Top.b, buffer[Top.a], {}, {}, Tail(evlist))
        /\ UNCHANGED <<information, dpt, ego, community>>
    BY DEF FWContactUp, ContactUp_
  <1>2. /\ Top.a \in Nodes /\ Top.b \in Nodes /\ Top.a # Top.b /\ NoApp(Tail(evlist))
        /\ evlist # <<>> /\ Head(evlist).ev # "TX"
    BY <1>1, ContactFacts
  <1>3. /\ conn' \in [Nodes -> SUBSET Nodes] /\ Top.b \in conn'[Top.a]
        /\ \A m, n \in Nodes : n \in conn'[m] => m \in conn'[n]
    BY <1>1, <1>2, LinkFacts DEF IInv
  <1>4. /\ DOMAIN pool = {}
        /\ StackOK(Tail(evlist), [i \in DOMAIN pool \ {} |-> pool[i]], conn', variousIDs)
    BY <1>2, NoTransmission DEF IInv
  <1> QED
    BY <1>1, <1>2, <1>3, <1>4

LEMMA FWContactUpKept == IInv /\ FWContactUp => IInv'
  <1> SUFFICES ASSUME IInv, FWContactUp PROVE IInv'
    OBVIOUS
  <1>1. /\ DataOK /\ buffer[Top.a] \in SUBSET PktIDs /\ {} \in SUBSET PktIDs
        /\ Top.a \in Nodes
    BY NewContact DEF IInv, DataOK
  <1>2. Kept
    BY <1>1, NewContact, DirectPackets
  <1>3. NetOK'
    BY NewContact DEF IInv, NetOK
  <1>4. AppOK'
    BY <1>2 DEF Kept, NoApp, AppOK
  <1> QED
    BY <1>2, <1>3, <1>4 DEF Kept, IInv

LEMMA InvNext == IInv /\ [FWNext]_fwVars => IInv'
  <1>1. IInv /\ FWNext => IInv'
    BY EnvironmentKept, FWContactUpKept, ContactDownKept, RecvFromAppKept, ReceiveKept
       DEF FWNext, FWEnvironment
  <1>2. IInv /\ UNCHANGED fwVars => IInv'
    BY DEF fwVars, ccVars, vars, netVars, msgVars, dmVars, statVars, IInv, NetOK, DataOK,
       AppOK, StackOK, InTransit
  <1> QED
    BY <1>1, <1>2

LEMMA SettingsKept == FWSpec => []SetOK
  <1>1. FWInit => SetOK
    BY DEF FWInit, CCInit, Init, SetOK
  <1>2. SetOK /\ [FWNext]_fwVars => SetOK'
    BY DEF SetOK, FWNext, fwVars, ccVars, vars
  <1> QED
    BY <1>1, <1>2, PTL DEF FWSpec

\* The invariant of every protocol holds of these too.
THEOREM Invariance == FWSpec => []IInv
  <1>1. FWInit => IInv
    BY InvInit DEF FWInit, CCInit
  <1> QED
    BY <1>1, InvNext, PTL DEF FWSpec

-----------------------------------------------------------------------------
(* What a handler sends.                                                   *)

DataIDs == {id \in DOMAIN pool : IsData(id)}

\* Some packet in transmission is not a data packet, and it is the turn of
\* its receiver; or nothing is in transmission.
Turn == DOMAIN pool = {} \/ DataIDs # DOMAIN pool

\* Node n sends node m data packets with the originals S, which leave its
\* buffer, and the packets in C behind them.  Of what was in transmission the
\* data packets remain.
Sends(n, m, S, C) ==
    /\ n \in Nodes /\ m \in Nodes /\ Turn
    /\ S \subseteq buffer[n]
    /\ C # {} => \A p \in S : origin[p].dst = m
    /\ \A pkt \in C : pkt.type # "DATA" /\ \E id \in DOMAIN pool' : pool'[id] = pkt
    /\ OneControl'
    /\ \A id \in DataIDs :
          /\ id \in DOMAIN pool' /\ pool'[id] = pool[id]
          /\ \A x : Awaiting(evlist', id, x) <=> Awaiting(evlist, id, x)
    /\ \A id \in DOMAIN pool' \ DataIDs :
          pool'[id] \in C \/ \E p \in S : DataOf(pool'[id], n, m, p)
    /\ \A p \in S : \E id \in DOMAIN pool' \ DataIDs :
          DataOf(pool'[id], n, m, p) /\ Awaiting(evlist', id, m)
    /\ \A x, y \in DOMAIN pool' \ DataIDs :
          x # y /\ pool'[x].type = "DATA" /\ pool'[y].type = "DATA"
             => pool'[x].ids \cap pool'[y].ids = {}
    /\ \A x \in Nodes : x # n => buffer'[x] = buffer[x]
    /\ buffer'[n] \subseteq buffer[n] \ S
    /\ Alive(buffer[n]) \subseteq buffer'[n] \cup S
    /\ UNCHANGED <<received, halted>>

\* The answer pkt to the control packet on top.
LEMMA AnswerSent ==
    ASSUME IInv, OneControl, NEW r, Receiving(r), pool[Top.id].type # "DATA",
           NEW pkt, pkt.type # "DATA", Sendable(<<pkt>>, r, conn'),
           Send(<<pkt>>, {Top.id}, RestAfter(r)),
           \/ buffer' = buffer
           \/ buffer' = [buffer EXCEPT ![r] = buffer[r]]
           \/ buffer' = [buffer EXCEPT ![r] = Alive(buffer[r])],
           UNCHANGED <<received, halted>>
    PROVE  Sends(r, pool[Top.id].prev, {}, {pkt})
  <1>1. /\ r \in Nodes /\ conn' \in [Nodes -> SUBSET Nodes] /\ Top.id \in DOMAIN pool
        /\ pool[Top.id].prev \in Nodes /\ buffer \in [Nodes -> SUBSET PktIDs]
    BY TopFacts DEF IsPacket, IInv, DataOK
  <1>2. /\ StackOK(RestAfter(r), [i \in DOMAIN pool \ {Top.id} |-> pool[i]],
                   conn', variousIDs)
        /\ OnlyData(RestAfter(r), pool)
        /\ \A id \in DOMAIN pool \ {Top.id} : \A x :
              Awaiting(RestAfter(r), id, x) <=> Awaiting(evlist, id, x)
    BY ControlStep
  <1>3. /\ OneControl'
        /\ \A id \in DOMAIN pool \ {Top.id} :
              /\ id \in DOMAIN pool' /\ pool'[id] = pool[id] /\ IsData(id)
              /\ \A x : Awaiting(evlist', id, x) <=> Awaiting(RestAfter(r), id, x)
        /\ \A id \in DOMAIN pool' : id \notin DOMAIN pool \ {Top.id} => pool'[id] = pkt
    BY <1>1, <1>2, ControlView
  <1>4. \E id \in DOMAIN pool' : pool'[id] = pkt
    <2> DEFINE msgs == <<pkt>>
    <2>1. Len(msgs) = 1 /\ msgs[1] = pkt /\ Send(msgs, {Top.id}, RestAfter(r))
      OBVIOUS
    <2> HIDE DEF msgs
    <2>2. PICK k : k = variousIDs + 1
      OBVIOUS
    <2>3. k \in NewIDs(msgs) /\ k - variousIDs = 1
      BY <1>2, <2>1, <2>2 DEF NewIDs, StackOK
    <2>4. k \in DOMAIN pool' /\ pool'[k] = msgs[k - variousIDs]
      BY <2>1, <2>3 DEF Send, PoolWith
    <2> QED
      BY <2>1, <2>3, <2>4
  <1>5. DataIDs = DOMAIN pool \ {Top.id} /\ Turn
    BY <1>1, <1>3 DEF DataIDs, IsData, Turn
  <1>6. /\ \A x \in Nodes : x # r => buffer'[x] = buffer[x]
        /\ buffer'[r] \subseteq buffer[r] /\ Alive(buffer[r]) \subseteq buffer'[r]
    BY <1>1 DEF Alive
  <1> QED
    BY <1>1, <1>2, <1>3, <1>4, <1>5, <1>6 DEF Sends

\* Packets S handed over in answer to the control packet on top.
LEMMA DataHanded ==
    ASSUME IInv, OneControl, NEW r, Receiving(r), pool[Top.id].type # "DATA",
           NEW S, S \subseteq buffer[r], NEW order \in Orders(S),
           Send(DataFor(r, pool[Top.id].prev, order, 1), {Top.id}, RestAfter(r)),
           \/ buffer' = [buffer EXCEPT ![r] = Alive(@) \ S]
           \/ S = {} /\ buffer' = buffer,
           UNCHANGED <<received, halted>>
    PROVE  Sends(r, pool[Top.id].prev, S, {})
  <1> DEFINE m == pool[Top.id].prev
  <1>1. /\ r \in Nodes /\ conn' \in [Nodes -> SUBSET Nodes] /\ Top.id \in DOMAIN pool
        /\ m \in Nodes /\ buffer \in [Nodes -> SUBSET PktIDs] /\ m \in conn'[r]
    BY TopFacts, ControlFacts DEF IsPacket, IInv, DataOK
  <1>2. /\ StackOK(RestAfter(r), [i \in DOMAIN pool \ {Top.id} |-> pool[i]],
                   conn', variousIDs)
        /\ OnlyData(RestAfter(r), pool)
        /\ \A id \in DOMAIN pool \ {Top.id} : \A x :
              Awaiting(RestAfter(r), id, x) <=> Awaiting(evlist, id, x)
    BY ControlStep
  <1>3. S \in SUBSET PktIDs /\ 1 \in Nat
    BY <1>1
  <1>4. DataSent(r, m, S, <<>>, {Top.id}, RestAfter(r))
    BY <1>1, <1>2, <1>3, DataAlone
  <1>5. DataIDs = DOMAIN pool \ {Top.id} /\ Turn
    BY <1>1, <1>4 DEF DataIDs, IsData, Turn, DataSent
  <1>6. /\ \A x \in Nodes : x # r => buffer'[x] = buffer[x]
        /\ buffer'[r] \subseteq buffer[r] \ S /\ Alive(buffer[r]) \subseteq buffer'[r] \cup S
    BY <1>1 DEF Alive
  <1>7. \A k \in 1..Len(<<>>) : FALSE
    OBVIOUS
  <1> QED
    BY <1>1, <1>2, <1>4, <1>5, <1>6, <1>7 DEF Sends, DataSent

\* Congestion control lets some of the packets go, and forgets.
LEMMA ForwardSent ==
    ASSUME IInv, OneControl, NEW r, Receiving(r), pool[Top.id].type # "DATA",
           NEW out, out \subseteq Alive(buffer[r]),
           NEW useless, useless \subseteq out, NEW notBetter,
           ~Undecided(r, out, notBetter),
           Forward(r, pool[Top.id].prev, out, useless, notBetter, Top.id, RestAfter(r))
    PROVE  /\ \E S \in filterPackets(r, out, useless) :
                 S \subseteq out /\ Sends(r, pool[Top.id].prev, S, {})
           /\ information' = [information EXCEPT ![r] = {}]
  <1>1. PICK S \in filterPackets(r, out, useless) :
           /\ \E order \in Orders(S) :
                 Send(DataFor(r, pool[Top.id].prev, order, 1), {Top.id}, RestAfter(r))
           /\ buffer' = [buffer EXCEPT ![r] = Alive(@) \ S]
    BY DEF Forward
  <1>2. /\ information' = [information EXCEPT ![r] = {}]
        /\ UNCHANGED <<received, halted>>
    BY DEF Forward, statVars
  <1>3. S \subseteq out /\ S \subseteq buffer[r]
    BY FilterParts DEF Alive
  <1> QED
    BY <1>1, <1>2, <1>3, DataHanded


\* What a node asks once the direct transfers are done, with and without
\* congestion control.
Inquiry(n, m) ==
    IF RT \in {"PROPHET", "SIMBET"} THEN <<Control("REQUEST_CONTACTS", n, m, {})>>
    ELSE IF RT = "BUBBLERAP" THEN <<Control("REQUEST_LC_FS", n, m, {})>>
    ELSE <<>>

Opening(n, m) ==
    IF needsBufferInformation THEN <<Control("REQUEST_BUFFER_INFO", n, m, {})>>
    ELSE Inquiry(n, m)

LEMMA Openings ==
    ASSUME SetOK, NEW n, NEW m, NEW b
    PROVE  AfterDirectTransfers(n, m, b) = Inquiry(n, m) /\ Proceed(n, m, b) = Opening(n, m)
  <1>1. RT \in {"DIRECT", "PROPHET", "SIMBET", "BUBBLERAP"}
    BY FWSettings
  <1>2. /\ RT \notin SummaryProtocols /\ RT # "MSFSPRAYANDWAIT"
        /\ RT \notin DestinationProtocols
        /\ RT \in ContactProtocols <=> RT \in {"PROPHET", "SIMBET"}
    BY <1>1 DEF SummaryProtocols, DestinationProtocols, ContactProtocols
  <1> DEFINE contacts == <<Control("REQUEST_CONTACTS", n, m, {})>>
  <1> DEFINE community_ == <<Control("REQUEST_LC_FS", n, m, {})>>
  <1>3. /\ contacts = <<Control("REQUEST_CONTACTS", n, m, {})>>
        /\ community_ = <<Control("REQUEST_LC_FS", n, m, {})>>
    OBVIOUS
  <1> HIDE DEF RT, contacts, community_
  <1>4. CASE RT \in {"PROPHET", "SIMBET"}
    <2>1. RT \in ContactProtocols
      BY <1>2, <1>4
    <2>2. AfterDirectTransfers(n, m, b) = contacts
      BY <1>2, <1>3, <2>1 DEF AfterDirectTransfers
    <2>3. Inquiry(n, m) = contacts
      BY <1>3, <1>4 DEF Inquiry
    <2> QED
      BY <2>2, <2>3 DEF Proceed, Opening
  <1>5. CASE RT = "BUBBLERAP"
    <2>1. RT \notin ContactProtocols
      BY <1>2, <1>5
    <2>2. AfterDirectTransfers(n, m, b) = community_
      BY <1>2, <1>3, <1>5, <2>1 DEF AfterDirectTransfers
    <2>3. Inquiry(n, m) = community_
      BY <1>3, <1>5 DEF Inquiry
    <2> QED
      BY <2>2, <2>3 DEF Proceed, Opening
  <1>6. CASE RT = "DIRECT"
    <2>1. RT \notin ContactProtocols
      BY <1>2, <1>6
    <2>2. AfterDirectTransfers(n, m, b) = <<>>
      BY <1>2, <1>6, <2>1 DEF AfterDirectTransfers
    <2>3. Inquiry(n, m) = <<>>
      BY <1>6 DEF Inquiry
    <2> QED
      BY <2>2, <2>3 DEF Proceed, Opening
  <1> QED
    BY <1>1, <1>4, <1>5, <1>6

LEMMA OpeningFacts ==
    ASSUME NEW n \in Nodes, NEW m \in Nodes, NEW msgs, msgs = Opening(n, m) \/ msgs = Inquiry(n, m)
    PROVE  /\ msgs = <<>> \/ \E pkt : /\ msgs = <<pkt>> /\ pkt.type # "DATA"
                                      /\ pkt.prev = n /\ pkt.next = m /\ pkt.type \in Types
  <1> DEFINE Fine(s) == s = <<>> \/ \E pkt : /\ s = <<pkt>> /\ pkt.type # "DATA"
                                             /\ pkt.prev = n /\ pkt.next = m /\ pkt.type \in Types
  <1>1. ASSUME NEW type \in Types \ {"DATA"} PROVE Fine(<<Control(type, n, m, {})>>)
    <2>1. PICK pkt : pkt = Control(type, n, m, {})
      OBVIOUS
    <2>2. pkt.type = type /\ pkt.prev = n /\ pkt.next = m
      BY <2>1 DEF Control
    <2> QED
      BY <2>1, <2>2
  <1>2. Fine(<<>>)
    OBVIOUS
  <1>3. {"REQUEST_BUFFER_INFO", "REQUEST_CONTACTS", "REQUEST_LC_FS"} \subseteq Types \ {"DATA"}
    BY DEF Types
  <1> HIDE DEF Fine
  <1>4. Fine(Inquiry(n, m)) /\ Fine(Opening(n, m))
    BY <1>1, <1>2, <1>3 DEF Inquiry, Opening
  <1>5. Fine(msgs)
    BY <1>4
  <1> QED
    BY <1>5 DEF Fine

\* What is sent last is in the pool.
LEMMA LastPooled ==
    ASSUME NEW U, NEW s \in Seq(U), NEW pkt, NEW erased, NEW rest, variousIDs \in Nat,
           Send(s \o <<pkt>>, erased, rest)
    PROVE  \E id \in DOMAIN pool' : pool'[id] = pkt
  <1> DEFINE one == <<pkt>>
  <1> DEFINE all == s \o one
  <1> DEFINE V == U \cup {pkt}
  <1>1. one \in Seq(V) /\ s \in Seq(V) /\ Len(one) = 1 /\ one[1] = pkt
    OBVIOUS
  <1> HIDE DEF one, V
  <1>2. /\ Len(all) = Len(s) + 1 /\ Len(s) \in Nat
        /\ \A i \in 1..(Len(s) + 1) : all[i] = IF i <= Len(s) THEN s[i] ELSE one[i - Len(s)]
    <2>1. /\ Len(all) = Len(s) + Len(one)
          /\ \A i \in 1..(Len(s) + Len(one)) :
                all[i] = IF i <= Len(s) THEN s[i] ELSE one[i - Len(s)]
      BY <1>1, ConcatProperties
    <2>2. Len(s) \in Nat
      BY <1>1
    <2> QED
      BY <1>1, <2>1, <2>2
  <1>3. all[Len(s) + 1] = pkt
    BY <1>1, <1>2
  <1>4. Send(all, erased, rest)
    BY DEF one
  <1> HIDE DEF all
  <1>5. PICK k : k = variousIDs + (Len(s) + 1)
    OBVIOUS
  <1>6. k \in NewIDs(all) /\ k - variousIDs = Len(s) + 1
    BY <1>2, <1>5 DEF NewIDs
  <1>7. k \in DOMAIN pool' /\ pool'[k] = all[k - variousIDs]
    BY <1>4, <1>6 DEF Send, PoolWith
  <1> QED
    BY <1>3, <1>6, <1>7

\* The direct transfers of a new contact.
LEMMA DirectSent ==
    ASSUME IInv, SetOK, FWContactUp
    PROVE  \E C : /\ Sends(Top.a, Top.b, DestinedTo(buffer[Top.a], Top.b), C)
                  /\ IF Opening(Top.a, Top.b) = <<>> THEN C = {}
                     ELSE \E pkt : C = {pkt} /\ Opening(Top.a, Top.b) = <<pkt>>
  <1>0. PICK a, b : a = Top.a /\ b = Top.b
    OBVIOUS
  <1> DEFINE rest == Tail(evlist)
  <1>1. /\ a \in Nodes /\ b \in Nodes /\ a # b /\ evlist # <<>>
        /\ conn' \in [Nodes -> SUBSET Nodes] /\ b \in conn'[a]
        /\ DOMAIN pool = {}
        /\ StackOK(rest, [i \in DOMAIN pool \ {} |-> pool[i]], conn', variousIDs)
        /\ SendDirectPackets(a, b, buffer[a], {}, {}, rest)
    BY <1>0, NewContact
  <1>2. OnlyData(rest, pool)
    <2>1. \A i \in 1..Len(evlist) : evlist[i].ev # "TX"
      BY <1>1 DEF IInv, StackOK, InTransit
    <2>2. \A i \in 1..Len(rest) : i + 1 \in 1..Len(evlist) /\ rest[i] = evlist[i + 1]
      BY <1>1 DEF IInv, StackOK
    <2> QED
      BY <2>1, <2>2 DEF OnlyData
  <1> HIDE DEF rest
  <1> DEFINE S == DestinedTo(buffer[a], b)
  <1>3. /\ S \in SUBSET PktIDs /\ buffer \in [Nodes -> SUBSET PktIDs]
        /\ S \subseteq buffer[a] /\ \A p \in S : origin[p].dst = b
    BY <1>1, BufferParts DEF IInv, DataOK, DestinedTo, Alive
  <1>4. /\ \E order \in Orders(S) : Send(DataFor(a, b, order, 1) \o Opening(a, b), {}, rest)
        /\ buffer' = [buffer EXCEPT ![a] = Alive(buffer[a]) \ S]
        /\ UNCHANGED <<received, halted>>
    <2>1. ~KeepsDelivered /\ LeavesBuffer
      BY FWSettings
    <2>2. {p \in S : ~(KeepsDelivered /\ p \in {})} = S
      OBVIOUS
    <2> QED
      BY <1>1, <2>1, <2>2, Openings DEF SendDirectPackets, statVars
  <1> HIDE DEF S
  <1>5. PICK order \in Orders(S) : Send(DataFor(a, b, order, 1) \o Opening(a, b), {}, rest)
    BY <1>4
  <1>6. PICK msgs : msgs = Opening(a, b)
    OBVIOUS
  <1>7. /\ Sendable(msgs, a, conn') /\ Sendable(DataFor(a, b, order, 1), a, conn')
        /\ variousIDs \in Nat
    <2>1. {} \in SUBSET PktIDs /\ 1 \in Nat /\ variousIDs \in Nat
      BY <1>1 DEF StackOK
    <2>2. Sendable(Proceed(a, b, {}), a, conn') /\ Proceed(a, b, {}) = Opening(a, b)
      BY <1>1, <2>1, Openings, SendableProceed
    <2>3. Sendable(DataFor(a, b, order, 1), a, conn')
      BY <1>1, <1>3, <2>1, SendableData
    <2> QED
      BY <1>6, <2>1, <2>2, <2>3
  <1>8. /\ \/ msgs = <<>>
           \/ \E pkt : msgs = <<pkt>> /\ pkt.type # "DATA"
    <2>1. \/ msgs = <<>>
          \/ \E pkt : /\ msgs = <<pkt>> /\ pkt.type # "DATA"
                      /\ pkt.prev = a /\ pkt.next = b /\ pkt.type \in Types
      BY <1>1, <1>6, OpeningFacts
    <2>2. CASE msgs = <<>>
      BY <2>2
    <2>3. ASSUME NEW pkt, msgs = <<pkt>>, pkt.type # "DATA"
          PROVE  \E q : msgs = <<q>> /\ q.type # "DATA"
      BY <2>3
    <2> QED
      BY <2>1, <2>2, <2>3, Zenon
  <1>9. Len(msgs) <= 1 /\ \A k \in 1..Len(msgs) : msgs[k].type # "DATA"
    <2>1. CASE msgs = <<>>
      BY <2>1
    <2>2. ASSUME NEW pkt, msgs = <<pkt>>, pkt.type # "DATA"
          PROVE  Len(msgs) <= 1 /\ \A k \in 1..Len(msgs) : msgs[k].type # "DATA"
      <3>1. Len(msgs) = 1 /\ msgs[1] = pkt
        BY <2>2
      <3> QED
        BY <2>2, <3>1
    <2> QED
      BY <1>8, <2>1, <2>2
  <1>10. DataSent(a, b, S, msgs, {}, rest)
    BY <1>1, <1>2, <1>3, <1>5, <1>6, <1>7, <1>9, DataView
  <1>11. PICK U : DataFor(a, b, order, 1) \in Seq(U)
    BY <1>7 DEF Sendable
  <1>12. PICK C : IF msgs = <<>> THEN C = {} ELSE \E pkt : C = {pkt} /\ msgs = <<pkt>>
    BY <1>8
  <1>13. \A pkt \in C : /\ msgs = <<pkt>> /\ pkt.type # "DATA"
                        /\ \E id \in DOMAIN pool' : pool'[id] = pkt
    <2> SUFFICES ASSUME NEW pkt \in C
                 PROVE  /\ msgs = <<pkt>> /\ pkt.type # "DATA"
                        /\ \E id \in DOMAIN pool' : pool'[id] = pkt
      OBVIOUS
    <2>1. msgs # <<>>
      BY <1>12
    <2>2. msgs = <<pkt>>
      BY <1>12, <2>1
    <2>3. pkt.type # "DATA"
      BY <1>8, <2>1, <2>2
    <2>4. Send(DataFor(a, b, order, 1) \o <<pkt>>, {}, rest)
      BY <1>5, <1>6, <2>2
    <2> QED
      BY <1>7, <1>11, <2>2, <2>3, <2>4, LastPooled
  <1>14. \A k \in 1..Len(msgs) : msgs[k] \in C
    <2>1. CASE msgs = <<>>
      BY <2>1
    <2>2. ASSUME NEW pkt, C = {pkt}, msgs = <<pkt>>
          PROVE  \A k \in 1..Len(msgs) : msgs[k] \in C
      <3>1. Len(msgs) = 1 /\ msgs[1] = pkt
        BY <2>2
      <3> QED
        BY <2>2, <3>1
    <2> QED
      BY <1>12, <2>1, <2>2
  <1>15. /\ \A x \in Nodes : x # a => buffer'[x] = buffer[x]
         /\ buffer'[a] \subseteq buffer[a] \ S /\ Alive(buffer[a]) \subseteq buffer'[a] \cup S
    BY <1>1, <1>3, <1>4 DEF Alive
  <1>16. DataIDs = {} /\ DOMAIN pool \ {} = {} /\ Turn
    BY <1>1 DEF DataIDs, Turn
  <1>17. Sends(a, b, S, C)
    BY <1>1, <1>3, <1>4, <1>10, <1>13, <1>14, <1>15, <1>16 DEF Sends, DataSent
  <1> QED
    BY <1>0, <1>6, <1>12, <1>17 DEF S


-----------------------------------------------------------------------------
(* Where packets are.                                                      *)

\* Packet p is on its way to node n.
Coming(n, p) ==
    \E id \in DataIDs :
        pool[id].next = n /\ p \in pool[id].ids /\ Awaiting(evlist, id, n)

Holds(n, p) == p \in buffer[n] \/ Coming(n, p)

\* A packet is in one buffer at most, and a data packet that is still to be
\* received by its next hop, or has reached its destination, carries a packet
\* that is in no buffer.  As long as the nodes talk, only what is for the
\* destination itself has been sent.
Stored ==
    /\ OneControl
    /\ \A n \in Nodes : \A p \in buffer[n] :
          /\ p \in Known /\ origin[p].dst # n
          /\ \A m \in Nodes : p \in buffer[m] => m = n
    /\ BufferSize # 0 => \A n \in Nodes : Cardinality(buffer[n]) <= BufferSize
    /\ \A id \in DataIDs :
          /\ \E p \in Known : pool[id].ids = {p}
          /\ \A p \in pool[id].ids :
                Awaiting(evlist, id, pool[id].next) \/ origin[p].dst = pool[id].next
                   => \A x \in Nodes : p \notin buffer[x]
          /\ \A y \in DataIDs : y # id => pool[y].ids \cap pool[id].ids = {}
    /\ DataIDs # DOMAIN pool =>
          \A id \in DataIDs : \A p \in pool[id].ids : origin[p].dst = pool[id].next

\* The settings of the congestion control, and what is alive, do not change.
LEMMA FWFrame ==
    ASSUME Frame
    PROVE  /\ RT' = RT /\ BufferSize' = BufferSize /\ TTL' = TTL
           /\ CongestionControl' = CongestionControl
           /\ needsBufferInformation' <=> needsBufferInformation
           /\ origin' = origin /\ Known' = Known /\ now' = now
           /\ \A p : IsAlive(p)' <=> IsAlive(p)
  BY FrameFacts DEF Frame, RT, BufferSize, TTL, CongestionControl, needsBufferInformation

\* What a buffer becomes when a packet is added.
LEMMA AddedFacts ==
    ASSUME NEW b \in SUBSET PktIDs, NEW p \in PktIDs, NEW c \in Added(b, p),
           BufferSize \in Nat, BufferSize # 0 => Cardinality(b) <= BufferSize
    PROVE  /\ p \in c /\ c \subseteq Alive(b) \cup {p} /\ c \in SUBSET PktIDs
           /\ BufferSize # 0 => Cardinality(c) <= BufferSize
           /\ ~isFull(Alive(b)) => Alive(b) \subseteq c
           /\ BufferSize = 0 /\ TTL = 0 => b \subseteq c
  <1> DEFINE live == Alive(b)
  <1>1. live \in SUBSET PktIDs /\ live \subseteq b /\ (TTL = 0 => live = b)
    BY DEF Alive, IsAlive
  <1>2. /\ IsFiniteSet(live) /\ Cardinality(live) \in Nat
        /\ BufferSize # 0 => Cardinality(live) <= BufferSize
    <2>1. IsFiniteSet(b) /\ Cardinality(b) \in Nat /\ Cardinality(live) \in Nat
      BY <1>1, PktFacts
    <2>2. Cardinality(live) <= Cardinality(b) /\ IsFiniteSet(live)
      BY <1>1, <2>1, FS_Subset
    <2> QED
      BY <2>1, <2>2
  <1>3. CASE p \in live
    <2>1. c = live
      BY <1>3 DEF Added
    <2> QED
      BY <1>1, <1>2, <1>3, <2>1
  <1>4. CASE p \notin live /\ isFull(live)
    <2>1. PICK v \in live : c = (live \ {v}) \cup {p}
      BY <1>4 DEF Added
    <2>2. /\ IsFiniteSet(live \ {v}) /\ Cardinality(live \ {v}) = Cardinality(live) - 1
      BY <1>2, <2>1, FS_RemoveElement
    <2>3. Cardinality(c) = Cardinality(live \ {v}) + 1
      BY <1>4, <2>1, <2>2, FS_AddElement
    <2>4. BufferSize # 0 => Cardinality(c) <= BufferSize
      BY <1>2, <2>2, <2>3
    <2> QED
      BY <1>1, <1>4, <2>1, <2>4 DEF isFull
  <1>5. CASE p \notin live /\ ~isFull(live)
    <2>1. c = live \cup {p}
      BY <1>5 DEF Added
    <2>2. Cardinality(c) = Cardinality(live) + 1
      BY <1>2, <1>5, <2>1, FS_AddElement
    <2>3. BufferSize # 0 => Cardinality(c) <= BufferSize
      BY <1>2, <1>5, <2>2 DEF isFull
    <2> QED
      BY <1>1, <2>1, <2>3
  <1> QED
    BY <1>3, <1>4, <1>5

\* A buffer that only loses packets stays within its size.
LEMMA Smaller ==
    ASSUME NEW b \in SUBSET PktIDs, NEW c, c \subseteq b
    PROVE  /\ c \in SUBSET PktIDs /\ Cardinality(c) \in Nat /\ Cardinality(b) \in Nat
           /\ Cardinality(c) <= Cardinality(b)
  <1>1. IsFiniteSet(b) /\ c \in SUBSET PktIDs /\ Cardinality(c) \in Nat /\ Cardinality(b) \in Nat
    BY PktFacts
  <1> QED
    BY <1>1, FS_Subset

\* The data packets in transmission after a handler has sent something.
LEMMA SentData ==
    ASSUME NEW n, NEW m, NEW S, NEW C, Sends(n, m, S, C)
    PROVE  \A id \in DataIDs' :
              \/ /\ id \in DataIDs /\ pool'[id] = pool[id]
                 /\ \A x : Awaiting(evlist', id, x) <=> Awaiting(evlist, id, x)
              \/ /\ id \notin DataIDs /\ pool'[id].next = m /\ pool'[id].prev = n
                 /\ \E p \in S : pool'[id].ids = {p}
  <1> SUFFICES ASSUME NEW id \in DataIDs', id \notin DataIDs
               PROVE  /\ pool'[id].next = m /\ pool'[id].prev = n
                      /\ \E p \in S : pool'[id].ids = {p}
    BY DEF Sends
  <1>1. id \in DOMAIN pool' \ DataIDs /\ pool'[id].type = "DATA"
    BY DEF DataIDs, IsData
  <1>2. pool'[id] \notin C
    BY <1>1 DEF Sends
  <1>3. \E p \in S : DataOf(pool'[id], n, m, p)
    BY <1>1, <1>2 DEF Sends
  <1> QED
    BY <1>3 DEF DataOf

\* A packet that is sent is on its way to the receiver, in one data packet.
LEMMA SentComing ==
    ASSUME NEW n, NEW m, NEW S, NEW C, Sends(n, m, S, C)
    PROVE  \A x, p : Coming(x, p)' <=> Coming(x, p) \/ (x = m /\ p \in S)
  <1>1. \A id \in DataIDs' :
           \/ /\ id \in DataIDs /\ pool'[id] = pool[id]
              /\ \A x : Awaiting(evlist', id, x) <=> Awaiting(evlist, id, x)
           \/ /\ id \notin DataIDs /\ pool'[id].next = m
              /\ \E p \in S : pool'[id].ids = {p}
    BY SentData
  <1>2. ASSUME NEW x, NEW p, Coming(x, p)' PROVE Coming(x, p) \/ (x = m /\ p \in S)
    BY <1>1, <1>2 DEF Coming
  <1>3. ASSUME NEW x, NEW p, Coming(x, p) PROVE Coming(x, p)'
    <2>1. PICK id \in DataIDs :
             pool[id].next = x /\ p \in pool[id].ids /\ Awaiting(evlist, id, x)
      BY <1>3 DEF Coming
    <2>2. id \in DOMAIN pool' /\ pool'[id] = pool[id] /\ Awaiting(evlist', id, x)
      BY <2>1 DEF Sends
    <2>3. id \in DataIDs'
      BY <2>1, <2>2 DEF DataIDs, IsData
    <2> QED
      BY <2>1, <2>2, <2>3 DEF Coming
  <1>4. ASSUME NEW p \in S PROVE Coming(m, p)'
    <2>1. PICK id \in DOMAIN pool' : DataOf(pool'[id], n, m, p) /\ Awaiting(evlist', id, m)
      BY DEF Sends
    <2>2. id \in DataIDs' /\ pool'[id].next = m /\ p \in pool'[id].ids
      BY <2>1 DEF DataIDs, IsData, DataOf
    <2> QED
      BY <2>1, <2>2 DEF Coming
  <1> QED
    BY <1>2, <1>3, <1>4

\* What is sent comes from one buffer and is in no other data packet.
LEMMA SendsStored ==
    ASSUME IInv, SetOK, Stored, Frame, NEW n, NEW m, NEW S, NEW C, Sends(n, m, S, C)
    PROVE  Stored'
  <1>1. /\ n \in Nodes /\ m \in Nodes /\ buffer \in [Nodes -> SUBSET PktIDs]
        /\ S \subseteq buffer[n] /\ BufferSize \in Nat
    BY FWSettings DEF Sends, IInv, DataOK
  <1>2. /\ origin' = origin /\ Known' = Known /\ BufferSize' = BufferSize
    BY FWFrame
  <1>3. \A x \in Nodes : buffer'[x] \subseteq buffer[x] /\ buffer'[x] \cap S = {}
    <2>1. \A x \in Nodes : x # n => buffer[x] \cap S = {}
      BY <1>1 DEF Stored
    <2> QED
      BY <2>1 DEF Sends
  <1>4. ASSUME NEW id \in DataIDs, NEW p \in pool[id].ids, p \in S PROVE FALSE
    <2>1. DataIDs # DOMAIN pool
      BY <1>4 DEF Sends, Turn, DataIDs
    <2>2. origin[p].dst = pool[id].next
      BY <1>4, <2>1 DEF Stored
    <2>3. p \notin buffer[n]
      BY <1>1, <1>4, <2>2 DEF Stored
    <2> QED
      BY <1>1, <1>4, <2>3
  <1>5. \A id \in DataIDs' :
           \/ /\ id \in DataIDs /\ pool'[id] = pool[id]
              /\ \A x : Awaiting(evlist', id, x) <=> Awaiting(evlist, id, x)
           \/ /\ id \notin DataIDs /\ pool'[id].next = m
              /\ \E p \in S : pool'[id].ids = {p}
    BY SentData
  <1>6. ASSUME NEW x \in Nodes, NEW p \in buffer'[x]
        PROVE  /\ p \in Known' /\ origin'[p].dst # x
               /\ \A y \in Nodes : p \in buffer'[y] => y = x
    BY <1>2, <1>3, <1>6 DEF Stored
  <1>7. ASSUME BufferSize' # 0, NEW x \in Nodes PROVE Cardinality(buffer'[x]) <= BufferSize'
    <2>1. Cardinality(buffer[x]) <= BufferSize
      BY <1>2, <1>7 DEF Stored
    <2>2. /\ Cardinality(buffer'[x]) <= Cardinality(buffer[x])
          /\ Cardinality(buffer'[x]) \in Nat /\ Cardinality(buffer[x]) \in Nat
      BY <1>1, <1>3, Smaller
    <2> QED
      BY <1>1, <1>2, <2>1, <2>2
  <1>8. ASSUME NEW id \in DataIDs'
        PROVE  /\ \E p \in Known' : pool'[id].ids = {p}
               /\ \A p \in pool'[id].ids :
                     Awaiting(evlist', id, pool'[id].next) \/ origin'[p].dst = pool'[id].next
                        => \A x \in Nodes : p \notin buffer'[x]
    <2>1. CASE id \in DataIDs
      BY <1>2, <1>3, <1>5, <1>8, <2>1 DEF Stored
    <2>2. CASE id \notin DataIDs
      <3>1. PICK p \in S : pool'[id].ids = {p}
        BY <1>5, <1>8, <2>2
      <3>2. p \in Known'
        BY <1>1, <1>2 DEF Stored
      <3> QED
        BY <1>3, <3>1, <3>2
    <2> QED
      BY <2>1, <2>2
  <1>9. ASSUME NEW id \in DataIDs', NEW y \in DataIDs', y # id
        PROVE  pool'[y].ids \cap pool'[id].ids = {}
    <2>1. CASE id \in DataIDs /\ y \in DataIDs
      BY <1>5, <1>9, <2>1 DEF Stored
    <2>2. CASE id \notin DataIDs /\ y \notin DataIDs
      <3>1. id \in DOMAIN pool' \ DataIDs /\ y \in DOMAIN pool' \ DataIDs
            /\ pool'[id].type = "DATA" /\ pool'[y].type = "DATA"
        BY <2>2 DEF DataIDs, IsData
      <3> QED
        BY <1>9, <3>1 DEF Sends
    <2>3. CASE id \in DataIDs /\ y \notin DataIDs
      BY <1>4, <1>5, <1>9, <2>3
    <2>4. CASE id \notin DataIDs /\ y \in DataIDs
      BY <1>4, <1>5, <1>9, <2>4
    <2> QED
      BY <2>1, <2>2, <2>3, <2>4
  <1>10. ASSUME DataIDs' # DOMAIN pool', NEW id \in DataIDs', NEW p \in pool'[id].ids
         PROVE  origin'[p].dst = pool'[id].next
    <2>1. CASE id \in DataIDs
      <3>1. DataIDs # DOMAIN pool
        BY <2>1 DEF Sends, Turn, DataIDs
      <3> QED
        BY <1>2, <1>5, <1>10, <2>1, <3>1 DEF Stored
    <2>2. CASE id \notin DataIDs
      <3>1. PICK i \in DOMAIN pool' : i \notin DataIDs'
        BY <1>10 DEF DataIDs
      <3>2. pool'[i].type # "DATA"
        BY <3>1 DEF DataIDs, IsData
      <3>3. i \notin DataIDs
        BY <3>1, <3>2 DEF Sends, DataIDs, IsData
      <3>4. C # {}
        BY <3>1, <3>2, <3>3 DEF Sends, DataOf
      <3> QED
        BY <1>2, <1>5, <1>10, <2>2, <3>4 DEF Sends
    <2> QED
      BY <2>1, <2>2
  <1>11. OneControl'
    BY DEF Sends
  <1> QED
    BY <1>6, <1>7, <1>8, <1>9, <1>10, <1>11 DEF Stored


\* A data packet is read by r: what that changes in transmission.
LEMMA ReadView ==
    ASSUME IInv, Stored, NEW r, Receiving(r), pool[Top.id].type = "DATA",
           Access(Top.id, RestAfter(r))
    PROVE  /\ OneControl' /\ DataIDs = DOMAIN pool /\ DataIDs' = DOMAIN pool'
           /\ DataIDs' \subseteq DataIDs /\ Top.id \in DataIDs
           /\ \A id \in DataIDs' :
                 /\ pool'[id].prev = pool[id].prev /\ pool'[id].next = pool[id].next
                 /\ pool'[id].ids = pool[id].ids
           /\ Awaiting(evlist, Top.id, r)
           /\ \A id, x : Awaiting(evlist', id, x)
                 <=> Awaiting(evlist, id, x) /\ ~(id = Top.id /\ x = r)
           /\ \A x, p : Coming(x, p)' <=>
                 /\ Coming(x, p)
                 /\ ~(x = r /\ pool[Top.id].next = r /\ p \in pool[Top.id].ids)
  <1>1. /\ OneControl'
        /\ \A id \in DOMAIN pool' :
              /\ id \in DOMAIN pool /\ IsData(id) /\ IsData(id)'
              /\ pool'[id].prev = pool[id].prev /\ pool'[id].next = pool[id].next
              /\ pool'[id].ids = pool[id].ids
        /\ \A id, x : Awaiting(evlist', id, x)
              <=> Awaiting(evlist, id, x) /\ ~(id = Top.id /\ x = r)
        /\ \A id, x : Awaiting(evlist', id, x) => id \in DOMAIN pool'
    BY AccessView DEF Stored
  <1>2. \A id \in DOMAIN pool : IsData(id)
    BY AllData DEF Stored
  <1>3. /\ DataIDs = DOMAIN pool /\ DataIDs' = DOMAIN pool' /\ DataIDs' \subseteq DataIDs
        /\ Top.id \in DataIDs
    BY <1>1, <1>2, TopFacts DEF DataIDs
  <1>4. Awaiting(evlist, Top.id, r)
    BY TopFacts DEF Receiving, Awaiting
  <1>5. ASSUME NEW x, NEW p, Coming(x, p)'
        PROVE  /\ Coming(x, p)
               /\ ~(x = r /\ pool[Top.id].next = r /\ p \in pool[Top.id].ids)
    <2>1. PICK id \in DataIDs' :
             pool'[id].next = x /\ p \in pool'[id].ids /\ Awaiting(evlist', id, x)
      BY <1>5 DEF Coming
    <2>2. /\ id \in DataIDs /\ pool[id].next = x /\ p \in pool[id].ids
          /\ Awaiting(evlist, id, x) /\ ~(id = Top.id /\ x = r)
      BY <1>1, <1>3, <2>1
    <2>3. x = r => p \notin pool[Top.id].ids
      BY <1>3, <2>2 DEF Stored
    <2> QED
      BY <2>2, <2>3 DEF Coming
  <1>6. ASSUME NEW x, NEW p, Coming(x, p),
               ~(x = r /\ pool[Top.id].next = r /\ p \in pool[Top.id].ids)
        PROVE  Coming(x, p)'
    <2>1. PICK id \in DataIDs :
             pool[id].next = x /\ p \in pool[id].ids /\ Awaiting(evlist, id, x)
      BY <1>6 DEF Coming
    <2>2. Awaiting(evlist', id, x)
      BY <1>1, <1>6, <2>1
    <2>3. id \in DataIDs'
      BY <1>1, <1>3, <2>2
    <2> QED
      BY <1>1, <1>3, <2>1, <2>2, <2>3 DEF Coming
  <1> QED
    BY <1>1, <1>3, <1>4, <1>5, <1>6

\* Reading a data packet, when no buffer but that of its next hop, which the
\* packet is not destined to, takes anything in.
LEMMA ReadStored ==
    ASSUME IInv, SetOK, Stored, Frame, NEW r, Receiving(r), pool[Top.id].type = "DATA",
           Access(Top.id, RestAfter(r)),
           \A x \in Nodes : \A p \in buffer'[x] :
              \/ p \in buffer[x]
              \/ /\ x = r /\ pool[Top.id].next = r /\ p \in pool[Top.id].ids
                 /\ origin[p].dst # r,
           BufferSize # 0 => \A x \in Nodes : Cardinality(buffer'[x]) <= BufferSize
    PROVE  Stored'
  <1>1. /\ OneControl' /\ DataIDs = DOMAIN pool /\ DataIDs' = DOMAIN pool'
        /\ DataIDs' \subseteq DataIDs /\ Top.id \in DataIDs
        /\ \A id \in DataIDs' :
              pool'[id].next = pool[id].next /\ pool'[id].ids = pool[id].ids
        /\ Awaiting(evlist, Top.id, r)
        /\ \A id, x : Awaiting(evlist', id, x)
              <=> Awaiting(evlist, id, x) /\ ~(id = Top.id /\ x = r)
    BY ReadView
  <1>2. /\ origin' = origin /\ Known' = Known /\ BufferSize' = BufferSize
    BY FWFrame
  <1>3. ASSUME NEW p \in pool[Top.id].ids, pool[Top.id].next = r
        PROVE  p \in Known /\ \A x \in Nodes : p \notin buffer[x]
    BY <1>1, <1>3 DEF Stored
  <1>4. ASSUME NEW x \in Nodes, NEW p \in buffer'[x]
        PROVE  /\ p \in Known' /\ origin'[p].dst # x
               /\ \A y \in Nodes : p \in buffer'[y] => y = x
    <2>1. CASE p \in buffer[x]
      BY <1>2, <1>3, <1>4, <2>1 DEF Stored
    <2>2. CASE p \notin buffer[x]
      BY <1>2, <1>3, <1>4, <2>2
    <2> QED
      BY <2>1, <2>2
  <1>5. ASSUME NEW id \in DataIDs', NEW p \in pool'[id].ids,
               Awaiting(evlist', id, pool'[id].next) \/ origin'[p].dst = pool'[id].next,
               NEW x \in Nodes, p \in buffer'[x]
        PROVE  FALSE
    <2>1. /\ id \in DataIDs /\ p \in pool[id].ids
          /\ Awaiting(evlist, id, pool[id].next) \/ origin[p].dst = pool[id].next
      BY <1>1, <1>2, <1>5
    <2>2. p \notin buffer[x]
      BY <2>1 DEF Stored
    <2>3. x = r /\ pool[Top.id].next = r /\ p \in pool[Top.id].ids /\ origin[p].dst # r
      BY <1>5, <2>2
    <2>4. id = Top.id
      BY <1>1, <2>1, <2>3 DEF Stored
    <2> QED
      BY <1>1, <1>2, <1>5, <2>3, <2>4
  <1>6. ASSUME NEW id \in DataIDs'
        PROVE  /\ \E p \in Known' : pool'[id].ids = {p}
               /\ \A y \in DataIDs' : y # id => pool'[y].ids \cap pool'[id].ids = {}
    BY <1>1, <1>2 DEF Stored
  <1> QED
    BY <1>1, <1>2, <1>4, <1>5, <1>6 DEF Stored

-----------------------------------------------------------------------------
(* What a step is, as far as packets are concerned.                        *)

\* A node that is not the next hop reads the data packet on top, ...
Overheard(r) == pool[Top.id].next # r /\ UNCHANGED <<buffer, received, halted>>

\* ... the destination, ...
Delivered(r, p) ==
    /\ pool[Top.id].next = r /\ p \in pool[Top.id].ids /\ origin[p].dst = r
    /\ received' = received \cup {p}
    /\ UNCHANGED <<buffer, halted>>

\* ... or the next carrier.
Relayed(r, p) ==
    /\ pool[Top.id].next = r /\ p \in pool[Top.id].ids /\ origin[p].dst # r
    /\ p \notin Alive(buffer[r])
    /\ \E b \in Added(buffer[r], p) : buffer' = [buffer EXCEPT ![r] = b]
    /\ UNCHANGED <<received, halted>>

Reads(r) ==
    /\ Receiving(r) /\ pool[Top.id].type = "DATA" /\ Access(Top.id, RestAfter(r))
    /\ Overheard(r) \/ \E p \in pool[Top.id].ids : Delivered(r, p) \/ Relayed(r, p)

LEMMA ReadsStored ==
    ASSUME IInv, SetOK, Stored, Frame, NEW r, Reads(r)
    PROVE  Stored'
  <1>1. /\ r \in Nodes /\ buffer \in [Nodes -> SUBSET PktIDs] /\ BufferSize \in Nat
        /\ Known \subseteq PktIDs
    BY TopFacts, FWSettings, RoutingAssumption
       DEF Reads, IInv, DataOK, NetOK, Known, PktIDs
  <1>2. CASE buffer' = buffer
    BY <1>2, ReadStored DEF Reads, Stored
  <1>3. ASSUME NEW p \in pool[Top.id].ids, Relayed(r, p) PROVE Stored'
    <2>1. PICK b \in Added(buffer[r], p) : buffer' = [buffer EXCEPT ![r] = b]
      BY <1>3 DEF Relayed
    <2>2. Top.id \in DataIDs
      BY ReadView DEF Reads
    <2>3. p \in PktIDs
      BY <1>1, <2>2 DEF Stored
    <2>4. /\ b \subseteq buffer[r] \cup {p}
          /\ BufferSize # 0 => Cardinality(b) <= BufferSize
      <3>1. buffer[r] \in SUBSET PktIDs
        BY <1>1
      <3>2. BufferSize # 0 => Cardinality(buffer[r]) <= BufferSize
        BY <1>1 DEF Stored
      <3>3. /\ b \subseteq Alive(buffer[r]) \cup {p}
            /\ BufferSize # 0 => Cardinality(b) <= BufferSize
        BY <1>1, <2>1, <2>3, <3>1, <3>2, AddedFacts
      <3> QED
        BY <3>3 DEF Alive
    <2>5. \A x \in Nodes : buffer'[x] = IF x = r THEN b ELSE buffer[x]
      BY <1>1, <2>1
    <2>6. \A x \in Nodes : \A q \in buffer'[x] :
             \/ q \in buffer[x]
             \/ /\ x = r /\ pool[Top.id].next = r /\ q \in pool[Top.id].ids
                /\ origin[q].dst # r
      BY <1>3, <2>4, <2>5 DEF Relayed
    <2>7. BufferSize # 0 => \A x \in Nodes : Cardinality(buffer'[x]) <= BufferSize
      BY <2>4, <2>5 DEF Stored
    <2> QED
      BY <2>6, <2>7, ReadStored DEF Reads
  <1> QED
    BY <1>2, <1>3 DEF Reads, Overheard, Delivered


\* Nothing is in transmission, before and after.
IdleStep == DOMAIN pool = {} /\ DOMAIN pool' = {} /\ halted' = halted

LEMMA IdleStored ==
    ASSUME IInv', IdleStep,
           \A n \in Nodes : \A p \in buffer'[n] :
              /\ p \in Known' /\ origin'[p].dst # n
              /\ \A m \in Nodes : p \in buffer'[m] => m = n,
           BufferSize' # 0 => \A n \in Nodes : Cardinality(buffer'[n]) <= BufferSize'
    PROVE  Stored' /\ \A n, p : ~Coming(n, p) /\ ~Coming(n, p)'
  <1>1. \A i \in 1..Len(evlist') : evlist'[i].ev # "TX"
    BY DEF IInv, StackOK, InTransit, IdleStep
  <1>2. OneControl'
    BY <1>1 DEF OneControl, IInv, StackOK
  <1>3. DataIDs = {} /\ DataIDs' = {} /\ DOMAIN pool' = {}
    BY DEF DataIDs, IdleStep
  <1> QED
    BY <1>2, <1>3 DEF Stored, Coming

\* When nothing of what is stored changes either.
Unmoved == IdleStep /\ UNCHANGED <<Set, origin, buffer, received, halted>>

LEMMA UnmovedStored ==
    ASSUME IInv', Stored, Unmoved
    PROVE  Stored' /\ \A n, p : ~Coming(n, p) /\ ~Coming(n, p)'
  <1>1. origin' = origin /\ Known' = Known /\ BufferSize' = BufferSize /\ buffer' = buffer /\ IdleStep
    BY DEF Unmoved, Known, BufferSize
  <1>2. \A n \in Nodes : \A p \in buffer'[n] :
           /\ p \in Known' /\ origin'[p].dst # n
           /\ \A m \in Nodes : p \in buffer'[m] => m = n
    BY <1>1 DEF Stored
  <1>3. BufferSize' # 0 => \A n \in Nodes : Cardinality(buffer'[n]) <= BufferSize'
    BY <1>1 DEF Stored
  <1> QED
    BY <1>1, <1>2, <1>3, IdleStored

LEMMA EnvironmentUnmoved ==
    ASSUME IInv, FWEnvironment, UNCHANGED Set
    PROVE  Unmoved
  <1>1. Quiet /\ UNCHANGED <<pool, origin, buffer, received, halted>>
    BY DEF FWEnvironment, Environment, Tick, BeginContact, EndContact, TouchContact, Generate,
       Schedule, netVars, msgVars, statVars
  <1>2. DOMAIN pool = {}
    <2>1. 1..Len(evlist) = {}
      BY <1>1 DEF Quiet
    <2> QED
      BY <2>1 DEF IInv, StackOK
  <1> QED
    BY <1>1, <1>2 DEF Unmoved, IdleStep

LEMMA ContactDownUnmoved ==
    ASSUME IInv, ContactDown, UNCHANGED Set
    PROVE  Unmoved
  <1>1. /\ TopIs("DOWN") /\ UNCHANGED <<origin, pool, buffer, received, halted>>
    BY DEF ContactDown, statVars
  <1>2. evlist # <<>> /\ Head(evlist).ev # "TX"
    BY <1>1, ContactFacts
  <1>3. DOMAIN pool = {}
    BY <1>2, NoTransmission DEF IInv
  <1> QED
    BY <1>1, <1>3 DEF Unmoved, IdleStep

\* A packet of the application is new to everybody; it enters one buffer.
NewPacket(p) ==
    /\ IdleStep /\ p = Len(origin) + 1 /\ p \notin Known /\ Known' = Known \cup {p}
    /\ \A q \in Known : origin'[q] = origin[q]
    /\ UNCHANGED <<Set, received, now>>
    /\ \E n \in Nodes : /\ origin'[p].dst # n
                        /\ \E b \in Added(buffer[n], p) : buffer' = [buffer EXCEPT ![n] = b]

LEMMA RecvFromAppNew ==
    ASSUME IInv, RecvFromApp, UNCHANGED Set
    PROVE  NewPacket(Len(origin) + 1)
  <1> DEFINE p == Len(origin) + 1
  <1> DEFINE pkt == [src |-> Top.a, dst |-> Top.b, time |-> now]
  <1>1. /\ TopIs("APP") /\ origin' = Append(origin, pkt)
        /\ UNCHANGED <<now, pool, received, halted>>
    BY DEF RecvFromApp, statVars
  <1>2. PICK b \in Added(buffer[Top.a], p) : buffer' = [buffer EXCEPT ![Top.a] = b]
    BY DEF RecvFromApp
  <1>3. Top.a \in Nodes /\ Top.b \in Nodes /\ Top.a # Top.b /\ evlist # <<>>
        /\ Head(evlist).ev # "TX"
    BY <1>1, ContactFacts
  <1>4. DOMAIN pool = {}
    BY <1>3, NoTransmission DEF IInv
  <1>5. IdleStep
    BY <1>1, <1>4 DEF IdleStep
  <1>6. /\ Len(origin') = Len(origin) + 1 /\ Len(origin) \in Nat
        /\ \A q \in 1..Len(origin) : origin'[q] = origin[q]
        /\ origin'[Len(origin) + 1] = pkt
    BY <1>1 DEF IInv, NetOK
  <1>7. /\ p \notin Known /\ Known' = Known \cup {p} /\ \A q \in Known : origin'[q] = origin[q]
    BY <1>6 DEF Known
  <1>8. origin'[p].dst # Top.a
    BY <1>3, <1>6
  <1> QED
    BY <1>1, <1>2, <1>3, <1>5, <1>7, <1>8 DEF NewPacket

LEMMA NewPacketStored ==
    ASSUME IInv, IInv', SetOK, Stored, NEW p, NewPacket(p)
    PROVE  Stored' /\ \A n, q : ~Coming(n, q) /\ ~Coming(n, q)'
  <1>0. PICK n \in Nodes :
           /\ origin'[p].dst # n
           /\ \E b \in Added(buffer[n], p) : buffer' = [buffer EXCEPT ![n] = b]
    BY DEF NewPacket
  <1>1. PICK b \in Added(buffer[n], p) : buffer' = [buffer EXCEPT ![n] = b]
    BY <1>0
  <1>2. /\ buffer \in [Nodes -> SUBSET PktIDs] /\ BufferSize \in Nat /\ Known' \subseteq PktIDs
        /\ BufferSize' = BufferSize
    BY FWSettings, RoutingAssumption
       DEF IInv, DataOK, NetOK, Known, PktIDs, NewPacket, BufferSize
  <1>3. p \in PktIDs /\ Known' = Known \cup {p} /\ p \notin Known /\ IdleStep
    BY <1>2 DEF NewPacket
  <1>4. /\ b \subseteq buffer[n] \cup {p}
        /\ BufferSize # 0 => Cardinality(b) <= BufferSize
    <2>1. buffer[n] \in SUBSET PktIDs
      BY <1>1, <1>2
    <2>2. BufferSize # 0 => Cardinality(buffer[n]) <= BufferSize
      BY <1>1 DEF Stored
    <2>3. /\ b \subseteq Alive(buffer[n]) \cup {p}
          /\ BufferSize # 0 => Cardinality(b) <= BufferSize
      BY <1>1, <1>2, <1>3, <2>1, <2>2, AddedFacts
    <2> QED
      BY <2>3 DEF Alive
  <1>5. \A x \in Nodes : buffer'[x] = IF x = n THEN b ELSE buffer[x]
    BY <1>1, <1>2
  <1>6. \A x \in Nodes : \A q \in buffer[x] : q \in Known
    BY DEF Stored
  <1>7. \A x \in Nodes : \A q \in buffer'[x] : q \in buffer[x] \/ (q = p /\ x = n)
    BY <1>4, <1>5
  <1>8. ASSUME NEW x \in Nodes, NEW q \in buffer'[x]
        PROVE  /\ q \in Known' /\ origin'[q].dst # x
               /\ \A y \in Nodes : q \in buffer'[y] => y = x
    <2>1. CASE q = p
      BY <1>0, <1>3, <1>6, <1>7, <1>8, <2>1
    <2>2. CASE q # p
      <3>1. q \in buffer[x] /\ q \in Known /\ origin'[q] = origin[q]
        BY <1>6, <1>7, <1>8, <2>2 DEF NewPacket
      <3> QED
        BY <1>3, <1>7, <2>2, <3>1 DEF Stored
    <2> QED
      BY <2>1, <2>2
  <1>9. BufferSize' # 0 => \A x \in Nodes : Cardinality(buffer'[x]) <= BufferSize'
    BY <1>2, <1>4, <1>5 DEF Stored
  <1> QED
    BY <1>3, <1>8, <1>9, IdleStored


-----------------------------------------------------------------------------
(* The handlers: what they send.                                           *)

\* Node r answers the control packet on top.
Says(r, type, body) ==
    Sends(r, pool[Top.id].prev, {}, {Reply(type, r, pool[Top.id].prev, body)})

LEMMA ReplySays ==
    ASSUME IInv, OneControl, NEW r, Receiving(r), pool[Top.id].type # "DATA",
           NEW type, type \notin Types, NEW body,
           Send(<<Reply(type, r, pool[Top.id].prev, body)>>, {Top.id}, RestAfter(r)),
           \/ buffer' = buffer
           \/ buffer' = [buffer EXCEPT ![r] = buffer[r]]
           \/ buffer' = [buffer EXCEPT ![r] = Alive(buffer[r])],
           UNCHANGED <<statVars, halted>>
    PROVE  Says(r, type, body)
  <1>1. r \in Nodes /\ pool[Top.id].prev \in conn'[r] /\ pool[Top.id].prev \in Nodes
    BY TopFacts, ControlFacts
  <1>2. PICK pkt : pkt = Reply(type, r, pool[Top.id].prev, body)
    OBVIOUS
  <1>3. Sendable(<<pkt>>, r, conn')
    BY <1>1, <1>2, SendableReply
  <1>4. pkt.type # "DATA"
    BY <1>2 DEF Reply, Types
  <1>5. UNCHANGED <<received, halted>>
    BY DEF statVars
  <1> QED
    BY <1>2, <1>3, <1>4, <1>5, AnswerSent DEF Says

\* Packets out are handed to the node that answered, or the program ends.
Hands(r, out, useless) ==
    /\ out \subseteq Alive(buffer[r])
    /\ \E S \in filterPackets(r, out, useless) :
          S \subseteq out /\ Sends(r, pool[Top.id].prev, S, {})
    /\ information' = [information EXCEPT ![r] = {}]

Stops == halted' /\ UNCHANGED <<evlist, pool, buffer, received, information>>

LEMMA ForwardHands ==
    ASSUME IInv, OneControl, NEW r, Receiving(r), pool[Top.id].type # "DATA",
           NEW out, out \subseteq Alive(buffer[r]),
           NEW useless, useless \subseteq out, NEW notBetter,
           Forward(r, pool[Top.id].prev, out, useless, notBetter, Top.id, RestAfter(r))
    PROVE  IF Undecided(r, out, notBetter) THEN Stops ELSE Hands(r, out, useless)
  <1>1. CASE Undecided(r, out, notBetter)
    BY <1>1 DEF Forward, Exit, Stops, msgVars, statVars
  <1>2. CASE ~Undecided(r, out, notBetter)
    BY <1>2, ForwardSent DEF Hands
  <1> QED
    BY <1>1, <1>2

\* Congestion control.
LEMMA BufferReqSays ==
    ASSUME IInv, OneControl, NEW r, Receiving(r),
           ReceptionBufferReq(r, Top.id, pool[Top.id], RestAfter(r))
    PROVE  /\ pool[Top.id].type = "REQUEST_BUFFER_INFO"
           /\ \E size \in AdvertisedSizes :
                 Says(r, "BUFFER_INFO", [size |-> size, length |-> Cardinality(buffer[r])])
           /\ information' = information /\ buffer' = buffer
  <1>1. PICK size \in AdvertisedSizes :
           Send(<<Reply("BUFFER_INFO", r, pool[Top.id].prev,
                        [size |-> size, length |-> Cardinality(buffer[r])])>>,
                {Top.id}, RestAfter(r))
    BY DEF ReceptionBufferReq
  <1>2. pool[Top.id].type = "REQUEST_BUFFER_INFO"
        /\ UNCHANGED <<buffer, dmVars, statVars, halted, information>>
    BY DEF ReceptionBufferReq
  <1>3. PICK body : body = [size |-> size, length |-> Cardinality(buffer[r])]
    OBVIOUS
  <1>4. Says(r, "BUFFER_INFO", body)
    BY <1>1, <1>2, <1>3, ReplySays, ReplyTypes
  <1> QED
    BY <1>2, <1>3, <1>4

LEMMA BufferRspSends ==
    ASSUME IInv, SetOK, OneControl, NEW r, Receiving(r),
           ReceptionBufferRsp(r, Top.id, pool[Top.id], RestAfter(r)),
           RT \in {"PROPHET", "SIMBET"}
    PROVE  /\ pool[Top.id].type = "BUFFER_INFO"
           /\ Sends(r, pool[Top.id].prev, {},
                    {Control("REQUEST_CONTACTS", r, pool[Top.id].prev, {})})
           /\ information' = [information EXCEPT ![r] =
                 {[recID |-> pool[Top.id].prev, size |-> pool[Top.id].body.size,
                   length |-> pool[Top.id].body.length]}]
           /\ buffer' = buffer
  <1>1. /\ pool[Top.id].type = "BUFFER_INFO"
        /\ Send(AfterDirectTransfers(r, pool[Top.id].prev, buffer[r]), {Top.id}, RestAfter(r))
        /\ information' = [information EXCEPT ![r] =
              {[recID |-> pool[Top.id].prev, size |-> pool[Top.id].body.size,
                length |-> pool[Top.id].body.length]}]
        /\ UNCHANGED <<buffer, statVars, halted>>
    BY DEF ReceptionBufferRsp
  <1>2. PICK pkt : pkt = Control("REQUEST_CONTACTS", r, pool[Top.id].prev, {})
    OBVIOUS
  <1>3. AfterDirectTransfers(r, pool[Top.id].prev, buffer[r]) = <<pkt>>
    BY <1>2, Openings DEF Inquiry
  <1>4. /\ r \in Nodes /\ pool[Top.id].prev \in conn'[r] /\ pool[Top.id].prev \in Nodes
        /\ "REQUEST_CONTACTS" \in Types /\ {} \in SUBSET PktIDs
    BY <1>1, TopFacts, ControlFacts DEF Types
  <1>5. Sendable(<<pkt>>, r, conn') /\ pkt.type # "DATA"
    BY <1>2, <1>4, SendableControl DEF Control
  <1>6. Sends(r, pool[Top.id].prev, {}, {pkt})
    BY <1>1, <1>3, <1>5, AnswerSent DEF statVars
  <1> QED
    BY <1>1, <1>2, <1>6

\* PRoPHET and SimBet.
LEMMA RequestContactsSays ==
    ASSUME IInv, OneControl, NEW r, Receiving(r),
           ReceptionRequestContacts(r, Top.id, pool[Top.id], RestAfter(r))
    PROVE  /\ pool[Top.id].type = "REQUEST_CONTACTS"
           /\ IF RT = "PROPHET" THEN Says(r, "DEST_PREDICT", dpt[r])
              ELSE \E body : Says(r, "CONTACTS", body)
           /\ UNCHANGED <<information, dpt, buffer>>
  <1>1. /\ pool[Top.id].type = "REQUEST_CONTACTS"
        /\ Send(<<IF RT = "PROPHET" THEN Reply("DEST_PREDICT", r, pool[Top.id].prev, dpt[r])
                  ELSE Reply("CONTACTS", r, pool[Top.id].prev, graph[r][r])>>,
                {Top.id}, RestAfter(r))
        /\ UNCHANGED <<buffer, statVars, halted, information, dpt>>
    BY DEF ReceptionRequestContacts, utilVars
  <1>2. CASE RT = "PROPHET"
    <2>1. Send(<<Reply("DEST_PREDICT", r, pool[Top.id].prev, dpt[r])>>, {Top.id}, RestAfter(r))
      BY <1>1, <1>2
    <2> QED
      BY <1>1, <1>2, <2>1, ReplySays, ReplyTypes
  <1>3. CASE RT # "PROPHET"
    <2>1. Send(<<Reply("CONTACTS", r, pool[Top.id].prev, graph[r][r])>>,
               {Top.id}, RestAfter(r))
      BY <1>1, <1>3
    <2>2. Says(r, "CONTACTS", graph[r][r])
      BY <1>1, <2>1, ReplySays, ReplyTypes
    <2> QED
      BY <1>1, <1>3, <2>2
  <1> QED
    BY <1>2, <1>3

LEMMA ContactsSays ==
    ASSUME IInv, OneControl, NEW r, Receiving(r),
           ReceptionContacts(r, Top.id, pool[Top.id], RestAfter(r))
    PROVE  /\ pool[Top.id].type = "CONTACTS" /\ \E body : Says(r, "DEST", body)
           /\ UNCHANGED <<information, dpt>>
           /\ buffer' = [buffer EXCEPT ![r] = Alive(buffer[r])]
  <1>1. /\ pool[Top.id].type = "CONTACTS"
        /\ \E body : Send(<<Reply("DEST", r, pool[Top.id].prev, body)>>, {Top.id}, RestAfter(r))
        /\ buffer' = [buffer EXCEPT ![r] = Alive(buffer[r])]
        /\ UNCHANGED <<statVars, halted, information, dpt>>
    BY DEF ReceptionContacts
  <1>2. PICK body : Send(<<Reply("DEST", r, pool[Top.id].prev, body)>>, {Top.id}, RestAfter(r))
    BY <1>1
  <1>3. Says(r, "DEST", body)
    BY <1>1, <1>2, ReplySays, ReplyTypes
  <1> QED
    BY <1>1, <1>3

LEMMA MetricsSays ==
    ASSUME IInv, OneControl, NEW r, Receiving(r),
           ReceptionMetricsPerDest(r, Top.id, pool[Top.id], RestAfter(r))
    PROVE  /\ pool[Top.id].type = "DEST"
           /\ \E better : \E x, y :
                 /\ Says(r, "REQ_DEST", [dests |-> better, sender |-> x, receiver |-> y])
                 /\ \A d \in better : SimBetBetter(y, x, d)
           /\ UNCHANGED <<information, dpt, buffer>>
  <1> DEFINE better == {d \in pool[Top.id].body.dests :
                           SimBetBetter(ego[r], pool[Top.id].body.metrics, d)}
  <1>1. /\ pool[Top.id].type = "DEST"
        /\ Send(<<Reply("REQ_DEST", r, pool[Top.id].prev,
                        [dests |-> better, sender |-> pool[Top.id].body.metrics,
                         receiver |-> ego[r]])>>, {Top.id}, RestAfter(r))
        /\ UNCHANGED <<buffer, statVars, halted, information, dpt>>
    BY DEF ReceptionMetricsPerDest, utilVars
  <1>2. \A d \in better : SimBetBetter(ego[r], pool[Top.id].body.metrics, d)
    OBVIOUS
  <1> HIDE DEF better
  <1>3. PICK body : body = [dests |-> better, sender |-> pool[Top.id].body.metrics,
                            receiver |-> ego[r]]
    OBVIOUS
  <1>4. Says(r, "REQ_DEST", body)
    BY <1>1, <1>3, ReplySays, ReplyTypes
  <1> QED
    BY <1>1, <1>2, <1>3, <1>4

\* Bubble Rap.
LEMMA ReqLCandFSSays ==
    ASSUME IInv, OneControl, NEW r, Receiving(r),
           ReceptionReqLCandFS(r, Top.id, pool[Top.id], RestAfter(r))
    PROVE  /\ pool[Top.id].type = "REQUEST_LC_FS" /\ \E body : Says(r, "LC_FS", body)
           /\ UNCHANGED <<information, dpt, buffer>>
  <1>1. /\ pool[Top.id].type = "REQUEST_LC_FS"
        /\ \E body : Send(<<Reply("LC_FS", r, pool[Top.id].prev, body)>>, {Top.id}, RestAfter(r))
        /\ UNCHANGED <<buffer, statVars, halted, information, dpt>>
    BY DEF ReceptionReqLCandFS
  <1>2. PICK body : Send(<<Reply("LC_FS", r, pool[Top.id].prev, body)>>, {Top.id}, RestAfter(r))
    BY <1>1
  <1>3. Says(r, "LC_FS", body)
    BY <1>1, <1>2, ReplySays, ReplyTypes
  <1> QED
    BY <1>1, <1>3

LEMMA LCandFSSays ==
    ASSUME IInv, OneControl, NEW r, Receiving(r),
           ReceptionLCandFS(r, Top.id, pool[Top.id], RestAfter(r))
    PROVE  /\ pool[Top.id].type = "LC_FS"
           /\ \E s : Says(r, "BUBBLE_SUMMARY",
                          [ids |-> NotDestinedTo(Alive(buffer[r]), pool[Top.id].prev),
                           carrier |-> s])
           /\ UNCHANGED <<information, dpt>>
           /\ buffer' = [buffer EXCEPT ![r] = Alive(buffer[r])]
  <1> DEFINE ids == NotDestinedTo(Alive(buffer[r]), pool[Top.id].prev)
  <1>1. /\ pool[Top.id].type = "LC_FS"
        /\ \E s : Send(<<Reply("BUBBLE_SUMMARY", r, pool[Top.id].prev,
                               [ids |-> ids, carrier |-> s])>>, {Top.id}, RestAfter(r))
        /\ buffer' = [buffer EXCEPT ![r] = Alive(buffer[r])]
        /\ UNCHANGED <<statVars, halted, information, dpt>>
    BY DEF ReceptionLCandFS
  <1> HIDE DEF ids
  <1>2. PICK s : Send(<<Reply("BUBBLE_SUMMARY", r, pool[Top.id].prev,
                              [ids |-> ids, carrier |-> s])>>, {Top.id}, RestAfter(r))
    BY <1>1
  <1>3. PICK body : body = [ids |-> ids, carrier |-> s]
    OBVIOUS
  <1>4. Says(r, "BUBBLE_SUMMARY", body)
    BY <1>1, <1>2, <1>3, ReplySays, ReplyTypes
  <1> QED
    BY <1>1, <1>3, <1>4 DEF ids

LEMMA BubbleSummarySays ==
    ASSUME IInv, OneControl, NEW r, Receiving(r),
           ReceptionBubbleSummary(r, Top.id, pool[Top.id], RestAfter(r))
    PROVE  /\ pool[Top.id].type = "BUBBLE_SUMMARY"
           /\ \E wanted \in SUBSET pool[Top.id].body.ids :
                 Says(r, "MARKED_REQUEST_PKTS", wanted)
           /\ UNCHANGED <<information, dpt>>
           /\ \/ buffer' = [buffer EXCEPT ![r] = buffer[r]]
              \/ buffer' = [buffer EXCEPT ![r] = Alive(buffer[r])]
  <1>1. /\ pool[Top.id].type = "BUBBLE_SUMMARY"
        /\ \E wanted \in SUBSET pool[Top.id].body.ids :
              Send(<<Reply("MARKED_REQUEST_PKTS", r, pool[Top.id].prev, wanted)>>,
                   {Top.id}, RestAfter(r))
        /\ \/ buffer' = [buffer EXCEPT ![r] = buffer[r]]
           \/ buffer' = [buffer EXCEPT ![r] = Alive(buffer[r])]
        /\ UNCHANGED <<statVars, halted, information, dpt>>
    BY DEF ReceptionBubbleSummary
  <1>2. PICK wanted \in SUBSET pool[Top.id].body.ids :
           Send(<<Reply("MARKED_REQUEST_PKTS", r, pool[Top.id].prev, wanted)>>,
                {Top.id}, RestAfter(r))
    BY <1>1
  <1>3. Says(r, "MARKED_REQUEST_PKTS", wanted)
    BY <1>1, <1>2, ReplySays, ReplyTypes
  <1> QED
    BY <1>1, <1>3


\* Those that hand packets over: the packets for which the other node is the
\* better carrier by the table that node r now has, ...
LEMMA DPTHands ==
    ASSUME IInv, OneControl, NEW r, Receiving(r),
           ReceptionDPT(r, Top.id, pool[Top.id], RestAfter(r))
    PROVE  /\ pool[Top.id].type = "DEST_PREDICT"
           /\ \E mine \in UpdateDPT(r, pool[Top.id].prev, pool[Top.id].body) :
                 LET out == For(Alive(buffer[r]), CheckDPs(mine, pool[Top.id].body))
                     useless == For(out, {d \in Destinations : mine[d] = 0})
                     notBetter ==
                        For(out, {d \in Destinations : pool[Top.id].body[d] <= mine[d]})
                 IN  /\ dpt' = [dpt EXCEPT ![r] = mine]
                     /\ IF Undecided(r, out, notBetter) THEN Stops
                        ELSE Hands(r, out, useless)
  <1>1. pool[Top.id].type = "DEST_PREDICT"
    BY DEF ReceptionDPT
  <1>2. PICK mine \in UpdateDPT(r, pool[Top.id].prev, pool[Top.id].body) :
           LET out == For(Alive(buffer[r]), CheckDPs(mine, pool[Top.id].body))
           IN  /\ dpt' = [dpt EXCEPT ![r] = mine]
               /\ Forward(r, pool[Top.id].prev, out,
                          For(out, {d \in Destinations : mine[d] = 0}),
                          For(out, {d \in Destinations : pool[Top.id].body[d] <= mine[d]}),
                          Top.id, RestAfter(r))
    BY DEF ReceptionDPT
  <1> DEFINE out == For(Alive(buffer[r]), CheckDPs(mine, pool[Top.id].body))
  <1> DEFINE useless == For(out, {d \in Destinations : mine[d] = 0})
  <1> DEFINE notBetter == For(out, {d \in Destinations : pool[Top.id].body[d] <= mine[d]})
  <1>3. out \subseteq Alive(buffer[r]) /\ useless \subseteq out
    BY DEF For
  <1>4. /\ dpt' = [dpt EXCEPT ![r] = mine]
        /\ Forward(r, pool[Top.id].prev, out, useless, notBetter, Top.id, RestAfter(r))
    BY <1>2
  <1> HIDE DEF out, useless, notBetter
  <1>5. IF Undecided(r, out, notBetter) THEN Stops ELSE Hands(r, out, useless)
    BY <1>1, <1>3, <1>4, ForwardHands
  <1> QED
    BY <1>1, <1>4, <1>5 DEF out, useless, notBetter

\* ... by the metrics of both, ...
LEMMA ReqForDestHands ==
    ASSUME IInv, OneControl, NEW r, Receiving(r),
           ReceptionReqForDest(r, Top.id, pool[Top.id], RestAfter(r))
    PROVE  /\ pool[Top.id].type = "REQ_DEST" /\ dpt' = dpt
           /\ LET out == For(Alive(buffer[r]), pool[Top.id].body.dests)
                  mine == pool[Top.id].body.sender
                  other == pool[Top.id].body.receiver
                  useless == For(out, {d \in Nodes : mine.sim[d] = 0 /\ mine.bet = 0})
                  notBetter == For(out, {d \in Nodes : ~SimBetBetter(other, mine, d)})
              IN  IF Undecided(r, out, notBetter) THEN Stops ELSE Hands(r, out, useless)
  <1> DEFINE out == For(Alive(buffer[r]), pool[Top.id].body.dests)
  <1> DEFINE mine == pool[Top.id].body.sender
  <1> DEFINE other == pool[Top.id].body.receiver
  <1> DEFINE useless == For(out, {d \in Nodes : mine.sim[d] = 0 /\ mine.bet = 0})
  <1> DEFINE notBetter == For(out, {d \in Nodes : ~SimBetBetter(other, mine, d)})
  <1>1. /\ pool[Top.id].type = "REQ_DEST" /\ dpt' = dpt
        /\ Forward(r, pool[Top.id].prev, out, useless, notBetter, Top.id, RestAfter(r))
    BY DEF ReceptionReqForDest, utilVars
  <1>2. out \subseteq Alive(buffer[r]) /\ useless \subseteq out
    BY DEF For
  <1> HIDE DEF out, useless, notBetter
  <1>3. IF Undecided(r, out, notBetter) THEN Stops ELSE Hands(r, out, useless)
    BY <1>1, <1>2, ForwardHands
  <1> QED
    BY <1>1, <1>3 DEF out, useless, notBetter

\* ... or those the other node marked.
LEMMA RequestVectorHands ==
    ASSUME IInv, OneControl, NEW r, Receiving(r),
           ReceptionRequestVector(r, Top.id, pool[Top.id], RestAfter(r))
    PROVE  /\ pool[Top.id].type = "MARKED_REQUEST_PKTS" /\ dpt' = dpt
           /\ LET out == pool[Top.id].body
              IN  IF out \subseteq Alive(buffer[r]) /\ ~Undecided(r, out, {})
                  THEN Hands(r, out, {}) ELSE Stops
  <1>1. pool[Top.id].type = "MARKED_REQUEST_PKTS" /\ dpt' = dpt
    BY DEF ReceptionRequestVector, utilVars
  <1>2. CASE pool[Top.id].body \subseteq Alive(buffer[r])
    <2>1. Forward(r, pool[Top.id].prev, pool[Top.id].body, {}, {}, Top.id, RestAfter(r))
      BY <1>2 DEF ReceptionRequestVector
    <2>2. IF Undecided(r, pool[Top.id].body, {}) THEN Stops
          ELSE Hands(r, pool[Top.id].body, {})
      BY <1>1, <1>2, <2>1, ForwardHands
    <2> QED
      BY <1>1, <1>2, <2>2
  <1>3. CASE ~(pool[Top.id].body \subseteq Alive(buffer[r]))
    <2>1. Exit /\ UNCHANGED information
      BY <1>3 DEF ReceptionRequestVector
    <2>2. Stops
      BY <2>1 DEF Exit, Stops, msgVars, statVars
    <2> QED
      BY <1>1, <1>3, <2>2
  <1> QED
    BY <1>2, <1>3

\* A data packet is read, unless it is one that the node stores already.
LEMMA DataReads ==
    ASSUME IInv, SetOK, NEW r, Receiving(r),
           ReceptionData(r, Top.id, pool[Top.id], RestAfter(r))
    PROVE  /\ UNCHANGED <<information, dpt>> /\ pool[Top.id].type = "DATA"
           /\ \/ Reads(r)
              \/ /\ Stops
                 /\ \E p \in pool[Top.id].ids : pool[Top.id].next = r /\ p \in Alive(buffer[r])
  <1>1. UNCHANGED <<information, dpt>> /\ pool[Top.id].type = "DATA"
    BY DEF ReceptionData, utilVars
  <1>2. CASE Overhear(r, Top.id, pool[Top.id], RestAfter(r))
    BY <1>1, <1>2 DEF Overhear, Reads, Overheard, statVars
  <1>3. ASSUME NEW p \in pool[Top.id].ids, Deliver(r, Top.id, pool[Top.id], RestAfter(r), p)
        PROVE  Reads(r)
    <2>1. ~(NoDuplicatesSupport /\ isDelivered(r, p))
      BY FWSettings
    <2>2. /\ pool[Top.id].next = r /\ origin[p].dst = r /\ PktRec(p)
          /\ Access(Top.id, RestAfter(r)) /\ UNCHANGED <<buffer, halted>>
      BY <1>3, <2>1 DEF Deliver
    <2>3. Delivered(r, p)
      BY <2>2 DEF Delivered, PktRec
    <2> QED
      BY <1>1, <2>2, <2>3 DEF Reads
  <1>4. ASSUME NEW p \in pool[Top.id].ids, Relay(r, Top.id, pool[Top.id], RestAfter(r), p)
        PROVE  \/ Reads(r)
               \/ Stops /\ pool[Top.id].next = r /\ p \in Alive(buffer[r])
    <2>1. CASE p \in Alive(buffer[r])
      BY <1>1, <1>4, <2>1 DEF Relay, Exit, Stops, msgVars, statVars
    <2>2. CASE p \notin Alive(buffer[r])
      <3>1. Relayed(r, p)
        BY <1>4, <2>2 DEF Relay, Relayed, statVars
      <3>2. Access(Top.id, RestAfter(r))
        BY <1>4, <2>2 DEF Relay
      <3> QED
        BY <1>1, <3>1, <3>2 DEF Reads
    <2> QED
      BY <2>1, <2>2
  <1> QED
    BY <1>1, <1>2, <1>3, <1>4 DEF ReceptionData

\* Node r has received the last message before it hands packets over.
Decides(r) ==
    Receiving(r) /\ pool[Top.id].type \in {"DEST_PREDICT", "REQ_DEST", "MARKED_REQUEST_PKTS"}

\* What a step of the protocols does with packets: they are sent to their
\* destination or handed over, read, or stay where they are.
Kind ==
    \/ Unmoved
    \/ \E p : NewPacket(p)
    \/ Frame /\ \E n, m, S, C : Sends(n, m, S, C) /\ \A p \in S : origin[p].dst = m
    \/ Frame /\ \E r, out, useless : Decides(r) /\ Hands(r, out, useless)
    \/ Frame /\ \E r : Reads(r)
    \/ Frame /\ Stops

LEMMA ReceiveKind ==
    ASSUME IInv, SetOK, Stored, Receive, UNCHANGED Set
    PROVE  Kind
  <1>1. PICK r \in Top.rcv : Receiving(r) /\ recv(r, Top.id, pool[Top.id], RestAfter(r))
    BY Received
  <1>2. Frame /\ OneControl
    BY DEF Receive, Frame, netVars, Stored
  <1> DEFINE Sent == \E n, m, S, C : Sends(n, m, S, C) /\ \A p \in S : origin[p].dst = m
  <1>3. \A type, body : Says(r, type, body) => Sent
    BY DEF Says
  <1> DEFINE Given == \E out, useless : Decides(r) /\ Hands(r, out, useless)
  <1>4. \A out, useless : Hands(r, out, useless) /\ Decides(r) => Given
    OBVIOUS
  <1> HIDE DEF Sent, Given
  <1>5. CASE ReceptionData(r, Top.id, pool[Top.id], RestAfter(r))
    BY <1>1, <1>2, <1>5, DataReads DEF Kind
  <1>6. CASE ReceptionBufferReq(r, Top.id, pool[Top.id], RestAfter(r))
    BY <1>1, <1>2, <1>3, <1>6, BufferReqSays DEF Kind, Sent
  <1>7. CASE ReceptionBufferRsp(r, Top.id, pool[Top.id], RestAfter(r))
    <2>1. /\ pool[Top.id].type # "DATA" /\ UNCHANGED <<buffer, statVars, halted>>
          /\ Send(AfterDirectTransfers(r, pool[Top.id].prev, buffer[r]), {Top.id}, RestAfter(r))
      BY <1>7 DEF ReceptionBufferRsp
    <2>2. PICK m : m = pool[Top.id].prev
      OBVIOUS
    <2>3. /\ r \in Nodes /\ m \in conn'[r] /\ m \in Nodes /\ {} \in SUBSET PktIDs
      BY <1>1, <2>1, <2>2, TopFacts, ControlFacts
    <2>4. PICK msgs : msgs = Inquiry(r, m)
      OBVIOUS
    <2>5. Sendable(msgs, r, conn') /\ Send(msgs, {Top.id}, RestAfter(r))
      <3>1. Sendable(AfterDirectTransfers(r, m, {}), r, conn')
        BY <2>3, SendableProceed
      <3> QED
        BY <2>1, <2>2, <2>4, <3>1, Openings
    <2>6. CASE msgs = <<>>
      <3>1. Send(DataFor(r, m, <<>>, 1), {Top.id}, RestAfter(r))
        BY <2>5, <2>6 DEF DataFor
      <3>2. <<>> \in Orders({})
        <4>1. Cardinality({}) = 0 /\ DOMAIN <<>> = {}
          BY FS_EmptySet
        <4> QED
          BY <4>1 DEF Orders
      <3> QED
        <4>1. UNCHANGED <<received, halted>> /\ buffer' = buffer
          BY <2>1 DEF statVars
        <4>2. Sends(r, m, {}, {})
          BY <1>1, <1>2, <2>1, <2>2, <3>1, <3>2, <4>1, DataHanded
        <4> QED
          BY <1>2, <4>2 DEF Kind
    <2>7. ASSUME NEW pkt, msgs = <<pkt>>, pkt.type # "DATA" PROVE Kind
      <3>1. Sends(r, m, {}, {pkt})
        BY <1>1, <1>2, <2>1, <2>2, <2>5, <2>7, AnswerSent DEF statVars
      <3> QED
        BY <1>2, <3>1 DEF Kind
    <2> QED
      BY <2>3, <2>4, <2>6, <2>7, OpeningFacts
  <1>8. CASE ReceptionRequestContacts(r, Top.id, pool[Top.id], RestAfter(r))
    BY <1>1, <1>2, <1>3, <1>8, RequestContactsSays DEF Kind, Sent
  <1>9. CASE ReceptionDPT(r, Top.id, pool[Top.id], RestAfter(r))
    BY <1>1, <1>2, <1>4, <1>9, DPTHands DEF Kind, Given, Decides
  <1>10. CASE ReceptionContacts(r, Top.id, pool[Top.id], RestAfter(r))
    BY <1>1, <1>2, <1>3, <1>10, ContactsSays DEF Kind, Sent
  <1>11. CASE ReceptionMetricsPerDest(r, Top.id, pool[Top.id], RestAfter(r))
    BY <1>1, <1>2, <1>3, <1>11, MetricsSays DEF Kind, Sent
  <1>12. CASE ReceptionReqForDest(r, Top.id, pool[Top.id], RestAfter(r))
    BY <1>1, <1>2, <1>4, <1>12, ReqForDestHands DEF Kind, Given, Decides
  <1>13. CASE ReceptionReqLCandFS(r, Top.id, pool[Top.id], RestAfter(r))
    BY <1>1, <1>2, <1>3, <1>13, ReqLCandFSSays DEF Kind, Sent
  <1>14. CASE ReceptionLCandFS(r, Top.id, pool[Top.id], RestAfter(r))
    BY <1>1, <1>2, <1>3, <1>14, LCandFSSays DEF Kind, Sent
  <1>15. CASE ReceptionBubbleSummary(r, Top.id, pool[Top.id], RestAfter(r))
    BY <1>1, <1>2, <1>3, <1>15, BubbleSummarySays DEF Kind, Sent
  <1>16. CASE ReceptionRequestVector(r, Top.id, pool[Top.id], RestAfter(r))
    BY <1>1, <1>2, <1>4, <1>16, RequestVectorHands DEF Kind, Given, Decides
  <1> QED
    BY <1>1, <1>5, <1>6, <1>7, <1>8, <1>9, <1>10, <1>11, <1>12, <1>13, <1>14, <1>15, <1>16
       DEF recv


\* All that is sent.
LEMMA KindSends ==
    ASSUME Kind
    PROVE  \/ Unmoved
           \/ \E p : NewPacket(p)
           \/ Frame /\ \E n, m, S, C : Sends(n, m, S, C)
           \/ Frame /\ \E r : Reads(r)
           \/ Frame /\ Stops
  <1>1. ASSUME NEW r, NEW out, NEW useless, Hands(r, out, useless)
        PROVE  \E n, m, S, C : Sends(n, m, S, C)
    BY <1>1 DEF Hands
  <1> QED
    BY <1>1 DEF Kind

LEMMA NextKind ==
    ASSUME IInv, SetOK, Stored, FWNext
    PROVE  Kind
  <1>1. UNCHANGED Set
    BY DEF FWNext
  <1>2. CASE FWEnvironment
    BY <1>1, <1>2, EnvironmentUnmoved DEF Kind
  <1>3. CASE FWContactUp
    <2>1. Frame
      BY <1>1, <1>3 DEF FWContactUp, Frame
    <2>2. \E C : Sends(Top.a, Top.b, DestinedTo(buffer[Top.a], Top.b), C)
      BY <1>3, DirectSent
    <2>3. \A p \in DestinedTo(buffer[Top.a], Top.b) : origin[p].dst = Top.b
      BY DEF DestinedTo
    <2> QED
      BY <2>1, <2>2, <2>3 DEF Kind
  <1>4. CASE ContactDown
    BY <1>1, <1>4, ContactDownUnmoved DEF Kind
  <1>5. CASE RecvFromApp
    BY <1>1, <1>5, RecvFromAppNew DEF Kind
  <1>6. CASE Receive
    BY <1>1, <1>6, ReceiveKind
  <1> QED
    BY <1>2, <1>3, <1>4, <1>5, <1>6 DEF FWNext

\* When the program ends everything stays where it is.
LEMMA StopsStored ==
    ASSUME Stored, Frame, Stops
    PROVE  Stored' /\ \A x, p : Coming(x, p)' <=> Coming(x, p)
  BY FWFrame DEF Stops, Stored, OneControl, DataIDs, IsData, Awaiting, Coming

LEMMA StoredNext == IInv /\ SetOK /\ Stored /\ [FWNext]_fwVars => Stored'
  <1> SUFFICES ASSUME IInv, SetOK, Stored, [FWNext]_fwVars PROVE Stored'
    OBVIOUS
  <1>1. IInv'
    BY InvNext
  <1>2. CASE FWNext
    BY <1>1, <1>2, NextKind, UnmovedStored, NewPacketStored, SendsStored, ReadsStored,
       StopsStored, KindSends
  <1>3. CASE UNCHANGED fwVars
    BY <1>3 DEF fwVars, ccVars, vars, netVars, msgVars, Stored, OneControl, DataIDs, IsData,
       Awaiting, Known, BufferSize
  <1> QED
    BY <1>2, <1>3

LEMMA StoredInit == FWInit => Stored
  <1> SUFFICES ASSUME FWInit PROVE Stored
    OBVIOUS
  <1>1. /\ DOMAIN pool = {} /\ evlist = <<>> /\ \A n \in Nodes : buffer[n] = {}
        /\ Set \in Configurations
    BY DEF FWInit, CCInit, Init
  <1>2. OneControl
    <2>1. Len(evlist) = 0 /\ 2..0 = {}
      BY <1>1
    <2> QED
      BY <2>1 DEF OneControl
  <1>3. DataIDs = {}
    BY <1>1 DEF DataIDs
  <1>4. BufferSize # 0 => \A n \in Nodes : Cardinality(buffer[n]) <= BufferSize
    <2>1. SetOK
      BY <1>1 DEF SetOK
    <2>2. BufferSize \in Nat /\ Cardinality({}) = 0
      BY <2>1, FWSettings, FS_EmptySet
    <2>3. ASSUME NEW n \in Nodes PROVE Cardinality(buffer[n]) <= BufferSize
      <3>1. buffer[n] = {}
        BY <1>1
      <3>2. Cardinality(buffer[n]) = 0
        BY <2>2, <3>1
      <3> QED
        BY <2>2, <3>2
    <2> QED
      BY <2>3
  <1>5. \A n \in Nodes : \A p : p \notin buffer[n]
    BY <1>1
  <1>6. ~(DataIDs # DOMAIN pool)
    BY <1>1, <1>3
  <1> QED
    BY <1>2, <1>3, <1>4, <1>5, <1>6 DEF Stored

\* Each packet is in one place.
THEOREM OnePlace == FWSpec => []Stored
  <1>1. FWInit => Stored
    BY StoredInit
  <1>2. IInv /\ SetOK /\ Stored /\ [FWNext]_fwVars => Stored'
    BY StoredNext
  <1> QED
    BY <1>1, <1>2, Invariance, SettingsKept, PTL DEF FWSpec

-----------------------------------------------------------------------------
(* Custody.                                                                *)

\* What the properties call having a packet.
LEMMA HasFacts == IInv => \A n \in Nodes : \A q : Has(n, q) <=> Holds(n, q)
  <1> SUFFICES ASSUME IInv, NEW n \in Nodes, NEW p PROVE Has(n, p) <=> Holds(n, p)
    OBVIOUS
  <1>1. evlist \in Seq(Event) /\ DOMAIN evlist = 1..Len(evlist)
    BY DEF IInv, StackOK
  <1>2. ASSUME NEW i \in DOMAIN evlist, IsTX(i), n \in evlist[i].rcv,
               pool[evlist[i].id].type = "DATA", pool[evlist[i].id].next = n,
               p \in pool[evlist[i].id].ids
        PROVE  Coming(n, p)
    <2>1. evlist[i].id \in DOMAIN pool
      BY <1>1, <1>2 DEF IInv, StackOK, InTransit, IsTX
    <2>2. evlist[i].id \in DataIDs
      BY <1>2, <2>1 DEF DataIDs, IsData
    <2>3. Awaiting(evlist, evlist[i].id, n)
      BY <1>1, <1>2 DEF Awaiting, IsTX
    <2> QED
      BY <1>2, <2>2, <2>3 DEF Coming
  <1>3. ASSUME Coming(n, p) PROVE Has(n, p)
    <2>1. PICK id \in DataIDs :
             pool[id].next = n /\ p \in pool[id].ids /\ Awaiting(evlist, id, n)
      BY <1>3 DEF Coming
    <2>2. PICK i \in DOMAIN evlist :
             evlist[i].ev = "TX" /\ evlist[i].id = id /\ n \in evlist[i].rcv
      BY <1>1, <2>1 DEF Awaiting
    <2>3. pool[id].type = "DATA"
      BY <2>1 DEF DataIDs, IsData
    <2> QED
      BY <2>1, <2>2, <2>3 DEF Has, IsTX
  <1>4. CASE p \in buffer[n]
    BY <1>4 DEF Has, Holds
  <1>5. CASE p \notin buffer[n]
    BY <1>2, <1>3, <1>5 DEF Has, Holds
  <1> QED
    BY <1>4, <1>5

\* A packet in a buffer, or on its way, is nowhere else.
LEMMA Alone ==
    ASSUME Stored, NEW n \in Nodes, NEW p, Holds(n, p)
    PROVE  /\ \A x \in Nodes : Holds(x, p) => x = n
           /\ p \in buffer[n] => \A x \in Nodes : ~Coming(x, p)
  <1>1. ASSUME NEW x \in Nodes, Coming(x, p) PROVE \A y \in Nodes : p \notin buffer[y]
    <2>1. PICK id \in DataIDs :
             pool[id].next = x /\ p \in pool[id].ids /\ Awaiting(evlist, id, x)
      BY <1>1 DEF Coming
    <2> QED
      BY <2>1 DEF Stored
  <1>2. ASSUME NEW x \in Nodes, NEW y \in Nodes, Coming(x, p), Coming(y, p) PROVE x = y
    <2>1. PICK i \in DataIDs : pool[i].next = x /\ p \in pool[i].ids
      BY <1>2 DEF Coming
    <2>2. PICK j \in DataIDs : pool[j].next = y /\ p \in pool[j].ids
      BY <1>2 DEF Coming
    <2>3. i = j
      BY <2>1, <2>2 DEF Stored
    <2> QED
      BY <2>1, <2>2, <2>3
  <1>3. \A x \in Nodes : p \in buffer[x] /\ p \in buffer[n] => x = n
    BY DEF Stored
  <1> QED
    BY <1>1, <1>2, <1>3 DEF Holds

\* Custody of a packet is kept, it ends, or passes to another node.
Moved(p) ==
    \/ \A x \in Nodes : Holds(x, p)' <=> Holds(x, p)
    \/ \A x \in Nodes : ~Holds(x, p)'
    \/ \E n, m \in Nodes : Holds(n, p) /\ \A x \in Nodes : Holds(x, p)' <=> x = m

LEMMA SendsMoved ==
    ASSUME Stored, NEW n, NEW m, NEW S, NEW C, Sends(n, m, S, C), NEW p
    PROVE  Moved(p)
  <1>1. /\ n \in Nodes /\ m \in Nodes /\ S \subseteq buffer[n]
        /\ \A x \in Nodes : x # n => buffer'[x] = buffer[x]
        /\ buffer'[n] \subseteq buffer[n] \ S
    BY DEF Sends
  <1>2. \A x : Coming(x, p)' <=> Coming(x, p) \/ (x = m /\ p \in S)
    BY SentComing
  <1>3. CASE p \in buffer[n]
    <2>1. /\ Holds(n, p) /\ \A x \in Nodes : ~Coming(x, p)
          /\ \A x \in Nodes : p \in buffer[x] => x = n
      BY <1>1, <1>3, Alone DEF Holds
    <2>2. CASE p \in S
      <3>1. \A x \in Nodes : p \notin buffer'[x]
        <4>1. p \notin buffer'[n]
          BY <1>1, <2>2
        <4>2. \A x \in Nodes : x # n => p \notin buffer'[x]
          BY <1>1, <2>1
        <4> QED
          BY <4>1, <4>2
      <3>2. \A x \in Nodes : Holds(x, p)' <=> x = m
        BY <1>2, <2>1, <2>2, <3>1 DEF Holds
      <3> QED
        BY <1>1, <2>1, <3>2 DEF Moved
    <2>3. CASE p \notin S /\ p \in buffer'[n]
      <3>1. \A x \in Nodes : p \in buffer'[x] <=> p \in buffer[x]
        BY <1>1, <1>3, <2>3
      <3> QED
        BY <1>2, <2>3, <3>1 DEF Moved, Holds
    <2>4. CASE p \notin S /\ p \notin buffer'[n]
      <3>1. \A x \in Nodes : p \notin buffer'[x]
        BY <1>1, <2>1, <2>4
      <3> QED
        BY <1>2, <2>1, <2>4, <3>1 DEF Moved, Holds
    <2> QED
      BY <2>2, <2>3, <2>4
  <1>4. CASE p \notin buffer[n]
    <2>1. p \notin S /\ \A x \in Nodes : p \in buffer'[x] <=> p \in buffer[x]
      <3>1. p \notin S /\ p \notin buffer'[n]
        BY <1>1, <1>4
      <3>2. \A x \in Nodes : x # n => (p \in buffer'[x] <=> p \in buffer[x])
        BY <1>1
      <3> QED
        BY <1>4, <3>1, <3>2
    <2> QED
      BY <1>2, <2>1 DEF Moved, Holds
  <1> QED
    BY <1>3, <1>4

LEMMA ReadsMoved ==
    ASSUME IInv, SetOK, Stored, NEW r, Reads(r), NEW p
    PROVE  Moved(p)
  <1> DEFINE next == pool[Top.id].next
  <1> DEFINE ids == pool[Top.id].ids
  <1>1. /\ r \in Nodes /\ buffer \in [Nodes -> SUBSET PktIDs]
        /\ Receiving(r) /\ pool[Top.id].type = "DATA" /\ Access(Top.id, RestAfter(r))
    BY TopFacts DEF Reads, IInv, DataOK
  <1>2. /\ Top.id \in DataIDs /\ Awaiting(evlist, Top.id, r)
        /\ \A x : Coming(x, p)' <=> Coming(x, p) /\ ~(x = r /\ next = r /\ p \in ids)
    BY <1>1, ReadView
  <1>3. next = r /\ p \in ids => Coming(r, p)
    BY <1>2 DEF Coming
  <1>4. next = r /\ p \in ids => \A x \in Nodes : p \notin buffer[x] /\ (Coming(x, p) => x = r)
    BY <1>1, <1>2, <1>3, Alone DEF Holds, Stored
  <1>5. CASE buffer' = buffer
    <2>1. CASE next = r /\ p \in ids
      BY <1>2, <1>4, <1>5, <2>1 DEF Moved, Holds
    <2>2. CASE ~(next = r /\ p \in ids)
      BY <1>2, <1>5, <2>2 DEF Moved, Holds
    <2> QED
      BY <2>1, <2>2
  <1>6. ASSUME NEW q \in ids, Relayed(r, q) PROVE Moved(p)
    <2>1. next = r /\ \E b \in Added(buffer[r], q) : buffer' = [buffer EXCEPT ![r] = b]
      BY <1>6 DEF Relayed
    <2>2. PICK b \in Added(buffer[r], q) : buffer' = [buffer EXCEPT ![r] = b]
      BY <2>1
    <2>3. b \subseteq buffer[r] \cup {q} /\ q \in b
      BY <2>2 DEF Added, Alive
    <2>4. \A x \in Nodes : buffer'[x] = IF x = r THEN b ELSE buffer[x]
      BY <1>1, <2>2
    <2>5. CASE p = q
      <3>1. \A x \in Nodes : Holds(x, p)' <=> x = r
        BY <1>2, <1>4, <2>1, <2>3, <2>4, <2>5 DEF Holds
      <3>2. Holds(r, p)
        BY <1>3, <1>6, <2>1, <2>5 DEF Holds
      <3> QED
        BY <1>1, <3>1, <3>2 DEF Moved
    <2>6. CASE p # q
      <3>1. p \notin ids
        BY <1>2, <1>6, <2>6 DEF Stored
      <3>2. \A x : Coming(x, p)' <=> Coming(x, p)
        BY <1>2, <3>1
      <3>3. CASE p \in buffer[r] /\ p \notin b
        <4>1. \A x \in Nodes : ~Coming(x, p) /\ (p \in buffer[x] => x = r)
          BY <1>1, <3>3, Alone DEF Holds
        <4> QED
          BY <2>4, <3>2, <3>3, <4>1 DEF Moved, Holds
      <3>4. CASE ~(p \in buffer[r] /\ p \notin b)
        <4>1. \A x \in Nodes : p \in buffer'[x] <=> p \in buffer[x]
          BY <2>3, <2>4, <2>6, <3>4
        <4> QED
          BY <3>2, <4>1 DEF Moved, Holds
      <3> QED
        BY <3>3, <3>4
    <2> QED
      BY <2>5, <2>6
  <1> QED
    BY <1>5, <1>6 DEF Reads, Overheard, Delivered


\* A packet on its way or in a buffer is known.
LEMMA HoldsKnown ==
    ASSUME Stored, NEW n \in Nodes, NEW p, Holds(n, p)
    PROVE  p \in Known
  <1>1. CASE p \in buffer[n]
    BY <1>1 DEF Stored
  <1>2. CASE Coming(n, p)
    <2>1. PICK id \in DataIDs : p \in pool[id].ids
      BY <1>2 DEF Coming
    <2> QED
      BY <2>1 DEF Stored
  <1> QED
    BY <1>1, <1>2 DEF Holds

\* Nothing happens to the custody of a packet when nothing is in transmission.
LEMMA NewPacketMoved ==
    ASSUME IInv, IInv', SetOK, Stored, NEW p, NewPacket(p)
    PROVE  /\ \E n \in Nodes : \A x \in Nodes : Holds(x, p)' <=> x = n
           /\ \A q : q # p => \/ \A x \in Nodes : Holds(x, q)' <=> Holds(x, q)
                              \/ \A x \in Nodes : ~Holds(x, q)'
  <1>1. PICK n \in Nodes :
           \E b \in Added(buffer[n], p) : buffer' = [buffer EXCEPT ![n] = b]
    BY DEF NewPacket
  <1>2. PICK b \in Added(buffer[n], p) : buffer' = [buffer EXCEPT ![n] = b]
    BY <1>1
  <1>3. buffer \in [Nodes -> SUBSET PktIDs]
    BY DEF IInv, DataOK
  <1>4. \A x \in Nodes : buffer'[x] = IF x = n THEN b ELSE buffer[x]
    BY <1>2, <1>3
  <1>5. p \in b /\ b \subseteq buffer[n] \cup {p}
    BY <1>2 DEF Added, Alive
  <1>6. \A x \in Nodes : p \notin buffer[x]
    BY DEF NewPacket, Stored
  <1>7. \A x, q : ~Coming(x, q) /\ ~Coming(x, q)'
    BY NewPacketStored
  <1>8. \A x \in Nodes : Holds(x, p)' <=> x = n
    BY <1>4, <1>5, <1>6, <1>7 DEF Holds
  <1>9. ASSUME NEW q, q # p
        PROVE  \/ \A x \in Nodes : Holds(x, q)' <=> Holds(x, q)
               \/ \A x \in Nodes : ~Holds(x, q)'
    <2>1. CASE q \in buffer[n] /\ q \notin b
      <3>1. \A x \in Nodes : q \in buffer[x] => x = n
        BY <1>1, <2>1 DEF Stored
      <3>2. \A x \in Nodes : q \notin buffer'[x]
        BY <1>4, <2>1, <3>1
      <3> QED
        BY <1>7, <3>2 DEF Holds
    <2>2. CASE ~(q \in buffer[n] /\ q \notin b)
      <3>1. \A x \in Nodes : q \in buffer'[x] <=> q \in buffer[x]
        BY <1>4, <1>5, <1>9, <2>2
      <3> QED
        BY <1>7, <3>1 DEF Holds
    <2> QED
      BY <2>1, <2>2
  <1> QED
    BY <1>1, <1>8, <1>9

\* A step that is not the arrival of a new packet.
LEMMA NextMoved ==
    ASSUME IInv, IInv', SetOK, Stored, Kind, ~\E p : NewPacket(p), NEW p
    PROVE  Moved(p) /\ origin' = origin
  <1>1. CASE Unmoved
    <2>1. \A n, q : ~Coming(n, q) /\ ~Coming(n, q)'
      BY <1>1, UnmovedStored
    <2> QED
      BY <1>1, <2>1 DEF Unmoved, Moved, Holds
  <1>2. ASSUME Frame, NEW n, NEW m, NEW S, NEW C, Sends(n, m, S, C)
        PROVE  Moved(p) /\ origin' = origin
    BY <1>2, SendsMoved, FWFrame
  <1>3. ASSUME Frame, NEW r, Reads(r)
        PROVE  Moved(p) /\ origin' = origin
    BY <1>3, ReadsMoved, FWFrame
  <1>4. CASE Frame /\ Stops
    BY <1>4, StopsStored, FWFrame DEF Stops, Moved, Holds
  <1> QED
    BY <1>1, <1>2, <1>3, <1>4, KindSends

\* The custodians of a packet.
Custodians(p) == {n \in Nodes : Has(n, p)}

LEMMA CustodyInit == FWInit => Single!Init
  <1> SUFFICES ASSUME FWInit PROVE Single!Init
    OBVIOUS
  <1>1. /\ evlist = <<>> /\ origin = <<>> /\ \A n \in Nodes : buffer[n] = {}
    BY DEF FWInit, CCInit, Init
  <1>2. DOMAIN evlist = {} /\ DOMAIN origin = {}
    BY <1>1
  <1>3. \A n \in Nodes : \A p : ~Has(n, p)
    BY <1>1, <1>2 DEF Has
  <1>4. \A p : {n \in Nodes : Has(n, p)} = {}
    BY <1>3
  <1>5. [p \in PktIDs |-> {n \in Nodes : Has(n, p)}] = [p \in PktIDs |-> {}]
    BY <1>4
  <1> QED
    BY <1>2, <1>5 DEF Single!Init

\* What a step does to the sets of custodians.
LEMMA MovedCustody ==
    ASSUME IInv, (\A n \in Nodes : \A q : Has(n, q) <=> Holds(n, q))', NEW p, Moved(p)
    PROVE  \/ Custodians(p)' = Custodians(p)
           \/ Custodians(p) # {} /\ \E n \in Nodes : Custodians(p)' = {n}
           \/ Custodians(p)' = {}
  <1>1. \A n \in Nodes : n \in Custodians(p) <=> Holds(n, p)
    BY HasFacts DEF Custodians
  <1>2. \A n \in Nodes : n \in Custodians(p)' <=> Holds(n, p)'
    <2>1. \A n \in Nodes : Has(n, p)' <=> Holds(n, p)'
      OBVIOUS
    <2> QED
      BY <2>1 DEF Custodians
  <1>3. Custodians(p) \subseteq Nodes /\ Custodians(p)' \subseteq Nodes
    BY DEF Custodians
  <1> HIDE DEF Custodians
  <1> QED
    BY <1>1, <1>2, <1>3 DEF Moved

LEMMA CustodyNext ==
    ASSUME IInv, SetOK, Stored, [FWNext]_fwVars
    PROVE  [Single!Next]_(Single!vars)
  <1> DEFINE cust == [p \in PktIDs |-> {n \in Nodes : Has(n, p)}]
  <1>1. IInv' /\ Stored'
    BY InvNext, StoredNext
  <1>2. /\ \A p \in PktIDs : cust[p] = Custodians(p)
        /\ \A p \in PktIDs : cust'[p] = Custodians(p)'
    BY DEF Custodians
  <1>3. \A n \in Nodes : \A p : Has(n, p) <=> Holds(n, p)
    BY HasFacts
  <1>4. (\A n \in Nodes : \A q : Has(n, q) <=> Holds(n, q))'
    BY <1>1, HasFacts, PTL
  <1>5. CASE FWNext
    <2>1. Kind
      BY <1>5, NextKind
    <2>2. ASSUME NEW p, NewPacket(p) PROVE Single!Next
      <3>1. /\ DOMAIN origin = Known /\ (DOMAIN origin)' = Known'
            /\ Known' = Known \cup {p} /\ p \notin Known /\ Known' \subseteq PktIDs
        BY <1>1, <2>2, RoutingAssumption DEF NewPacket, Known, IInv, NetOK, PktIDs
      <3>2. /\ \E n \in Nodes : \A x \in Nodes : Holds(x, p)' <=> x = n
            /\ \A q : q # p => \/ \A x \in Nodes : Holds(x, q)' <=> Holds(x, q)
                               \/ \A x \in Nodes : ~Holds(x, q)'
        BY <1>1, <2>2, NewPacketMoved
      <3>3. p \in PktIDs
        BY <3>1
      <3>4. PICK n \in Nodes : \A x \in Nodes : Holds(x, p)' <=> x = n
        BY <3>2
      <3>5. Custodians(p)' = {n}
        BY <1>4, <3>4 DEF Custodians
      <3>6. ASSUME NEW q \in PktIDs \ {p}
            PROVE  Custodians(q)' = Custodians(q) \/ Custodians(q)' = {}
        BY <1>3, <1>4, <3>2 DEF Custodians
      <3> HIDE DEF cust
      <3>7. /\ \E src \in Nodes : cust'[p] = {src}
            /\ \A q \in PktIDs \ {p} : cust'[q] = cust[q] \/ cust'[q] = {}
        BY <1>2, <3>3, <3>5, <3>6
      <3>8. /\ p \notin DOMAIN origin /\ (DOMAIN origin)' = (DOMAIN origin) \cup {p}
        BY <3>1
      <3>9. Single!Create(p)
        BY <3>7, <3>8 DEF Single!Create, Single!Kept, Single!Ended, cust
      <3> QED
        BY <3>3, <3>9 DEF Single!Next
    <2>3. CASE ~\E p : NewPacket(p)
      <3>1. origin' = origin /\ \A p : Moved(p)
        BY <1>1, <2>1, <2>3, NextMoved
      <3>2. (DOMAIN origin)' = DOMAIN origin
        BY <3>1
      <3>3. \A p :
               \/ Custodians(p)' = Custodians(p)
               \/ Custodians(p) # {} /\ \E n \in Nodes : Custodians(p)' = {n}
               \/ Custodians(p)' = {}
        <4> SUFFICES ASSUME NEW p
                     PROVE  \/ Custodians(p)' = Custodians(p)
                            \/ Custodians(p) # {} /\ \E n \in Nodes : Custodians(p)' = {n}
                            \/ Custodians(p)' = {}
          OBVIOUS
        <4>1. Moved(p)
          BY <3>1
        <4> QED
          BY <1>4, <4>1, MovedCustody
      <3> HIDE DEF cust
      <3>4. \A p \in PktIDs :
               \/ cust'[p] = cust[p]
               \/ cust[p] # {} /\ \E n \in Nodes : cust'[p] = {n}
               \/ cust'[p] = {}
        BY <1>2, <3>3
      <3>5. Single!Hand
        BY <3>2, <3>4 DEF Single!Hand, Single!Kept, Single!Passed, Single!Ended, cust
      <3> QED
        BY <3>5 DEF Single!Next
    <2> QED
      BY <2>2, <2>3
  <1>6. CASE UNCHANGED fwVars
    <2>1. UNCHANGED <<buffer, evlist, pool, origin>>
      BY <1>6 DEF fwVars, ccVars, vars, netVars, msgVars
    <2>2. \A n \in Nodes : \A p : Has(n, p)' <=> Has(n, p)
      BY <2>1 DEF Has, IsTX
    <2>3. cust' = cust
      BY <2>2
    <2> QED
      BY <2>1, <2>3 DEF Single!vars
  <1> QED
    BY <1>5, <1>6

\* There is one copy of a packet, in a buffer or on its way, until custody of
\* it ends for good: whatever the utilities of the nodes are.
THEOREM SingleCopy == FWSpec => ImplementsCustody
  <1>1. FWInit => Single!Init
    BY CustodyInit
  <1>2. IInv /\ SetOK /\ Stored /\ [FWNext]_fwVars => [Single!Next]_(Single!vars)
    BY CustodyNext
  <1> QED
    BY <1>1, <1>2, Invariance, SettingsKept, OnePlace, PTL
       DEF FWSpec, ImplementsCustody, Single!Spec

-----------------------------------------------------------------------------
(* No packet is lost.                                                      *)

\* Whether a packet is received or held by some node.
Saved(p) == p \in received \/ \E n \in Nodes : Holds(n, p)

AllSaved == BufferSize = 0 /\ TTL = 0 => \A p \in Known : Saved(p)

\* Without limit and time to live, buffers lose only what is sent.
LEMMA SendsSaved ==
    ASSUME Stored, NEW n, NEW m, NEW S, NEW C, Sends(n, m, S, C), TTL = 0, NEW p, Saved(p)
    PROVE  Saved(p)'
  <1>1. \A x : Coming(x, p)' <=> Coming(x, p) \/ (x = m /\ p \in S)
    BY SentComing
  <1>2. /\ n \in Nodes /\ m \in Nodes /\ received' = received
        /\ \A x \in Nodes : x # n => buffer'[x] = buffer[x]
        /\ buffer[n] \subseteq buffer'[n] \cup S
    BY DEF Sends, Alive, IsAlive
  <1>3. CASE p \in received
    BY <1>2, <1>3 DEF Saved
  <1>4. ASSUME NEW x \in Nodes, Holds(x, p) PROVE \E y \in Nodes : Holds(y, p)'
    <2>1. CASE Coming(x, p)
      BY <1>1, <2>1 DEF Holds
    <2>2. CASE p \in buffer[x]
      <3>1. p \in buffer'[x] \/ p \in S
        BY <1>2, <2>2
      <3> QED
        BY <1>1, <1>2, <3>1 DEF Holds
    <2> QED
      BY <1>4, <2>1, <2>2 DEF Holds
  <1> QED
    BY <1>3, <1>4 DEF Saved

LEMMA ReadsSaved ==
    ASSUME IInv, SetOK, Stored, NEW r, Reads(r), BufferSize = 0, TTL = 0,
           NEW p, Saved(p)
    PROVE  Saved(p)'
  <1>1. /\ r \in Nodes /\ buffer \in [Nodes -> SUBSET PktIDs] /\ Known \subseteq PktIDs
        /\ BufferSize \in Nat
        /\ Receiving(r) /\ pool[Top.id].type = "DATA" /\ Access(Top.id, RestAfter(r))
    BY TopFacts, FWSettings, RoutingAssumption
       DEF Reads, IInv, DataOK, NetOK, Known, PktIDs
  <1>2. /\ Top.id \in DataIDs
        /\ \A x : Coming(x, p)' <=>
              /\ Coming(x, p)
              /\ ~(x = r /\ pool[Top.id].next = r /\ p \in pool[Top.id].ids)
    BY <1>1, ReadView
  <1>3. \E q \in Known : pool[Top.id].ids = {q}
    BY <1>2 DEF Stored
  <1>4. CASE Overheard(r)
    BY <1>2, <1>4 DEF Overheard, Saved, Holds
  <1>5. ASSUME NEW q \in pool[Top.id].ids, Delivered(r, q) PROVE Saved(p)'
    <2>1. /\ received' = received \cup {q} /\ buffer' = buffer
          /\ \A z \in pool[Top.id].ids : z = q
      BY <1>3, <1>5 DEF Delivered
    <2> QED
      BY <1>2, <2>1 DEF Saved, Holds
  <1>6. ASSUME NEW q \in pool[Top.id].ids, Relayed(r, q) PROVE Saved(p)'
    <2>1. /\ received' = received /\ \A z \in pool[Top.id].ids : z = q
      BY <1>3, <1>6 DEF Relayed
    <2>2. PICK b \in Added(buffer[r], q) : buffer' = [buffer EXCEPT ![r] = b]
      BY <1>6 DEF Relayed
    <2>3. q \in PktIDs /\ buffer[r] \in SUBSET PktIDs
      BY <1>1, <1>3
    <2>4. q \in b /\ buffer[r] \subseteq b
      BY <1>1, <2>2, <2>3, AddedFacts
    <2>5. \A x \in Nodes : buffer'[x] = IF x = r THEN b ELSE buffer[x]
      BY <1>1, <2>2
    <2>6. CASE p = q
      BY <1>1, <2>4, <2>5, <2>6 DEF Saved, Holds
    <2>7. CASE p # q
      <3>1. \A x \in Nodes : Holds(x, p) => Holds(x, p)'
        BY <1>2, <2>1, <2>4, <2>5, <2>7 DEF Holds
      <3> QED
        BY <2>1, <3>1 DEF Saved
    <2> QED
      BY <2>6, <2>7
  <1> QED
    BY <1>4, <1>5, <1>6 DEF Reads

LEMMA NewPacketSaved ==
    ASSUME IInv, IInv', SetOK, Stored, NEW p, NewPacket(p), BufferSize = 0, TTL = 0,
           \A q \in Known : Saved(q)
    PROVE  \A q \in Known' : Saved(q)'
  <1>1. PICK n \in Nodes :
           \E b \in Added(buffer[n], p) : buffer' = [buffer EXCEPT ![n] = b]
    BY DEF NewPacket
  <1>2. PICK b \in Added(buffer[n], p) : buffer' = [buffer EXCEPT ![n] = b]
    BY <1>1
  <1>3. /\ buffer \in [Nodes -> SUBSET PktIDs] /\ Known' = Known \cup {p}
        /\ received' = received /\ BufferSize \in Nat /\ p \in PktIDs
    BY FWSettings, RoutingAssumption DEF IInv, DataOK, NewPacket, NetOK, Known, PktIDs
  <1>4. buffer[n] \in SUBSET PktIDs
    BY <1>3
  <1>5. p \in b /\ buffer[n] \subseteq b
    BY <1>2, <1>3, <1>4, AddedFacts
  <1>6. \A x \in Nodes : buffer'[x] = IF x = n THEN b ELSE buffer[x]
    BY <1>2, <1>3
  <1>7. \A x, q : ~Coming(x, q) /\ ~Coming(x, q)'
    BY NewPacketStored
  <1>8. Saved(p)'
    BY <1>1, <1>5, <1>6 DEF Saved, Holds
  <1>9. ASSUME NEW q \in Known PROVE Saved(q)'
    <2>1. q \in received \/ \E x \in Nodes : q \in buffer[x]
      BY <1>7 DEF Saved, Holds
    <2> QED
      BY <1>3, <1>5, <1>6, <2>1 DEF Saved, Holds
  <1> QED
    BY <1>3, <1>8, <1>9

LEMMA SavedNext == IInv /\ SetOK /\ Stored /\ AllSaved /\ [FWNext]_fwVars => AllSaved'
  <1> SUFFICES ASSUME IInv, SetOK, Stored, AllSaved, [FWNext]_fwVars,
                      (BufferSize = 0 /\ TTL = 0)'
               PROVE  \A p \in Known' : Saved(p)'
    BY DEF AllSaved
  <1>1. IInv' /\ UNCHANGED Set
    BY InvNext DEF FWNext, fwVars, ccVars, vars
  <1>2. BufferSize = 0 /\ TTL = 0 /\ \A p \in Known : Saved(p)
    BY <1>1 DEF BufferSize, TTL, AllSaved
  <1>3. CASE UNCHANGED fwVars
    BY <1>2, <1>3 DEF fwVars, ccVars, vars, netVars, msgVars, statVars, Known, Saved, Holds,
       Coming, DataIDs, IsData, Awaiting
  <1>4. CASE Unmoved
    <2>1. /\ \A n, q : ~Coming(n, q) /\ ~Coming(n, q)'
          /\ UNCHANGED <<buffer, received>> /\ Known' = Known
      BY <1>1, <1>4, UnmovedStored DEF Unmoved, Known
    <2> QED
      BY <1>2, <2>1 DEF Saved, Holds
  <1>5. ASSUME NEW p, NewPacket(p) PROVE \A q \in Known' : Saved(q)'
    BY <1>1, <1>2, <1>5, NewPacketSaved
  <1>6. ASSUME Frame, NEW n, NEW m, NEW S, NEW C, Sends(n, m, S, C)
        PROVE  \A q \in Known' : Saved(q)'
    BY <1>2, <1>6, SendsSaved, FWFrame
  <1>7. ASSUME Frame, NEW r, Reads(r) PROVE \A q \in Known' : Saved(q)'
    BY <1>2, <1>7, ReadsSaved, FWFrame
  <1>8. CASE Frame /\ Stops
    BY <1>2, <1>8, StopsStored, FWFrame DEF Stops, Saved, Holds
  <1>9. CASE FWNext
    BY <1>4, <1>5, <1>6, <1>7, <1>8, <1>9, NextKind, KindSends
  <1> QED
    BY <1>3, <1>9

\* Where buffers are without limit and packets live on, none is lost.
THEOREM NothingLost == FWSpec => []NoneLost
  <1>1. FWInit => AllSaved
    BY DEF FWInit, CCInit, Init, AllSaved, Known
  <1>2. IInv /\ SetOK /\ Stored /\ AllSaved /\ [FWNext]_fwVars => AllSaved'
    BY SavedNext
  <1>3. IInv /\ AllSaved => NoneLost
    <2> SUFFICES ASSUME IInv, AllSaved, BufferSize = 0, TTL = 0, NEW p \in DOMAIN origin
                 PROVE  p \in received \/ \E n \in Nodes : Has(n, p)
      BY DEF NoneLost
    <2>1. p \in Known
      BY DEF IInv, NetOK, Known
    <2> QED
      BY <2>1, HasFacts DEF AllSaved, Saved
  <1> QED
    BY <1>1, <1>2, <1>3, Invariance, SettingsKept, OnePlace, PTL DEF FWSpec

-----------------------------------------------------------------------------
(* What the nodes tell each other.                                         *)

Info == [recID : Nodes, size : 0..BufferSize, length : 0..BufferSize]

NoInfo == \A x \in Nodes : information[x] = {}

\* Node n, and no other, knows of the buffer of m, if congestion control has
\* it asked, and the buffer has not grown since.
Understood(n, m) ==
    IF needsBufferInformation
    THEN /\ \E i \in Info : /\ information[n] = {i} /\ i.recID = m
                            /\ Cardinality(buffer[m]) <= i.length
         /\ \A x \in Nodes : x # n => information[x] = {}
    ELSE NoInfo

\* Who sends what, the node that asks and hands over in the end, or the other.
Asking == {"REQUEST_BUFFER_INFO", "REQUEST_CONTACTS", "DEST", "REQUEST_LC_FS", "BUBBLE_SUMMARY"}

Answering == {"BUFFER_INFO", "DEST_PREDICT", "CONTACTS", "REQ_DEST", "LC_FS",
              "MARKED_REQUEST_PKTS"}

Asker(pkt) == IF pkt.type \in Asking THEN pkt.prev ELSE pkt.next
Asked(pkt) == IF pkt.type \in Asking THEN pkt.next ELSE pkt.prev

\* What a control packet says is true when it is received.
TruePhrase(type, prev, next, body) ==
    /\ type = "BUFFER_INFO" =>
          /\ body.size \in 0..BufferSize /\ body.length \in 0..BufferSize
          /\ Cardinality(buffer[prev]) <= body.length
    /\ type = "REQUEST_CONTACTS" => RT \in {"PROPHET", "SIMBET"}
    /\ type = "DEST_PREDICT" => RT = "PROPHET" /\ body = dpt[prev]
    /\ type \in {"CONTACTS", "DEST", "REQ_DEST"} => RT = "SIMBET"
    /\ type = "REQ_DEST" => \A d \in body.dests : SimBetBetter(body.receiver, body.sender, d)
    /\ type \in {"REQUEST_LC_FS", "LC_FS", "BUBBLE_SUMMARY", "MARKED_REQUEST_PKTS"} =>
          RT = "BUBBLERAP"
    /\ type = "BUBBLE_SUMMARY" => body.ids \subseteq Alive(buffer[prev])
    /\ type = "MARKED_REQUEST_PKTS" => body \subseteq Alive(buffer[next])

Phrase(pkt) ==
    /\ pkt.prev \in Nodes /\ pkt.next \in Nodes /\ pkt.prev # pkt.next
    /\ pkt.type \in Asking \cup Answering
    /\ IF pkt.type \in {"REQUEST_BUFFER_INFO", "BUFFER_INFO"}
       THEN needsBufferInformation /\ NoInfo
       ELSE Understood(Asker(pkt), Asked(pkt))
    /\ TruePhrase(pkt.type, pkt.prev, pkt.next, pkt.body)

\* A packet moves uphill, or to its destination.
Rises(id) ==
    RT = "PROPHET" =>
        \A p \in pool[id].ids :
            LET d == origin[p].dst
            IN  d = pool[id].next \/ dpt[pool[id].next][d] > dpt[pool[id].prev][d]

Talk ==
    /\ information \in [Nodes -> SUBSET Info]
    /\ dpt \in [Nodes -> [Destinations -> Ranks]]
    /\ DataIDs = DOMAIN pool => NoInfo
    /\ \A id \in DOMAIN pool \ DataIDs : Phrase(pool[id])
    /\ \A id \in DataIDs : Rises(id)
    /\ ~halted

\* What is in transmission when node n has sent packets S to m and C behind
\* them: the data packets of before were direct transfers.
LEMMA SendsTalk ==
    ASSUME SetOK, Stored, Talk, Frame, NEW n, NEW m, NEW S, NEW C, Sends(n, m, S, C),
           information' \in [Nodes -> SUBSET Info], dpt' \in [Nodes -> [Destinations -> Ranks]],
           C = {} => NoInfo', \A pkt \in C : Phrase(pkt)',
           RT = "PROPHET" => \A p \in S :
              \/ origin[p].dst = m
              \/ dpt'[m][origin[p].dst] > dpt'[n][origin[p].dst]
    PROVE  Talk'
  <1>1. RT' = RT /\ origin' = origin /\ BufferSize' = BufferSize
    BY FWFrame
  <1>2. Info' = Info
    BY <1>1 DEF Info
  <1>3. ASSUME DataIDs' = DOMAIN pool' PROVE NoInfo'
    <2>1. \A pkt \in C : pkt.type # "DATA" /\ \E id \in DOMAIN pool' : pool'[id] = pkt
      BY DEF Sends
    <2>2. \A id \in DOMAIN pool' : pool'[id].type = "DATA"
      BY <1>3 DEF DataIDs, IsData
    <2>3. C = {}
      BY <2>1, <2>2
    <2> QED
      BY <2>3
  <1>4. ASSUME NEW id \in DOMAIN pool' \ DataIDs' PROVE Phrase(pool[id])'
    <2>1. pool'[id].type # "DATA"
      BY <1>4 DEF DataIDs, IsData
    <2>2. id \notin DataIDs
      BY <2>1 DEF Sends, DataIDs, IsData
    <2>3. pool'[id] \in C
      BY <1>4, <2>1, <2>2 DEF Sends, DataOf
    <2>4. PICK pkt \in C : pool'[id] = pkt
      BY <2>3
    <2>5. Phrase(pkt)'
      BY <2>4
    <2> QED
      BY <2>4, <2>5 DEF Phrase, TruePhrase, Asker, Asked
  <1>5. ASSUME NEW id \in DataIDs' PROVE Rises(id)'
    <2>1. CASE id \in DataIDs
      <3>1. DataIDs # DOMAIN pool /\ pool'[id] = pool[id]
        BY <2>1 DEF Sends, Turn, DataIDs
      <3> QED
        BY <1>1, <2>1, <3>1 DEF Stored, Rises
    <2>2. CASE id \notin DataIDs
      <3>1. pool'[id].next = m /\ pool'[id].prev = n /\ \E p \in S : pool'[id].ids = {p}
        BY <1>5, <2>2, SentData
      <3> QED
        BY <1>1, <3>1 DEF Rises
    <2> QED
      BY <2>1, <2>2
  <1>6. ~halted'
    BY DEF Talk, Sends
  <1> QED
    BY <1>2, <1>3, <1>4, <1>5, <1>6 DEF Talk, Ranks

\* After an answer.
LEMMA SaidTalk ==
    ASSUME SetOK, Stored, Talk, Frame, NEW n, NEW m, NEW pkt, Sends(n, m, {}, {pkt}),
           information' \in [Nodes -> SUBSET Info], dpt' \in [Nodes -> [Destinations -> Ranks]],
           Phrase(pkt)'
    PROVE  Talk'
  <1>1. PICK S, C : S = {} /\ C = {pkt}
    OBVIOUS
  <1>2. Sends(n, m, S, C)
    BY <1>1
  <1>3. C # {} /\ \A q \in C : q = pkt
    BY <1>1
  <1>4. \A q \in C : Phrase(q)'
    BY <1>3 DEF Phrase, TruePhrase, Asker, Asked
  <1>5. \A p \in S : FALSE
    BY <1>1
  <1> QED
    BY <1>2, <1>3, <1>4, <1>5, SendsTalk

\* Nothing is in transmission before and after a step of the environment.
LEMMA IdleTalk ==
    ASSUME Talk, IdleStep, UNCHANGED <<Set, information>>,
           dpt' \in [Nodes -> [Destinations -> Ranks]]
    PROVE  Talk'
  <1>1. DataIDs = {} /\ DataIDs' = {} /\ Info' = Info
    BY DEF IdleStep, DataIDs, Info, BufferSize
  <1> QED
    BY <1>1 DEF Talk, IdleStep, NoInfo, Ranks

LEMMA AgingTalk ==
    ASSUME Talk, Aging
    PROVE  dpt' \in [Nodes -> [Destinations -> Ranks]]
  <1>1. dpt \in [Nodes -> [Destinations -> Ranks]] /\ MaxRank \in Nat
    BY ForwardingAssumption DEF Talk
  <1>2. \A k \in Ranks : k \div 2 \in Ranks
    BY <1>1 DEF Ranks
  <1>3. \A n \in Nodes : \A d \in Destinations : dpt[n][d] \in Ranks
    BY <1>1
  <1>4. \A n \in Nodes : \A d \in Destinations :
           (IF d = n THEN dpt[n][d] ELSE dpt[n][d] \div 2) \in Ranks
    BY <1>2, <1>3
  <1> QED
    BY <1>4 DEF Aging

\* Reading a data packet changes nothing of what the nodes have told.
LEMMA ReadsTalk ==
    ASSUME IInv, Stored, Talk, Frame, NEW r, Reads(r), UNCHANGED <<information, dpt>>
    PROVE  Talk'
  <1>1. /\ DataIDs = DOMAIN pool /\ DataIDs' = DOMAIN pool' /\ DataIDs' \subseteq DataIDs
        /\ \A id \in DataIDs' :
              /\ pool'[id].prev = pool[id].prev /\ pool'[id].next = pool[id].next
              /\ pool'[id].ids = pool[id].ids
    BY ReadView DEF Reads
  <1>2. RT' = RT /\ origin' = origin /\ Info' = Info
    BY FWFrame DEF Info
  <1>3. halted' = halted
    BY DEF Reads, Overheard, Delivered, Relayed
  <1>4. \A id \in DataIDs' : Rises(id)'
    BY <1>1, <1>2 DEF Talk, Rises
  <1> QED
    BY <1>1, <1>2, <1>3, <1>4 DEF Talk, NoInfo, Ranks

\* What a node knows of another's buffer stays true while that buffer takes
\* nothing in.
LEMMA UnderstoodKept ==
    ASSUME SetOK, Frame, NEW n, NEW m, Understood(n, m), information' = information,
           buffer[m] \in SUBSET PktIDs, buffer'[m] \subseteq buffer[m]
    PROVE  Understood(n, m)'
  <1>1. /\ needsBufferInformation' <=> needsBufferInformation
        /\ BufferSize' = BufferSize
    BY FWFrame
  <1>2. Info' = Info
    BY <1>1 DEF Info
  <1>3. /\ Cardinality(buffer'[m]) \in Nat /\ Cardinality(buffer[m]) \in Nat
        /\ Cardinality(buffer'[m]) <= Cardinality(buffer[m])
    BY Smaller
  <1>4. BufferSize \in Nat
    BY FWSettings
  <1>5. \A i \in Info : Cardinality(buffer[m]) <= i.length => Cardinality(buffer'[m]) <= i.length
    BY <1>3, <1>4 DEF Info
  <1> QED
    BY <1>1, <1>2, <1>5 DEF Understood, NoInfo

\* The control packet on top.
LEMMA Heard ==
    ASSUME IInv, Stored, Talk, NEW r, Receiving(r), pool[Top.id].type # "DATA"
    PROVE  /\ Phrase(pool[Top.id]) /\ pool[Top.id].next = r
           /\ r \in Nodes /\ pool[Top.id].prev \in Nodes /\ pool[Top.id].prev # r
           /\ DataIDs # DOMAIN pool
  <1>1. Top.id \in DOMAIN pool \ DataIDs /\ r \in Nodes
    BY TopFacts DEF DataIDs, IsData
  <1>2. pool[Top.id].next = r
    BY ControlStep DEF Stored
  <1> QED
    BY <1>1, <1>2 DEF Talk, Phrase

\* An answer, after which as much is known as before.
LEMMA AnswerTalk ==
    ASSUME IInv, SetOK, Stored, Talk, Frame, NEW r, Receiving(r), pool[Top.id].type # "DATA",
           pool[Top.id].type \notin {"REQUEST_BUFFER_INFO", "BUFFER_INFO"},
           NEW type \in (Asking \cup Answering) \ {"REQUEST_BUFFER_INFO", "BUFFER_INFO"},
           type \in Asking <=> pool[Top.id].type \in Answering,
           NEW body, Says(r, type, body), NEW m, m = pool[Top.id].prev,
           UNCHANGED <<information, dpt>>,
           TruePhrase(type, r, m, body)'
    PROVE  Talk'
  <1>1. m = pool[Top.id].prev
    OBVIOUS
  <1>2. PICK pkt : pkt = Reply(type, r, m, body)
    OBVIOUS
  <1>3. /\ Phrase(pool[Top.id]) /\ pool[Top.id].next = r /\ r \in Nodes /\ m \in Nodes /\ m # r
    BY <1>1, Heard
  <1>4. pkt.type = type /\ pkt.prev = r /\ pkt.next = m /\ pkt.body = body
    BY <1>2 DEF Reply
  <1>5. Sends(r, m, {}, {pkt})
    BY <1>1, <1>2 DEF Says
  <1>6. /\ \A x \in Nodes : buffer'[x] \subseteq buffer[x]
        /\ \A x \in Nodes : buffer[x] \in SUBSET PktIDs
    BY <1>5 DEF Sends, IInv, DataOK
  <1>7. Understood(Asker(pkt), Asked(pkt))'
    <2>1. Understood(Asker(pool[Top.id]), Asked(pool[Top.id]))
      BY <1>3 DEF Phrase
    <2>2. CASE type \in Asking
      <3>1. pool[Top.id].type \notin Asking
        BY <2>2 DEF Asking, Answering
      <3>2. Understood(r, m)
        BY <1>1, <1>3, <2>1, <3>1 DEF Asker, Asked
      <3>3. Understood(r, m)'
        BY <1>3, <1>6, <3>2, UnderstoodKept
      <3>4. Asker(pkt) = r /\ Asked(pkt) = m
        BY <1>4, <2>2 DEF Asker, Asked
      <3> QED
        BY <3>3, <3>4
    <2>3. CASE type \notin Asking
      <3>1. pool[Top.id].type \in Asking
        BY <1>3, <2>3 DEF Phrase
      <3>2. Understood(m, r)
        BY <1>1, <1>3, <2>1, <3>1 DEF Asker, Asked
      <3>3. Understood(m, r)'
        BY <1>3, <1>6, <3>2, UnderstoodKept
      <3>4. Asker(pkt) = m /\ Asked(pkt) = r
        BY <1>4, <2>3 DEF Asker, Asked
      <3> QED
        BY <3>3, <3>4
    <2> QED
      BY <2>2, <2>3
  <1>8. TruePhrase(pkt.type, pkt.prev, pkt.next, pkt.body)'
    BY <1>1, <1>4 DEF TruePhrase
  <1>9. Phrase(pkt)'
    BY <1>3, <1>4, <1>7, <1>8 DEF Phrase
  <1>10. BufferSize' = BufferSize
    BY FWFrame
  <1>11. /\ information' \in [Nodes -> SUBSET Info]
         /\ dpt' \in [Nodes -> [Destinations -> Ranks]]
    BY DEF Talk
  <1> QED
    BY <1>5, <1>9, <1>11, SaidTalk

\* The answers of each protocol, one after the other.
LEMMA BufferReqTalk ==
    ASSUME IInv, SetOK, Stored, Talk, Frame, NEW r, Receiving(r),
           ReceptionBufferReq(r, Top.id, pool[Top.id], RestAfter(r)), dpt' = dpt
    PROVE  Talk'
  <1>1. PICK m : m = pool[Top.id].prev
    OBVIOUS
  <1>2. /\ pool[Top.id].type = "REQUEST_BUFFER_INFO"
        /\ \E size \in AdvertisedSizes :
              Says(r, "BUFFER_INFO", [size |-> size, length |-> Cardinality(buffer[r])])
        /\ information' = information /\ buffer' = buffer
    BY BufferReqSays DEF Stored
  <1>3. /\ Phrase(pool[Top.id]) /\ r \in Nodes /\ m \in Nodes /\ m # r
    BY <1>1, <1>2, Heard
  <1>4. needsBufferInformation /\ NoInfo
    BY <1>2, <1>3 DEF Phrase
  <1>5. /\ BufferSize \in Nat /\ BufferSize > 0 /\ BufferSize' = BufferSize
        /\ needsBufferInformation'
    BY <1>4, FWSettings, FWFrame
  <1>6. PICK size \in AdvertisedSizes :
           Says(r, "BUFFER_INFO", [size |-> size, length |-> Cardinality(buffer[r])])
    BY <1>2
  <1>7. size \in 0..BufferSize
    <2> HIDE DEF BufferSize, CongestionControl
    <2>1. (91 * BufferSize) \div 100 <= BufferSize /\ 0 <= (4 * BufferSize) \div 10
      BY <1>5
    <2>2. (91 * BufferSize) \div 100 \in Int /\ (4 * BufferSize) \div 10 \in Int
      BY <1>5
    <2>3. CASE CongestionControl = "BSA"
      <3>1. size \in (4 * BufferSize) \div 10..(91 * BufferSize) \div 100
        BY <1>6, <2>3 DEF AdvertisedSizes
      <3> QED
        BY <1>5, <2>1, <2>2, <3>1
    <2>4. CASE CongestionControl # "BSA"
      BY <1>5, <1>6, <2>4 DEF AdvertisedSizes
    <2> QED
      BY <2>3, <2>4
  <1>8. Cardinality(buffer[r]) \in 0..BufferSize
    <2>1. buffer[r] \in SUBSET PktIDs
      BY <1>3 DEF IInv, DataOK
    <2>2. Cardinality(buffer[r]) \in Nat
      BY <2>1, PktFacts
    <2>3. Cardinality(buffer[r]) <= BufferSize
      BY <1>3, <1>5 DEF Stored
    <2> QED
      BY <1>5, <2>2, <2>3
  <1>9. PICK k : k = Cardinality(buffer[r])
    OBVIOUS
  <1>10. PICK pkt : pkt = Reply("BUFFER_INFO", r, m, [size |-> size, length |-> k])
    OBVIOUS
  <1>11. Sends(r, m, {}, {pkt})
    BY <1>1, <1>6, <1>9, <1>10 DEF Says
  <1>12. /\ pkt.type = "BUFFER_INFO" /\ pkt.prev = r /\ pkt.next = m
         /\ pkt.body.size = size /\ pkt.body.length = k
    BY <1>10 DEF Reply
  <1>13. NoInfo'
    BY <1>2, <1>4 DEF NoInfo
  <1>14. TruePhrase(pkt.type, pkt.prev, pkt.next, pkt.body)'
    BY <1>2, <1>5, <1>7, <1>8, <1>9, <1>12 DEF TruePhrase
  <1>15. Phrase(pkt)'
    BY <1>3, <1>5, <1>12, <1>13, <1>14 DEF Phrase, Asking, Answering
  <1>16. /\ information' \in [Nodes -> SUBSET Info]
         /\ dpt' \in [Nodes -> [Destinations -> Ranks]]
    BY <1>2 DEF Talk
  <1> QED
    BY <1>11, <1>15, <1>16, SaidTalk

LEMMA BufferRspTalk ==
    ASSUME IInv, SetOK, Stored, Talk, Frame, NEW r, Receiving(r),
           ReceptionBufferRsp(r, Top.id, pool[Top.id], RestAfter(r)), dpt' = dpt
    PROVE  Talk'
  <1>1. PICK m : m = pool[Top.id].prev
    OBVIOUS
  <1>2. pool[Top.id].type = "BUFFER_INFO"
    BY DEF ReceptionBufferRsp
  <1>3. /\ Phrase(pool[Top.id]) /\ r \in Nodes /\ m \in Nodes /\ m # r
    BY <1>1, <1>2, Heard
  <1>4. /\ needsBufferInformation /\ NoInfo
        /\ pool[Top.id].body.size \in 0..BufferSize /\ pool[Top.id].body.length \in 0..BufferSize
        /\ Cardinality(buffer[m]) <= pool[Top.id].body.length
    BY <1>1, <1>2, <1>3 DEF Phrase, TruePhrase
  <1>5. RT \in {"PROPHET", "SIMBET"}
    BY <1>4, FWSettings
  <1>6. PICK i : i = [recID |-> m, size |-> pool[Top.id].body.size,
                      length |-> pool[Top.id].body.length]
    OBVIOUS
  <1>7. i \in Info /\ i.recID = m /\ Cardinality(buffer[m]) <= i.length
    BY <1>3, <1>4, <1>6 DEF Info
  <1>8. PICK pkt : pkt = Control("REQUEST_CONTACTS", r, m, {})
    OBVIOUS
  <1>9. /\ Sends(r, m, {}, {pkt})
        /\ information' = [information EXCEPT ![r] = {i}] /\ buffer' = buffer
    BY <1>1, <1>5, <1>6, <1>8, BufferRspSends DEF Stored
  <1>10. information \in [Nodes -> SUBSET Info] /\ dpt' \in [Nodes -> [Destinations -> Ranks]]
    BY DEF Talk
  <1>11. /\ information' \in [Nodes -> SUBSET Info]
         /\ \A x \in Nodes : information'[x] = IF x = r THEN {i} ELSE {}
    BY <1>4, <1>7, <1>9, <1>10 DEF NoInfo
  <1>12. /\ pkt.type = "REQUEST_CONTACTS" /\ pkt.prev = r /\ pkt.next = m
    BY <1>8 DEF Control
  <1>13. /\ RT' = RT /\ BufferSize' = BufferSize /\ Info' = Info
         /\ needsBufferInformation'
    BY <1>4, FWFrame DEF Info
  <1>14. Understood(r, m)'
    BY <1>3, <1>7, <1>9, <1>11, <1>13 DEF Understood
  <1>15. TruePhrase(pkt.type, pkt.prev, pkt.next, pkt.body)'
    BY <1>5, <1>12, <1>13 DEF TruePhrase
  <1>16. Phrase(pkt)'
    BY <1>3, <1>12, <1>14, <1>15 DEF Phrase, Asker, Asked, Asking, Answering
  <1> QED
    BY <1>9, <1>10, <1>11, <1>16, SaidTalk

LEMMA RequestContactsTalk ==
    ASSUME IInv, SetOK, Stored, Talk, Frame, NEW r, Receiving(r),
           ReceptionRequestContacts(r, Top.id, pool[Top.id], RestAfter(r))
    PROVE  Talk'
  <1>1. PICK m : m = pool[Top.id].prev
    OBVIOUS
  <1>2. /\ pool[Top.id].type = "REQUEST_CONTACTS"
        /\ IF RT = "PROPHET" THEN Says(r, "DEST_PREDICT", dpt[r])
           ELSE \E body : Says(r, "CONTACTS", body)
        /\ UNCHANGED <<information, dpt, buffer>>
    BY RequestContactsSays DEF Stored
  <1>3. Phrase(pool[Top.id])
    BY <1>2, Heard
  <1>4. RT \in {"PROPHET", "SIMBET"} /\ RT' = RT
    BY <1>2, <1>3, FWFrame DEF Phrase, TruePhrase
  <1>5. /\ "REQUEST_CONTACTS" \in Asking /\ "DEST_PREDICT" \notin Asking
        /\ "CONTACTS" \notin Asking /\ {"DEST_PREDICT", "CONTACTS"} \subseteq Answering
        /\ "REQUEST_CONTACTS" \notin Answering
    BY DEF Asking, Answering
  <1>6. CASE RT = "PROPHET"
    <2>1. PICK body : body = dpt[r] /\ Says(r, "DEST_PREDICT", body)
      BY <1>2, <1>6
    <2>2. TruePhrase("DEST_PREDICT", r, m, body)'
      BY <1>2, <1>4, <1>6, <2>1 DEF TruePhrase
    <2> QED
      BY <1>1, <1>2, <1>5, <2>1, <2>2, AnswerTalk
  <1>7. CASE RT # "PROPHET"
    <2>1. PICK body : Says(r, "CONTACTS", body)
      BY <1>2, <1>7
    <2>2. TruePhrase("CONTACTS", r, m, body)'
      BY <1>4, <1>7 DEF TruePhrase
    <2> QED
      BY <1>1, <1>2, <1>5, <2>1, <2>2, AnswerTalk
  <1> QED
    BY <1>6, <1>7

LEMMA SimBetTalk ==
    ASSUME IInv, SetOK, Stored, Talk, Frame, NEW r, Receiving(r),
           \/ ReceptionContacts(r, Top.id, pool[Top.id], RestAfter(r))
           \/ ReceptionMetricsPerDest(r, Top.id, pool[Top.id], RestAfter(r))
    PROVE  Talk'
  <1>1. PICK m : m = pool[Top.id].prev
    OBVIOUS
  <1>2. CASE ReceptionContacts(r, Top.id, pool[Top.id], RestAfter(r))
    <2>1. /\ pool[Top.id].type = "CONTACTS" /\ \E body : Says(r, "DEST", body)
          /\ UNCHANGED <<information, dpt>>
      BY <1>2, ContactsSays DEF Stored
    <2>2. Phrase(pool[Top.id])
      BY <2>1, Heard
    <2>3. RT = "SIMBET" /\ RT' = RT
      BY <2>1, <2>2, FWFrame DEF Phrase, TruePhrase
    <2>4. PICK body : Says(r, "DEST", body)
      BY <2>1
    <2>5. TruePhrase("DEST", r, m, body)'
      BY <2>3 DEF TruePhrase
    <2>6. /\ "CONTACTS" \notin Asking /\ "CONTACTS" \in Answering
          /\ "DEST" \in Asking
      BY DEF Asking, Answering
    <2> QED
      BY <1>1, <2>1, <2>4, <2>5, <2>6, AnswerTalk
  <1>3. CASE ReceptionMetricsPerDest(r, Top.id, pool[Top.id], RestAfter(r))
    <2>1. /\ pool[Top.id].type = "DEST"
          /\ \E better : \E x, y :
                /\ Says(r, "REQ_DEST", [dests |-> better, sender |-> x, receiver |-> y])
                /\ \A d \in better : SimBetBetter(y, x, d)
          /\ UNCHANGED <<information, dpt, buffer>>
      BY <1>3, MetricsSays DEF Stored
    <2>2. Phrase(pool[Top.id])
      BY <2>1, Heard
    <2>3. RT = "SIMBET" /\ RT' = RT
      BY <2>1, <2>2, FWFrame DEF Phrase, TruePhrase
    <2>4. PICK better, x, y :
             /\ Says(r, "REQ_DEST", [dests |-> better, sender |-> x, receiver |-> y])
             /\ \A d \in better : SimBetBetter(y, x, d)
      BY <2>1
    <2>5. PICK body : body = [dests |-> better, sender |-> x, receiver |-> y]
      OBVIOUS
    <2>6. TruePhrase("REQ_DEST", r, m, body)'
      BY <2>3, <2>4, <2>5 DEF TruePhrase
    <2>7. /\ "DEST" \in Asking /\ "DEST" \notin Answering
          /\ "REQ_DEST" \notin Asking /\ "REQ_DEST" \in Answering
      BY DEF Asking, Answering
    <2>8. Says(r, "REQ_DEST", body)
      BY <2>4, <2>5
    <2> QED
      BY <1>1, <2>1, <2>6, <2>7, <2>8, AnswerTalk
  <1> QED
    BY <1>2, <1>3

LEMMA BubbleTalk ==
    ASSUME IInv, SetOK, Stored, Talk, Frame, NEW r, Receiving(r),
           \/ ReceptionReqLCandFS(r, Top.id, pool[Top.id], RestAfter(r))
           \/ ReceptionLCandFS(r, Top.id, pool[Top.id], RestAfter(r))
           \/ ReceptionBubbleSummary(r, Top.id, pool[Top.id], RestAfter(r))
    PROVE  Talk'
  <1>1. PICK m : m = pool[Top.id].prev
    OBVIOUS
  <1>2. CASE ReceptionReqLCandFS(r, Top.id, pool[Top.id], RestAfter(r))
    <2>1. /\ pool[Top.id].type = "REQUEST_LC_FS" /\ \E body : Says(r, "LC_FS", body)
          /\ UNCHANGED <<information, dpt, buffer>>
      BY <1>2, ReqLCandFSSays DEF Stored
    <2>2. Phrase(pool[Top.id])
      BY <2>1, Heard
    <2>3. RT = "BUBBLERAP" /\ RT' = RT
      BY <2>1, <2>2, FWFrame DEF Phrase, TruePhrase
    <2>4. PICK body : Says(r, "LC_FS", body)
      BY <2>1
    <2>5. TruePhrase("LC_FS", r, m, body)'
      BY <2>3 DEF TruePhrase
    <2>6. /\ "REQUEST_LC_FS" \in Asking /\ "REQUEST_LC_FS" \notin Answering
          /\ "LC_FS" \notin Asking /\ "LC_FS" \in Answering
      BY DEF Asking, Answering
    <2> QED
      BY <1>1, <2>1, <2>4, <2>5, <2>6, AnswerTalk
  <1>3. CASE ReceptionLCandFS(r, Top.id, pool[Top.id], RestAfter(r))
    <2>1. /\ pool[Top.id].type = "LC_FS"
          /\ \E s : Says(r, "BUBBLE_SUMMARY",
                         [ids |-> NotDestinedTo(Alive(buffer[r]), pool[Top.id].prev),
                          carrier |-> s])
          /\ UNCHANGED <<information, dpt>>
          /\ buffer' = [buffer EXCEPT ![r] = Alive(buffer[r])]
      BY <1>3, LCandFSSays DEF Stored
    <2>2. Phrase(pool[Top.id]) /\ r \in Nodes
      BY <2>1, Heard
    <2>3. RT = "BUBBLERAP" /\ RT' = RT
      BY <2>1, <2>2, FWFrame DEF Phrase, TruePhrase
    <2>4. PICK s : Says(r, "BUBBLE_SUMMARY",
                        [ids |-> NotDestinedTo(Alive(buffer[r]), pool[Top.id].prev),
                         carrier |-> s])
      BY <2>1
    <2>5. PICK body : body = [ids |-> NotDestinedTo(Alive(buffer[r]), pool[Top.id].prev),
                              carrier |-> s]
      OBVIOUS
    <2>6. body.ids \subseteq Alive(buffer[r])
      BY <2>5 DEF NotDestinedTo, Alive
    <2>7. buffer'[r] = Alive(buffer[r])
      BY <2>1, <2>2 DEF IInv, DataOK
    <2>8. \A p : IsAlive(p)' <=> IsAlive(p)
      BY FWFrame
    <2>9. body.ids \subseteq (Alive(buffer[r]))'
      BY <2>6, <2>7, <2>8 DEF Alive
    <2>10. TruePhrase("BUBBLE_SUMMARY", r, m, body)'
      BY <2>3, <2>9 DEF TruePhrase
    <2>11. /\ "LC_FS" \notin Asking /\ "LC_FS" \in Answering
           /\ "BUBBLE_SUMMARY" \in Asking
      BY DEF Asking, Answering
    <2>12. Says(r, "BUBBLE_SUMMARY", body)
      BY <2>4, <2>5
    <2> QED
      BY <1>1, <2>1, <2>10, <2>11, <2>12, AnswerTalk
  <1>4. CASE ReceptionBubbleSummary(r, Top.id, pool[Top.id], RestAfter(r))
    <2>1. /\ pool[Top.id].type = "BUBBLE_SUMMARY"
          /\ \E wanted \in SUBSET pool[Top.id].body.ids :
                Says(r, "MARKED_REQUEST_PKTS", wanted)
          /\ UNCHANGED <<information, dpt>>
      BY <1>4, BubbleSummarySays DEF Stored
    <2>2. Phrase(pool[Top.id]) /\ r \in Nodes /\ m \in Nodes /\ m # r
      BY <1>1, <2>1, Heard
    <2>3. /\ RT = "BUBBLERAP" /\ RT' = RT
          /\ pool[Top.id].body.ids \subseteq Alive(buffer[m])
      BY <1>1, <2>1, <2>2, FWFrame DEF Phrase, TruePhrase
    <2>4. PICK wanted \in SUBSET pool[Top.id].body.ids :
             Says(r, "MARKED_REQUEST_PKTS", wanted)
      BY <2>1
    <2>5. buffer'[m] = buffer[m]
      BY <2>2, <2>4 DEF Says, Sends
    <2>6. \A p : IsAlive(p)' <=> IsAlive(p)
      BY FWFrame
    <2>7. wanted \subseteq (Alive(buffer[m]))'
      BY <2>3, <2>5, <2>6 DEF Alive
    <2>8. TruePhrase("MARKED_REQUEST_PKTS", r, m, wanted)'
      BY <2>3, <2>7 DEF TruePhrase
    <2>9. /\ "BUBBLE_SUMMARY" \in Asking /\ "BUBBLE_SUMMARY" \notin Answering
          /\ "MARKED_REQUEST_PKTS" \notin Asking /\ "MARKED_REQUEST_PKTS" \in Answering
      BY DEF Asking, Answering
    <2> QED
      BY <1>1, <2>1, <2>4, <2>8, <2>9, AnswerTalk
  <1> QED
    BY <1>2, <1>3, <1>4


\* Packets are handed over to the node that answered, uphill with PRoPHET;
\* what is known of its buffer is forgotten.
LEMMA HandsTalk ==
    ASSUME IInv, SetOK, Stored, Talk, Frame, NEW r, Receiving(r), pool[Top.id].type # "DATA",
           pool[Top.id].type \in Answering \ {"BUFFER_INFO"},
           NEW out, NEW useless, Hands(r, out, useless),
           dpt' \in [Nodes -> [Destinations -> Ranks]],
           NEW m, m = pool[Top.id].prev,
           RT = "PROPHET" => \A p \in out :
              dpt'[m][origin[p].dst] > dpt'[r][origin[p].dst]
    PROVE  Talk'
  <1>1. PICK S \in filterPackets(r, out, useless) : S \subseteq out /\ Sends(r, m, S, {})
    BY DEF Hands
  <1>2. information' = [information EXCEPT ![r] = {}]
    BY DEF Hands
  <1>3. Phrase(pool[Top.id]) /\ pool[Top.id].next = r /\ r \in Nodes
    BY Heard
  <1>4. Understood(r, m)
    <2>1. /\ pool[Top.id].type \notin Asking
          /\ pool[Top.id].type \notin {"REQUEST_BUFFER_INFO", "BUFFER_INFO"}
      BY DEF Asking, Answering
    <2> QED
      BY <1>3, <2>1 DEF Phrase, Asker, Asked
  <1>5. /\ information \in [Nodes -> SUBSET Info]
        /\ \A x \in Nodes : x # r => information[x] = {}
    BY <1>4 DEF Talk, Understood, NoInfo
  <1>6. NoInfo' /\ information' \in [Nodes -> SUBSET Info]
    BY <1>2, <1>3, <1>5 DEF NoInfo
  <1>7. RT = "PROPHET" => \A p \in S :
           \/ origin[p].dst = m
           \/ dpt'[m][origin[p].dst] > dpt'[r][origin[p].dst]
    BY <1>1
  <1>8. PICK C : C = {}
    OBVIOUS
  <1>9. Sends(r, m, S, C) /\ \A q \in C : FALSE
    BY <1>1, <1>8
  <1> QED
    BY <1>6, <1>7, <1>9, SendsTalk

\* Congestion control knows what it needs to decide.
LEMMA Decided ==
    ASSUME IInv, Stored, Talk, NEW r, Receiving(r),
           pool[Top.id].type \in Answering \ {"BUFFER_INFO"},
           NEW out
    PROVE  ~Undecided(r, out, {})
  <1>1. pool[Top.id].type # "DATA" /\ pool[Top.id].type \notin Asking
        /\ pool[Top.id].type \notin {"REQUEST_BUFFER_INFO", "BUFFER_INFO"}
    BY DEF Asking, Answering
  <1>2. Phrase(pool[Top.id]) /\ pool[Top.id].next = r
    BY <1>1, Heard
  <1>3. Understood(r, pool[Top.id].prev)
    BY <1>1, <1>2 DEF Phrase, Asker, Asked
  <1>4. needsBufferInformation => information[r] # {}
    BY <1>3 DEF Understood
  <1> QED
    BY <1>4 DEF Undecided

LEMMA DPTTalk ==
    ASSUME IInv, SetOK, Stored, Talk, Frame, NEW r, Receiving(r),
           ReceptionDPT(r, Top.id, pool[Top.id], RestAfter(r))
    PROVE  Talk'
  <1>1. PICK m : m = pool[Top.id].prev
    OBVIOUS
  <1>2. pool[Top.id].type = "DEST_PREDICT" /\ pool[Top.id].type # "DATA"
    BY DEF ReceptionDPT
  <1>3. Phrase(pool[Top.id]) /\ r \in Nodes /\ m \in Nodes /\ m # r
    BY <1>1, <1>2, Heard
  <1>4. /\ RT = "PROPHET" /\ pool[Top.id].body = dpt[m]
        /\ dpt \in [Nodes -> [Destinations -> Ranks]]
    BY <1>1, <1>2, <1>3 DEF Phrase, TruePhrase, Talk
  <1>5. PICK mine \in UpdateDPT(r, pool[Top.id].prev, pool[Top.id].body) :
           LET out == For(Alive(buffer[r]), CheckDPs(mine, pool[Top.id].body))
               useless == For(out, {d \in Destinations : mine[d] = 0})
               notBetter == For(out, {d \in Destinations : pool[Top.id].body[d] <= mine[d]})
           IN  /\ dpt' = [dpt EXCEPT ![r] = mine]
               /\ IF Undecided(r, out, notBetter) THEN Stops ELSE Hands(r, out, useless)
    <2>1. OneControl
      BY DEF Stored
    <2> QED
      BY <1>2, <2>1, DPTHands, Zenon
  <1> DEFINE out == For(Alive(buffer[r]), CheckDPs(mine, pool[Top.id].body))
  <1> DEFINE useless == For(out, {d \in Destinations : mine[d] = 0})
  <1> DEFINE notBetter == For(out, {d \in Destinations : pool[Top.id].body[d] <= mine[d]})
  <1>6. /\ dpt' = [dpt EXCEPT ![r] = mine]
        /\ IF Undecided(r, out, notBetter) THEN Stops ELSE Hands(r, out, useless)
    BY <1>5
  <1>7. mine \in [Destinations -> Ranks] /\ dpt[m] \in [Destinations -> Ranks]
    BY <1>3, <1>4, <1>5 DEF UpdateDPT
  <1>8. \A d \in Destinations : mine[d] \in Int /\ dpt[m][d] \in Int
    <2>1. Ranks \subseteq Int
      BY ForwardingAssumption DEF Ranks
    <2> QED
      BY <1>7, <2>1
  <1>9. \A p \in out : /\ p \in Alive(buffer[r]) /\ origin[p].dst \in Destinations
                       /\ dpt[m][origin[p].dst] > mine[origin[p].dst]
    BY <1>4 DEF For, CheckDPs
  <1>10. notBetter = {}
    BY <1>4, <1>8, <1>9 DEF For
  <1> HIDE DEF out, useless, notBetter
  <1>11. pool[Top.id].type \in Answering \ {"BUFFER_INFO"} /\ pool[Top.id].type # "DATA"
    BY <1>2 DEF Answering
  <1>12. Hands(r, out, useless)
    BY <1>6, <1>10, <1>11, Decided
  <1>13. dpt' \in [Nodes -> [Destinations -> Ranks]] /\ dpt'[r] = mine /\ dpt'[m] = dpt[m]
    BY <1>3, <1>4, <1>6, <1>7
  <1>14. \A p \in out : dpt'[m][origin[p].dst] > dpt'[r][origin[p].dst]
    BY <1>9, <1>13
  <1> QED
    BY <1>1, <1>11, <1>12, <1>13, <1>14, HandsTalk

LEMMA ReqForDestTalk ==
    ASSUME IInv, SetOK, Stored, Talk, Frame, NEW r, Receiving(r),
           ReceptionReqForDest(r, Top.id, pool[Top.id], RestAfter(r))
    PROVE  Talk'
  <1> DEFINE out == For(Alive(buffer[r]), pool[Top.id].body.dests)
  <1> DEFINE mine == pool[Top.id].body.sender
  <1> DEFINE other == pool[Top.id].body.receiver
  <1> DEFINE useless == For(out, {d \in Nodes : mine.sim[d] = 0 /\ mine.bet = 0})
  <1> DEFINE notBetter == For(out, {d \in Nodes : ~SimBetBetter(other, mine, d)})
  <1>1. /\ pool[Top.id].type = "REQ_DEST" /\ dpt' = dpt
        /\ IF Undecided(r, out, notBetter) THEN Stops ELSE Hands(r, out, useless)
    BY ReqForDestHands DEF Stored
  <1>2. pool[Top.id].type \in Answering \ {"BUFFER_INFO"} /\ pool[Top.id].type # "DATA"
    BY <1>1 DEF Answering
  <1>3. Phrase(pool[Top.id])
    BY <1>2, Heard
  <1>4. /\ RT = "SIMBET"
        /\ \A d \in pool[Top.id].body.dests : SimBetBetter(other, mine, d)
    BY <1>1, <1>3 DEF Phrase, TruePhrase
  <1>5. notBetter = {}
    BY <1>4 DEF For
  <1> HIDE DEF out, useless, notBetter
  <1>6. Hands(r, out, useless)
    BY <1>1, <1>2, <1>5, Decided
  <1>7. dpt' \in [Nodes -> [Destinations -> Ranks]] /\ RT # "PROPHET"
    BY <1>1, <1>4 DEF Talk
  <1> QED
    BY <1>2, <1>6, <1>7, HandsTalk

LEMMA RequestVectorTalk ==
    ASSUME IInv, SetOK, Stored, Talk, Frame, NEW r, Receiving(r),
           ReceptionRequestVector(r, Top.id, pool[Top.id], RestAfter(r))
    PROVE  Talk'
  <1> DEFINE out == pool[Top.id].body
  <1>1. /\ pool[Top.id].type = "MARKED_REQUEST_PKTS" /\ dpt' = dpt
        /\ IF out \subseteq Alive(buffer[r]) /\ ~Undecided(r, out, {})
           THEN Hands(r, out, {}) ELSE Stops
    BY RequestVectorHands DEF Stored
  <1>2. pool[Top.id].type \in Answering \ {"BUFFER_INFO"} /\ pool[Top.id].type # "DATA"
    BY <1>1 DEF Answering
  <1>3. Phrase(pool[Top.id]) /\ pool[Top.id].next = r
    BY <1>2, Heard
  <1>4. RT = "BUBBLERAP" /\ out \subseteq Alive(buffer[r])
    BY <1>1, <1>3 DEF Phrase, TruePhrase
  <1> HIDE DEF out
  <1>5. Hands(r, out, {})
    BY <1>1, <1>2, <1>4, Decided
  <1>6. dpt' \in [Nodes -> [Destinations -> Ranks]] /\ RT # "PROPHET"
    BY <1>1, <1>4 DEF Talk
  <1> QED
    BY <1>2, <1>5, <1>6, HandsTalk

\* No packet arrives at a node that stores it.
LEMMA DataTalk ==
    ASSUME IInv, SetOK, Stored, Talk, Frame, NEW r, Receiving(r),
           ReceptionData(r, Top.id, pool[Top.id], RestAfter(r))
    PROVE  Talk'
  <1>1. /\ UNCHANGED <<information, dpt>> /\ pool[Top.id].type = "DATA"
        /\ \/ Reads(r)
           \/ /\ Stops
              /\ \E p \in pool[Top.id].ids : pool[Top.id].next = r /\ p \in Alive(buffer[r])
    BY DataReads
  <1>2. ASSUME NEW p \in pool[Top.id].ids, pool[Top.id].next = r PROVE p \notin Alive(buffer[r])
    <2>1. Top.id \in DataIDs /\ r \in Nodes
      BY <1>1, TopFacts DEF DataIDs, IsData
    <2>2. Awaiting(evlist, Top.id, r)
      BY TopFacts DEF Receiving, Awaiting
    <2> QED
      BY <1>2, <2>1, <2>2 DEF Stored, Alive
  <1>3. Reads(r)
    BY <1>1, <1>2
  <1> QED
    BY <1>1, <1>3, ReadsTalk

LEMMA ReceiveTalk ==
    ASSUME IInv, SetOK, Stored, Talk, Receive, UNCHANGED Set
    PROVE  Talk'
  <1>1. PICK r \in Top.rcv : Receiving(r) /\ recv(r, Top.id, pool[Top.id], RestAfter(r))
    BY Received
  <1>2. Frame
    BY DEF Receive, Frame, netVars
  <1>3. (ReceptionBufferReq(r, Top.id, pool[Top.id], RestAfter(r))
           \/ ReceptionBufferRsp(r, Top.id, pool[Top.id], RestAfter(r))) /\ UNCHANGED utilVars
        => Talk'
    BY <1>1, <1>2, BufferReqTalk, BufferRspTalk DEF utilVars
  <1> QED
    BY <1>1, <1>2, <1>3, DataTalk, RequestContactsTalk, DPTTalk, SimBetTalk, ReqForDestTalk,
       BubbleTalk, RequestVectorTalk DEF recv

\* A new contact asks for the state of the buffer first, if it is needed.
LEMMA ContactTalk ==
    ASSUME IInv, SetOK, Stored, Talk, FWContactUp, UNCHANGED Set
    PROVE  Talk'
  <1>1. PICK n, m : n = Top.a /\ m = Top.b
    OBVIOUS
  <1>2. /\ n \in Nodes /\ m \in Nodes /\ n # m /\ DOMAIN pool = {}
        /\ UNCHANGED <<now, origin, information, dpt>>
    BY <1>1, NewContact
  <1>3. PICK S : S = DestinedTo(buffer[n], m)
    OBVIOUS
  <1>4. \A p \in S : origin[p].dst = m
    BY <1>3 DEF DestinedTo
  <1>5. PICK C : /\ Sends(n, m, S, C)
                 /\ IF Opening(n, m) = <<>> THEN C = {}
                    ELSE \E pkt : C = {pkt} /\ Opening(n, m) = <<pkt>>
    BY <1>1, <1>3, DirectSent
  <1>6. Frame
    BY <1>2 DEF Frame
  <1>7. NoInfo /\ NoInfo'
    <2>1. DataIDs = DOMAIN pool
      BY <1>2 DEF DataIDs
    <2> QED
      BY <1>2, <2>1 DEF Talk, NoInfo
  <1>8. /\ information' \in [Nodes -> SUBSET Info]
        /\ dpt' \in [Nodes -> [Destinations -> Ranks]]
    BY <1>2 DEF Talk
  <1>9. /\ needsBufferInformation' <=> needsBufferInformation
        /\ RT' = RT
    BY <1>6, FWFrame
  <1>10. ASSUME NEW pkt \in C PROVE Phrase(pkt)'
    <2>1. Opening(n, m) = <<pkt>>
      <3>1. Opening(n, m) # <<>>
        BY <1>5, <1>10
      <3>2. PICK q : C = {q} /\ Opening(n, m) = <<q>>
        BY <1>5, <3>1
      <3>3. q = pkt
        BY <1>10, <3>2
      <3> QED
        BY <3>2, <3>3
    <2>2. pkt = Opening(n, m)[1]
      BY <2>1
    <2>3. CASE needsBufferInformation
      <3>1. pkt = Control("REQUEST_BUFFER_INFO", n, m, {})
        BY <2>2, <2>3 DEF Opening
      <3>2. pkt.type = "REQUEST_BUFFER_INFO" /\ pkt.prev = n /\ pkt.next = m
        BY <3>1 DEF Control
      <3>3. TruePhrase(pkt.type, pkt.prev, pkt.next, pkt.body)'
        BY <3>2 DEF TruePhrase
      <3> QED
        BY <1>2, <1>7, <1>9, <2>3, <3>2, <3>3 DEF Phrase, Asking
    <2>4. CASE ~needsBufferInformation /\ RT \in {"PROPHET", "SIMBET"}
      <3>1. pkt = Control("REQUEST_CONTACTS", n, m, {})
        BY <2>2, <2>4 DEF Opening, Inquiry
      <3>2. pkt.type = "REQUEST_CONTACTS" /\ pkt.prev = n /\ pkt.next = m
        BY <3>1 DEF Control
      <3>3. TruePhrase(pkt.type, pkt.prev, pkt.next, pkt.body)'
        BY <1>9, <2>4, <3>2 DEF TruePhrase
      <3> QED
        BY <1>2, <1>7, <1>9, <2>4, <3>2, <3>3 DEF Phrase, Asking, Understood
    <2>5. CASE ~needsBufferInformation /\ RT = "BUBBLERAP"
      <3>1. pkt = Control("REQUEST_LC_FS", n, m, {})
        BY <2>2, <2>5 DEF Opening, Inquiry
      <3>2. pkt.type = "REQUEST_LC_FS" /\ pkt.prev = n /\ pkt.next = m
        BY <3>1 DEF Control
      <3>3. TruePhrase(pkt.type, pkt.prev, pkt.next, pkt.body)'
        BY <1>9, <2>5, <3>2 DEF TruePhrase
      <3> QED
        BY <1>2, <1>7, <1>9, <2>5, <3>2, <3>3 DEF Phrase, Asking, Understood
    <2>6. CASE ~needsBufferInformation /\ RT \notin {"PROPHET", "SIMBET", "BUBBLERAP"}
      <3>1. Opening(n, m) = <<>>
        BY <2>6 DEF Opening, Inquiry
      <3> QED
        BY <1>5, <1>10, <3>1
    <2> QED
      BY <2>3, <2>4, <2>5, <2>6
  <1> QED
    BY <1>4, <1>5, <1>6, <1>7, <1>8, <1>10, SendsTalk

LEMMA TalkNext == IInv /\ SetOK /\ Stored /\ Talk /\ [FWNext]_fwVars => Talk'
  <1> SUFFICES ASSUME IInv, SetOK, Stored, Talk, [FWNext]_fwVars PROVE Talk'
    OBVIOUS
  <1>1. CASE UNCHANGED fwVars
    <2>1. /\ UNCHANGED <<Set, information, dpt, pool, buffer, origin, now, halted>>
      BY <1>1 DEF fwVars, ccVars, vars, netVars, msgVars, utilVars
    <2>2. /\ UNCHANGED <<Info, DataIDs, RT>> /\ NoInfo' = NoInfo
          /\ needsBufferInformation' = needsBufferInformation
          /\ \A b : (Alive(b))' = Alive(b')
      BY <2>1 DEF Info, BufferSize, DataIDs, IsData, RT, NoInfo, needsBufferInformation,
         CongestionControl, Alive, IsAlive, TTL
    <2>3. \A n, m : Understood(n, m)' <=> Understood(n, m)
      BY <2>1, <2>2 DEF Understood
    <2>4. \A pkt : Phrase(pkt)' <=> Phrase(pkt)
      <3>1. \A type, prev, next, body :
               TruePhrase(type, prev, next, body)' <=> TruePhrase(type, prev, next, body)
        BY <2>1, <2>2 DEF TruePhrase, BufferSize
      <3> QED
        BY <2>2, <2>3, <3>1 DEF Phrase
    <2>5. \A id : Rises(id)' <=> Rises(id)
      BY <2>1, <2>2 DEF Rises
    <2>6. \A id \in DOMAIN pool : Phrase(pool[id])' <=> Phrase(pool[id])
      BY <2>1, <2>4 DEF Phrase, TruePhrase, Asker, Asked
    <2> QED
      BY <2>1, <2>2, <2>5, <2>6 DEF Talk, Ranks
  <1>2. CASE FWNext
    <2>0. UNCHANGED Set
      BY <1>2 DEF FWNext
    <2>1. dpt \in [Nodes -> [Destinations -> Ranks]]
      BY DEF Talk
    <2>2. CASE FWEnvironment
      <3>1. information' = information /\ (Aging \/ dpt' = dpt)
        BY <2>2 DEF FWEnvironment
      <3> QED
        BY <2>0, <2>1, <2>2, <3>1, EnvironmentUnmoved, AgingTalk, IdleTalk DEF Unmoved
    <2>3. CASE FWContactUp
      BY <2>0, <2>3, ContactTalk
    <2>4. CASE (ContactDown \/ RecvFromApp) /\ UNCHANGED <<information, utilVars>>
      <3>1. IdleStep
        BY <2>0, <2>4, ContactDownUnmoved, RecvFromAppNew DEF Unmoved, NewPacket
      <3> QED
        BY <2>0, <2>1, <2>4, <3>1, IdleTalk DEF utilVars
    <2>5. CASE Receive
      BY <2>0, <2>5, ReceiveTalk
    <2> QED
      BY <1>2, <2>2, <2>3, <2>4, <2>5 DEF FWNext
  <1> QED
    BY <1>1, <1>2

LEMMA TalkInit == FWInit => Talk
  <1> SUFFICES ASSUME FWInit PROVE Talk
    OBVIOUS
  <1>1. /\ DOMAIN pool = {} /\ ~halted /\ information = [n \in Nodes |-> {}]
        /\ dpt = [n \in Nodes |-> [d \in Destinations |-> IF d = n THEN MaxRank ELSE 0]]
    BY DEF FWInit, CCInit, Init
  <1>2. DataIDs = {} /\ NoInfo /\ information \in [Nodes -> SUBSET Info]
    BY <1>1 DEF DataIDs, NoInfo
  <1>3. 0 \in Ranks /\ MaxRank \in Ranks
    BY ForwardingAssumption DEF Ranks
  <1>4. dpt \in [Nodes -> [Destinations -> Ranks]]
    BY <1>1, <1>3
  <1> QED
    BY <1>1, <1>2, <1>4 DEF Talk

THEOREM Talking == FWSpec => []Talk
  <1>1. FWInit => Talk
    BY TalkInit
  <1>2. IInv /\ SetOK /\ Stored /\ Talk /\ [FWNext]_fwVars => Talk'
    BY TalkNext
  <1> QED
    BY <1>1, <1>2, Invariance, SettingsKept, OnePlace, PTL DEF FWSpec


\* No handler ends the program: the packet a data packet carries is not in
\* the buffer of its receiver, a packet that was asked for still is in that of
\* the other node, and congestion control has the information it decides by.
THEOREM NothingEnds == FWSpec => []NoError
  <1>1. Talk => NoError
    BY DEF Talk, NoError
  <1> QED
    BY <1>1, Talking, PTL

\* PRoPHET moves a packet to its destination or to a node whose table says it
\* has a better chance than the table of the node it leaves.
THEOREM UphillOnly == FWSpec => []Upward
  <1>1. Talk => Upward
    BY DEF Talk, Upward, Rises, DataIDs, IsData
  <1> QED
    BY <1>1, Talking, PTL

\* What is known of a buffer is about the other node of the exchange under way.
THEOREM ForgottenInTime == FWSpec => []Informed
  <1>1. ASSUME Talk, NEW n \in Nodes, NEW i \in information[n]
        PROVE  \E id \in DOMAIN pool :
                  pool[id].type # "DATA" /\ {pool[id].prev, pool[id].next} = {n, i.recID}
    <2>1. DataIDs # DOMAIN pool
      BY <1>1 DEF Talk, NoInfo
    <2>2. PICK id \in DOMAIN pool : id \notin DataIDs
      BY <2>1 DEF DataIDs
    <2>3. Phrase(pool[id]) /\ pool[id].type # "DATA"
      BY <1>1, <2>2 DEF Talk, DataIDs, IsData
    <2>4. Understood(Asker(pool[id]), Asked(pool[id])) /\ ~NoInfo
      BY <1>1, <2>3 DEF Phrase, NoInfo
    <2>5. n = Asker(pool[id]) /\ i.recID = Asked(pool[id])
      BY <1>1, <2>4 DEF Understood
    <2>6. {pool[id].prev, pool[id].next} = {n, i.recID}
      BY <2>5 DEF Asker, Asked
    <2> QED
      BY <2>3, <2>6
  <1>2. Talk => Informed
    BY <1>1 DEF Informed
  <1> QED
    BY <1>2, Talking, PTL


-----------------------------------------------------------------------------
(* Congestion control.                                                     *)

\* The mechanisms that keep to the remaining storage of the receiver.
KeepsToStorage == CongestionControl \in {"AVOIDOVERFLOW", "ACC", "BSA", "CACC"}

\* The packets that node n carries or is to carry on.
Load(n) == {p \in PktIDs : Holds(n, p) /\ origin[p].dst # n}

\* What is on its way to a node has room in its buffer.
Settled == KeepsToStorage => \A n \in Nodes : Cardinality(Load(n)) <= BufferSize

\* The number of packets that are left is at most that of those there is room for.
LEMMA FilterSize ==
    ASSUME KeepsToStorage, BufferSize \in Nat, NEW n, NEW out \in SUBSET PktIDs, NEW useless,
           NEW i \in Info, information[n] = {i},
           NEW S \in filterPackets(n, out, useless)
    PROVE  Cardinality(S) \in Nat /\ Cardinality(S) <= remainingStorage(i)
  <1>1. /\ IsFiniteSet(out) /\ Cardinality(out) \in Nat
    BY PktFacts
  <1>2. /\ remainingStorage(i) \in Nat
    BY DEF remainingStorage, Info
  <1>3. needsBufferInformation
    BY DEF KeepsToStorage, needsBufferInformation
  <1>4. \A k \in Nat : k <= Min({Cardinality(out), remainingStorage(i)}) => k <= remainingStorage(i)
    <2> DEFINE a == Cardinality(out)
               b == remainingStorage(i)
    <2>1. a \in Nat /\ b \in Nat
      BY <1>1, <1>2
    <2> HIDE DEF a, b
    <2>2. \E x \in {a, b} : \A y \in {a, b} : x <= y
      BY <2>1
    <2>3. Min({a, b}) \in {a, b} /\ \A y \in {a, b} : Min({a, b}) <= y
      BY <2>2 DEF Min
    <2>4. \A k \in Nat : k <= Min({a, b}) => k <= b
      BY <2>1, <2>3
    <2> QED
      BY <2>4 DEF a, b
  <1>5. Min({Cardinality(out), remainingStorage(i)}) \in Nat
    <2> DEFINE a == Cardinality(out)
               b == remainingStorage(i)
    <2>1. a \in Nat /\ b \in Nat
      BY <1>1, <1>2
    <2> HIDE DEF a, b
    <2>2. \E x \in {a, b} : \A y \in {a, b} : x <= y
      BY <2>1
    <2>3. Min({a, b}) \in {a, b}
      BY <2>2 DEF Min
    <2> QED
      BY <2>1, <2>3 DEF a, b
  <1>6. PICK bound \in Nat : bound = Min({Cardinality(out), remainingStorage(i)})
    BY <1>5
  <1>7. \A T : \A k : T \in kSubset(k, out) => Cardinality(T) = k
    BY DEF kSubset
  <1>8. CASE out = {}
    <2>1. S = {}
      BY <1>8 DEF filterPackets
    <2> QED
      BY <1>2, <2>1, FS_EmptySet
  <1>9. CASE out # {}
    <2>1. S \in CASE CongestionControl = "ACC" -> UNION {kSubset(k, out) : k \in 0..bound}
                  [] CongestionControl = "FAIRROUTE" ->
                        {T \cup useless :
                            T \in OfSize(out, fairPackets(i, Cardinality(buffer[n])))}
                  [] OTHER -> kSubset(bound, out)
      BY <1>3, <1>6, <1>9 DEF filterPackets, OfSize
    <2>2. CASE CongestionControl = "ACC"
      <3>1. PICK k \in 0..bound : S \in kSubset(k, out)
        BY <2>1, <2>2
      <3>2. k \in Nat /\ k <= bound /\ Cardinality(S) = k
        BY <1>6, <1>7, <3>1
      <3> QED
        BY <1>4, <1>6, <3>2
    <2>3. CASE CongestionControl # "ACC"
      <3>1. S \in kSubset(bound, out)
        BY <2>1, <2>3 DEF KeepsToStorage
      <3>2. Cardinality(S) = bound
        BY <1>7, <3>1
      <3> QED
        BY <1>4, <1>6, <3>2
    <2> QED
      BY <2>2, <2>3
  <1> QED
    BY <1>8, <1>9

\* A node that takes on nothing new stays settled.
LEMMA LighterSettled ==
    ASSUME IInv', SetOK, Stored', Settled, UNCHANGED Set, NEW n \in Nodes, KeepsToStorage,
           \A p : Holds(n, p)' => Holds(n, p) /\ origin'[p] = origin[p]
    PROVE  Cardinality(Load(n))' <= BufferSize
  <1>1. Load(n)' \subseteq Load(n)
    BY DEF Load
  <1>2. Load(n) \in SUBSET PktIDs
    BY DEF Load
  <1>3. /\ Cardinality(Load(n)') \in Nat /\ Cardinality(Load(n)) \in Nat
        /\ Cardinality(Load(n)') <= Cardinality(Load(n))
    BY <1>1, <1>2, Smaller
  <1>4. Cardinality(Load(n)) <= BufferSize /\ BufferSize \in Nat
    BY FWSettings DEF Settled
  <1> QED
    BY <1>3, <1>4

\* Packets that are sent to their destination burden nobody; ...
LEMMA SendsSettled ==
    ASSUME IInv', SetOK, Stored, Stored', Settled, Frame, NEW n, NEW m, NEW S, NEW C,
           Sends(n, m, S, C), KeepsToStorage,
           \/ \A p \in S : origin[p].dst = m
           \/ Cardinality(Load(m) \cup S) <= BufferSize
    PROVE  \A x \in Nodes : Cardinality(Load(x))' <= BufferSize
  <1>1. /\ n \in Nodes /\ m \in Nodes
        /\ \A x \in Nodes : buffer'[x] \subseteq buffer[x]
        /\ S \subseteq buffer[n]
    BY DEF Sends
  <1>2. \A x, p : Coming(x, p)' <=> Coming(x, p) \/ (x = m /\ p \in S)
    BY SentComing
  <1>3. origin' = origin /\ BufferSize \in Nat /\ UNCHANGED Set
    BY FWFrame, FWSettings DEF Frame
  <1>4. ASSUME NEW x \in Nodes, x # m PROVE Cardinality(Load(x))' <= BufferSize
    <2>1. \A p : Holds(x, p)' => Holds(x, p)
      BY <1>1, <1>2, <1>4 DEF Holds
    <2> QED
      BY <1>3, <1>4, <2>1, LighterSettled
  <1>5. CASE \A p \in S : origin[p].dst = m
    <2>1. Load(m)' \subseteq Load(m)
      BY <1>1, <1>2, <1>3, <1>5 DEF Load, Holds
    <2>2. Load(m) \in SUBSET PktIDs
      BY DEF Load
    <2>3. /\ Cardinality(Load(m)') \in Nat /\ Cardinality(Load(m)) \in Nat
          /\ Cardinality(Load(m)') <= Cardinality(Load(m))
      BY <2>1, <2>2, Smaller
    <2>4. Cardinality(Load(m)) <= BufferSize
      BY <1>1 DEF Settled
    <2>5. Cardinality(Load(m))' <= BufferSize
      BY <1>3, <2>3, <2>4
    <2> QED
      BY <1>4, <2>5
  <1>6. CASE Cardinality(Load(m) \cup S) <= BufferSize
    <2>1. Load(m)' \subseteq Load(m) \cup S
      BY <1>1, <1>2, <1>3 DEF Load, Holds
    <2>2. S \subseteq PktIDs /\ Load(m) \subseteq PktIDs
      <3>1. \A p \in S : p \in Known
        BY <1>1 DEF Stored
      <3>2. Known' \subseteq PktIDs /\ Known' = Known
        BY RoutingAssumption, FWFrame DEF IInv, NetOK, Known, PktIDs
      <3> QED
        BY <3>1, <3>2 DEF Load
    <2>3. PICK T : T = Load(m) \cup S
      OBVIOUS
    <2>4. T \in SUBSET PktIDs /\ Load(m)' \subseteq T /\ Cardinality(T) <= BufferSize
      BY <1>6, <2>1, <2>2, <2>3
    <2>5. /\ Cardinality(Load(m)') \in Nat /\ Cardinality(T) \in Nat
          /\ Cardinality(Load(m)') <= Cardinality(T)
      BY <2>4, Smaller
    <2>6. Cardinality(Load(m))' <= BufferSize
      BY <1>3, <2>4, <2>5
    <2> QED
      BY <1>4, <2>6
  <1> QED
    BY <1>5, <1>6

\* ... those that are handed over have room, for nothing else is on its way
\* to be carried on by the receiver.
LEMMA HandsSettled ==
    ASSUME IInv, IInv', SetOK, Stored, Stored', Talk, Settled, Frame, KeepsToStorage,
           NEW r, Decides(r), NEW out, NEW useless, Hands(r, out, useless)
    PROVE  \A x \in Nodes : Cardinality(Load(x))' <= BufferSize
  <1>1. PICK m : m = pool[Top.id].prev
    OBVIOUS
  <1>2. PICK S \in filterPackets(r, out, useless) : S \subseteq out /\ Sends(r, m, S, {})
    BY <1>1 DEF Hands
  <1>3. /\ pool[Top.id].type # "DATA" /\ pool[Top.id].type \notin Asking /\ Receiving(r)
        /\ pool[Top.id].type \notin {"REQUEST_BUFFER_INFO", "BUFFER_INFO"}
    BY DEF Decides, Asking
  <1>4. /\ Phrase(pool[Top.id]) /\ pool[Top.id].next = r /\ r \in Nodes /\ m \in Nodes
        /\ DataIDs # DOMAIN pool
    BY <1>1, <1>3, Heard
  <1>5. Understood(r, m)
    BY <1>1, <1>3, <1>4 DEF Phrase, Asker, Asked
  <1>6. needsBufferInformation
    BY DEF KeepsToStorage, needsBufferInformation
  <1>7. PICK i \in Info : information[r] = {i} /\ Cardinality(buffer[m]) <= i.length
    BY <1>5, <1>6 DEF Understood
  <1>8. BufferSize \in Nat /\ i.size \in 0..BufferSize /\ i.length \in 0..BufferSize
    BY FWSettings DEF Info
  <1>9. buffer[m] \in SUBSET PktIDs /\ buffer[r] \in SUBSET PktIDs
    BY <1>4 DEF IInv, DataOK
  <1>10. Cardinality(S) \in Nat /\ Cardinality(S) <= remainingStorage(i)
    <2>1. out \in SUBSET PktIDs
      BY <1>9 DEF Hands, Alive
    <2> QED
      BY <1>2, <1>7, <1>8, <2>1, FilterSize
  <1>11. Load(m) \subseteq buffer[m]
    <2>1. \A id \in DataIDs : \A p \in pool[id].ids : origin[p].dst = pool[id].next
      BY <1>4 DEF Stored
    <2> QED
      BY <2>1 DEF Load, Holds, Coming
  <1>12. /\ IsFiniteSet(Load(m)) /\ IsFiniteSet(S) /\ Cardinality(Load(m)) \in Nat
         /\ Cardinality(buffer[m]) \in Nat /\ Cardinality(Load(m)) <= Cardinality(buffer[m])
         /\ Cardinality(Load(m)) <= BufferSize
    <2>1. Load(m) \in SUBSET PktIDs /\ S \in SUBSET PktIDs
      BY <1>2, <1>9, <1>11 DEF Sends
    <2> QED
      BY <1>4, <1>9, <1>11, <2>1, Smaller, PktFacts DEF Settled
  <1>13. Cardinality(Load(m) \cup S) \in Nat
         /\ Cardinality(Load(m) \cup S) <= Cardinality(Load(m)) + Cardinality(S)
    <2>1. PICK common : common = Cardinality(Load(m) \cap S)
      OBVIOUS
    <2>2. common \in Nat /\ Cardinality(Load(m) \cup S) \in Nat
      <3>1. IsFiniteSet(Load(m) \cap S) /\ IsFiniteSet(Load(m) \cup S)
        BY <1>12, FS_Intersection, FS_Union
      <3> QED
        BY <2>1, <3>1, FS_CardinalityType
    <2>3. Cardinality(Load(m) \cup S) = Cardinality(Load(m)) + Cardinality(S) - common
      BY <1>12, <2>1, FS_Union
    <2> QED
      BY <1>10, <1>12, <2>2, <2>3
  <1>14. Cardinality(Load(m) \cup S) <= BufferSize
    BY <1>7, <1>8, <1>10, <1>12, <1>13 DEF remainingStorage
  <1> QED
    BY <1>2, <1>14, SendsSettled

\* A data packet that is read was on its way.
LEMMA ReadsSettled ==
    ASSUME IInv, IInv', SetOK, Stored, Stored', Settled, Frame, KeepsToStorage,
           NEW r, Reads(r)
    PROVE  \A x \in Nodes : Cardinality(Load(x))' <= BufferSize
  <1>1. /\ r \in Nodes /\ buffer \in [Nodes -> SUBSET PktIDs]
        /\ Receiving(r) /\ pool[Top.id].type = "DATA" /\ Access(Top.id, RestAfter(r))
    BY TopFacts DEF Reads, IInv, DataOK
  <1>2. /\ Top.id \in DataIDs /\ Awaiting(evlist, Top.id, r)
        /\ \A x, p : Coming(x, p)' => Coming(x, p)
    BY <1>1, ReadView
  <1>3. origin' = origin /\ UNCHANGED Set
    BY FWFrame DEF Frame
  <1>4. \A x \in Nodes : \A p \in buffer'[x] : Holds(x, p)
    <2>1. CASE buffer' = buffer
      BY <2>1 DEF Holds
    <2>2. ASSUME NEW q \in pool[Top.id].ids, Relayed(r, q)
          PROVE  \A x \in Nodes : \A p \in buffer'[x] : Holds(x, p)
      <3>1. PICK b \in Added(buffer[r], q) : buffer' = [buffer EXCEPT ![r] = b]
        BY <2>2 DEF Relayed
      <3>2. b \subseteq buffer[r] \cup {q}
        BY DEF Added, Alive
      <3>3. Coming(r, q)
        BY <1>2, <2>2 DEF Relayed, Coming
      <3>4. \A x \in Nodes : buffer'[x] = IF x = r THEN b ELSE buffer[x]
        BY <1>1, <3>1
      <3> QED
        BY <3>2, <3>3, <3>4 DEF Holds
    <2> QED
      BY <2>1, <2>2 DEF Reads, Overheard, Delivered
  <1>5. \A x \in Nodes : \A p : Holds(x, p)' => Holds(x, p)
    BY <1>2, <1>4 DEF Holds
  <1> QED
    BY <1>3, <1>5, LighterSettled

LEMMA SettledNext == IInv /\ SetOK /\ Stored /\ Talk /\ Settled /\ [FWNext]_fwVars => Settled'
  <1> SUFFICES ASSUME IInv, SetOK, Stored, Talk, Settled, [FWNext]_fwVars, KeepsToStorage'
               PROVE  \A x \in Nodes : Cardinality(Load(x))' <= BufferSize'
    BY DEF Settled
  <1>1. /\ IInv' /\ Stored' /\ UNCHANGED Set
    BY InvNext, StoredNext DEF FWNext, fwVars, ccVars, vars
  <1>2. BufferSize' = BufferSize /\ KeepsToStorage
    BY <1>1 DEF BufferSize, KeepsToStorage, CongestionControl
  <1> DEFINE Goal == \A x \in Nodes : Cardinality(Load(x))' <= BufferSize
  <1>3. ASSUME UNCHANGED <<evlist, pool, buffer, origin>> PROVE Goal
    <2>1. \A x, p : (Holds(x, p)' <=> Holds(x, p)) /\ origin' = origin
      BY <1>3 DEF Holds, Coming, DataIDs, IsData, Awaiting
    <2> QED
      BY <1>1, <1>2, <2>1, LighterSettled
  <1>4. ASSUME Unmoved PROVE Goal
    <2>1. /\ \A n, q : ~Coming(n, q) /\ ~Coming(n, q)'
          /\ UNCHANGED <<buffer, origin>>
      BY <1>1, <1>4, UnmovedStored DEF Unmoved
    <2>2. \A x, p : (Holds(x, p)' <=> Holds(x, p)) /\ origin' = origin
      BY <2>1 DEF Holds
    <2> QED
      BY <1>1, <1>2, <2>2, LighterSettled
  <1>5. ASSUME NEW p, NewPacket(p) PROVE Goal
    <2>1. \A x, q : ~Coming(x, q)'
      BY <1>1, <1>5, NewPacketStored
    <2>2. BufferSize # 0 /\ BufferSize \in Nat
      BY <1>2, FWSettings DEF KeepsToStorage, needsBufferInformation
    <2>3. ASSUME NEW x \in Nodes PROVE Cardinality(Load(x))' <= BufferSize
      <3>1. Load(x)' \subseteq buffer'[x]
        BY <2>1 DEF Load, Holds
      <3>2. Cardinality(buffer'[x]) <= BufferSize
        BY <1>1, <1>2, <2>2 DEF Stored
      <3>3. buffer'[x] \in SUBSET PktIDs
        BY <1>1 DEF IInv, DataOK, PktIDs
      <3>4. /\ Cardinality(Load(x)') \in Nat /\ Cardinality(buffer'[x]) \in Nat
            /\ Cardinality(Load(x)') <= Cardinality(buffer'[x])
        BY <3>1, <3>3, Smaller
      <3>5. Cardinality(Load(x)') <= BufferSize
        BY <2>2, <3>2, <3>4
      <3> QED
        BY <3>5
    <2> QED
      BY <2>3
  <1>6. ASSUME Frame, NEW n, NEW m, NEW S, NEW C, Sends(n, m, S, C),
               \A p \in S : origin[p].dst = m
        PROVE  Goal
    BY <1>1, <1>2, <1>6, SendsSettled
  <1>7. ASSUME Frame, NEW r, NEW out, NEW useless, Decides(r), Hands(r, out, useless)
        PROVE  Goal
    BY <1>1, <1>2, <1>7, HandsSettled
  <1>8. ASSUME Frame, NEW r, Reads(r) PROVE Goal
    BY <1>1, <1>2, <1>8, ReadsSettled
  <1>9. ASSUME Frame, Stops PROVE Goal
    BY <1>3, <1>9, FWFrame DEF Stops
  <1>10. ASSUME UNCHANGED fwVars PROVE Goal
    <2>1. UNCHANGED <<evlist, pool, buffer, origin>>
      BY <1>10 DEF fwVars, ccVars, vars, netVars, msgVars
    <2> QED
      BY <1>3, <2>1
  <1>11. ASSUME FWNext PROVE Goal
    <2>1. Kind
      BY <1>11, NextKind
    <2> HIDE DEF Goal
    <2> QED
      BY <1>4, <1>5, <1>6, <1>7, <1>8, <1>9, <2>1 DEF Kind
  <1> QED
    BY <1>2, <1>10, <1>11

LEMMA SettledInit == FWInit => Settled
  <1> SUFFICES ASSUME FWInit, KeepsToStorage, NEW n \in Nodes
               PROVE  Cardinality(Load(n)) <= BufferSize
    BY DEF Settled
  <1>1. /\ DOMAIN pool = {} /\ buffer[n] = {}
    BY DEF FWInit, CCInit, Init
  <1>2. Load(n) = {}
    BY <1>1 DEF Load, Holds, Coming, DataIDs
  <1>3. BufferSize \in Nat
    BY FWSettings DEF FWInit, CCInit, Init, SetOK
  <1> QED
    BY <1>2, <1>3, FS_EmptySet

\* The invariant of congestion control: a mechanism that keeps to the remaining
\* storage never has more on its way to a node than that has room for.
THEOREM RoomForAll == FWSpec => []Settled
  <1>1. FWInit => Settled
    BY SettledInit
  <1>2. IInv /\ SetOK /\ Stored /\ Talk /\ Settled /\ [FWNext]_fwVars => Settled'
    BY SettledNext
  <1> QED
    BY <1>1, <1>2, Invariance, SettingsKept, OnePlace, Talking, PTL DEF FWSpec

\* The receiver of a packet has a place for it.
LEMMA RoomForOne ==
    ASSUME IInv, SetOK, Stored, Settled, KeepsToStorage, NEW r \in Nodes, NEW q,
           Coming(r, q), origin[q].dst # r
    PROVE  ~isFull(Alive(buffer[r]))
  <1> DEFINE live == Alive(buffer[r])
  <1>1. /\ live \in SUBSET PktIDs /\ live \subseteq buffer[r] /\ q \notin live
        /\ q \in PktIDs
    <2>1. q \in Known /\ q \notin buffer[r]
      BY HoldsKnown DEF Holds, Coming, Stored
    <2>2. Known \subseteq PktIDs /\ buffer[r] \in SUBSET PktIDs
      BY RoutingAssumption DEF IInv, NetOK, DataOK, Known, PktIDs
    <2> QED
      BY <2>1, <2>2 DEF Alive
  <1>2. live \cup {q} \subseteq Load(r)
    <2>1. \A p \in live : p \in Load(r)
      BY <1>1 DEF Load, Holds, Stored
    <2> QED
      BY <1>1, <2>1 DEF Load, Holds
  <1>3. IsFiniteSet(live) /\ Cardinality(live) \in Nat
    BY <1>1, PktFacts
  <1>4. Cardinality(live \cup {q}) = Cardinality(live) + 1
    BY <1>1, <1>3, FS_AddElement
  <1>5. Load(r) \in SUBSET PktIDs
    BY DEF Load
  <1>6. Cardinality(live \cup {q}) <= Cardinality(Load(r)) /\ Cardinality(Load(r)) \in Nat
    BY <1>2, <1>5, Smaller
  <1>7. Cardinality(Load(r)) <= BufferSize /\ BufferSize \in Nat
    BY FWSettings DEF Settled
  <1> HIDE DEF live
  <1>8. Cardinality(live) # BufferSize
    BY <1>3, <1>4, <1>6, <1>7
  <1> QED
    BY <1>8 DEF live, isFull

\* No packet is dropped for one that a mechanism has let through: although the
\* storage is asked for long before, there is room when the packets arrive.
THEOREM NoOverflow == FWSpec => AvoidsOverflow
  <1> DEFINE Step ==
         (CongestionControl \in {"AVOIDOVERFLOW", "ACC", "BSA", "CACC"}
            /\ TopIs("TX") /\ Top.id \in DOMAIN pool /\ pool[Top.id].type = "DATA")
          => \A n \in Nodes : Alive(buffer[n]) \subseteq buffer'[n]
  <1>1. IInv /\ SetOK /\ Stored /\ Settled /\ [FWNext]_fwVars => [Step]_fwVars
    <2> SUFFICES ASSUME IInv, SetOK, Stored, Settled, FWNext, KeepsToStorage,
                        TopIs("TX"), Top.id \in DOMAIN pool, pool[Top.id].type = "DATA",
                        NEW n \in Nodes
                 PROVE  Alive(buffer[n]) \subseteq buffer'[n]
      BY DEF KeepsToStorage
    <2>1. UNCHANGED Set /\ Alive(buffer[n]) \subseteq buffer[n]
      BY DEF FWNext, Alive
    <2>2. CASE buffer' = buffer
      BY <2>1, <2>2
    <2>3. CASE FWEnvironment
      BY <2>1, <2>2, <2>3, EnvironmentUnmoved DEF Unmoved
    <2>4. CASE FWContactUp
      BY <2>4 DEF FWContactUp, TopIs
    <2>5. CASE ContactDown
      BY <2>5 DEF ContactDown, TopIs
    <2>6. CASE RecvFromApp
      BY <2>6 DEF RecvFromApp, TopIs
    <2>7. CASE Receive
      <3>1. PICK r \in Top.rcv : Receiving(r) /\ recv(r, Top.id, pool[Top.id], RestAfter(r))
        BY <2>7, Received
      <3>2. ReceptionData(r, Top.id, pool[Top.id], RestAfter(r))
        BY <3>1 DEF recv, ReceptionBufferReq, ReceptionBufferRsp, ReceptionRequestContacts,
           ReceptionDPT, ReceptionContacts, ReceptionMetricsPerDest, ReceptionReqForDest,
           ReceptionReqLCandFS, ReceptionLCandFS, ReceptionBubbleSummary,
           ReceptionRequestVector
      <3>3. Reads(r) \/ Stops
        BY <3>1, <3>2, DataReads
      <3>4. ASSUME NEW q \in pool[Top.id].ids, Reads(r), Relayed(r, q)
            PROVE  Alive(buffer[n]) \subseteq buffer'[n]
        <4>1. /\ r \in Nodes /\ buffer \in [Nodes -> SUBSET PktIDs]
              /\ Receiving(r) /\ Access(Top.id, RestAfter(r))
          BY <3>4, TopFacts DEF Reads, IInv, DataOK
        <4>2. Top.id \in DataIDs /\ Awaiting(evlist, Top.id, r)
          BY <4>1, ReadView
        <4>3. Coming(r, q) /\ origin[q].dst # r
          BY <3>4, <4>2 DEF Relayed, Coming
        <4>4. ~isFull(Alive(buffer[r]))
          BY <4>1, <4>3, RoomForOne
        <4>5. PICK b \in Added(buffer[r], q) : buffer' = [buffer EXCEPT ![r] = b]
          BY <3>4 DEF Relayed
        <4>6. Alive(buffer[r]) \subseteq b
          BY <4>4 DEF Added
        <4>7. buffer'[n] = IF n = r THEN b ELSE buffer[n]
          BY <4>1, <4>5
        <4> QED
          BY <2>1, <4>6, <4>7
      <3> QED
        BY <2>2, <3>3, <3>4 DEF Reads, Overheard, Delivered, Stops
    <2> QED
      BY <2>3, <2>4, <2>5, <2>6, <2>7 DEF FWNext
  <1> QED
    BY <1>1, Invariance, SettingsKept, OnePlace, RoomForAll, PTL DEF FWSpec, AvoidsOverflow

-----------------------------------------------------------------------------
(* The types of the utilities.                                             *)

\* The betweenness of a node is a natural number: the owner of a graph is on
\* one of the paths between any two of its contacts, so none is divided by 0.
LEMMA BetweennessType ==
    ASSUME NEW g \in [Nodes -> SUBSET Nodes], NEW n \in Nodes
    PROVE  UpdateBetweenness(g, n) \in Nat
  <1> DEFINE T == {pair \in kSubset(2, g[n]) : \A x \in pair : pair \cap g[x] = {}}
  <1> DEFINE share(pair) ==
        Whole(DOMAIN g) \div Cardinality({x \in DOMAIN g : pair \subseteq g[x]})
  <1>1. IsFiniteSet(Nodes) /\ DOMAIN g = Nodes
    BY RoutingAssumption
  <1>2. IsFiniteSet(T)
    <2>1. IsFiniteSet(SUBSET Nodes)
      BY <1>1, FS_SUBSET
    <2>2. T \subseteq SUBSET Nodes
      BY DEF kSubset
    <2> QED
      BY <2>1, <2>2, FS_Subset
  <1>3. ASSUME NEW pair \in T PROVE share(pair) \in Nat
    <2>1. PICK w \in Nat : w = Whole(DOMAIN g)
      <3>1. Cardinality(Nodes) \in Nat
        BY <1>1, FS_CardinalityType
      <3>2. IsFiniteSet(1..Cardinality(Nodes)) /\ 1..Cardinality(Nodes) \subseteq Nat
        BY <3>1, FS_Interval
      <3> QED
        BY <1>1, <3>2, ProductType DEF Whole
    <2>2. PICK paths \in SUBSET Nodes : paths = {x \in DOMAIN g : pair \subseteq g[x]}
      BY <1>1
    <2>3. n \in paths
      BY <1>1, <2>2 DEF kSubset
    <2>4. IsFiniteSet(paths) /\ Cardinality(paths) \in Nat
      BY <1>1, FS_Subset, FS_CardinalityType
    <2>5. Cardinality(paths) # 0
      BY <2>3, <2>4, FS_EmptySet
    <2>6. w \div Cardinality(paths) \in Nat
      BY <2>4, <2>5
    <2> QED
      BY <2>1, <2>2, <2>6
  <1> DEFINE f == [pair \in T |-> share(pair)]
  <1>4. \A x \in T : f[x] \in Nat /\ f[x] \in Int /\ f[x] = share(x)
    BY <1>3
  <1> HIDE DEF share, f
  <1> DEFINE Sums(k) == k = [s \in SUBSET T |-> IF s = {} THEN 0
                              ELSE share(CHOOSE x \in s : TRUE) + k[s \ {CHOOSE x \in s : TRUE}]]
  <1>5. \A k : Adds(f, T, k) <=> Sums(k)
    <2>1. \A s \in SUBSET T : s # {} => f[Pick(s)] = share(CHOOSE x \in s : TRUE)
      BY <1>4 DEF Pick
    <2>2. ASSUME NEW k
          PROVE  [s \in SUBSET T |-> IF s = {} THEN 0 ELSE f[Pick(s)] + k[s \ {Pick(s)}]]
               = [s \in SUBSET T |-> IF s = {} THEN 0
                    ELSE share(CHOOSE x \in s : TRUE) + k[s \ {CHOOSE x \in s : TRUE}]]
      <3> HIDE DEF T
      <3>1. \A s : Pick(s) = CHOOSE x \in s : TRUE
        BY DEF Pick
      <3>2. \A s \in SUBSET T : s # {} =>
               f[Pick(s)] + k[s \ {Pick(s)}]
             = share(CHOOSE x \in s : TRUE) + k[s \ {CHOOSE x \in s : TRUE}]
        BY <2>1, <3>1, Zenon
      <3> QED
        BY <3>2
    <2> QED
      BY <2>2, Zenon DEF Adds
  <1>6. \E k : Sums(k)
    <2>1. \E k : Adds(f, T, k)
      <3> HIDE DEF T
      <3> QED
        BY <1>2, <1>4, AddsExists
    <2> HIDE DEF T, Sums
    <2> QED
      BY <1>5, <2>1
  <1>7. PICK h : h = CHOOSE k : Sums(k)
    OBVIOUS
  <1>8. Sums(h)
    <2> HIDE DEF Sums
    <2> QED
      BY <1>6, <1>7, Zenon
  <1>9. UpdateBetweenness(g, n) = h[T]
    BY <1>7 DEF UpdateBetweenness, MapThenSumSet, MapThenFoldSet, share
  <1>10. Adds(f, T, h)
    BY <1>5, <1>8
  <1> HIDE DEF T, Sums
  <1>11. h[T] \in Nat
    BY <1>2, <1>4, <1>10, AddsFacts
  <1> QED
    BY <1>9, <1>11

LEMMA MetricsType ==
    ASSUME NEW g \in [Nodes -> SUBSET Nodes], NEW n \in Nodes
    PROVE  Metrics(g, n) \in Metric
  <1>1. \A d \in Nodes : CalculateSimilarity(g, n, d) \in Nat
    <2>1. IsFiniteSet(Nodes)
      BY RoutingAssumption
    <2>2. \A d \in Nodes : Cardinality(g[n] \cap g[d]) \in Nat
      BY <2>1, FS_Subset, FS_CardinalityType
    <2> QED
      BY <2>2 DEF CalculateSimilarity
  <1>2. DOMAIN g = Nodes
    OBVIOUS
  <1> QED
    BY <1>1, <1>2, BetweennessType DEF Metrics, Metric

\* Packets are for the destinations that nodes have utilities for.
Addressed ==
    /\ \A p \in Known : origin[p].dst \in Destinations
    /\ \A i \in 1..Len(evlist) : evlist[i].ev = "APP" => evlist[i].b \in Destinations

Tables ==
    /\ graph \in [Nodes -> [Nodes -> SUBSET Nodes]]
    /\ ego \in [Nodes -> Metric]
    /\ community \in [Nodes -> SUBSET Destinations]

\* Every message has the form that its reader takes it to have.
Worded == \A id \in DOMAIN pool : pool[id].type \notin Types => IsAnswer(pool[id])

Typed == Addressed /\ Tables /\ Worded

LEMMA AnswerFacts ==
    ASSUME NEW type, NEW B, NEW pkt \in Answer({type}, B)
    PROVE  pkt.type = type /\ pkt.body \in B
  BY DEF Answer

\* What a reader may rely on.
LEMMA BodyFacts ==
    ASSUME NEW pkt, IsAnswer(pkt)
    PROVE  /\ pkt.type = "CONTACTS" => pkt.body \in SUBSET Nodes
           /\ pkt.type = "DEST" => pkt.body \in [dests : SUBSET Destinations, metrics : Metric]
           /\ pkt.type = "BUBBLE_SUMMARY" => pkt.body \in [ids : SUBSET PktIDs, carrier : Bubble]
  <1>1. \A type, B : pkt \in Answer({type}, B) => pkt.type = type /\ pkt.body \in B
    BY AnswerFacts
  <1> DEFINE contact == SUBSET Nodes
  <1> DEFINE dest == [dests : SUBSET Destinations, metrics : Metric]
  <1> DEFINE bubble == [ids : SUBSET PktIDs, carrier : Bubble]
  <1>2. \/ pkt \in Answer({"CONTACTS"}, contact)
        \/ pkt \in Answer({"DEST"}, dest)
        \/ pkt \in Answer({"BUBBLE_SUMMARY"}, bubble)
        \/ \E B : \E type \in {"BUFFER_INFO", "DEST_PREDICT", "REQ_DEST", "LC_FS",
                                 "MARKED_REQUEST_PKTS"} : pkt \in Answer({type}, B)
    BY DEF IsAnswer
  <1> HIDE DEF contact, dest, bubble
  <1>3. /\ pkt.type = "CONTACTS" => pkt.body \in contact
        /\ pkt.type = "DEST" => pkt.body \in dest
        /\ pkt.type = "BUBBLE_SUMMARY" => pkt.body \in bubble
    <2>1. CASE pkt \in Answer({"CONTACTS"}, contact)
      <3>1. pkt.type = "CONTACTS" /\ pkt.body \in contact
        BY <1>1, <2>1, Zenon
      <3> QED
        BY <3>1
    <2>2. CASE pkt \in Answer({"DEST"}, dest)
      <3>1. pkt.type = "DEST" /\ pkt.body \in dest
        BY <1>1, <2>2, Zenon
      <3> QED
        BY <3>1
    <2>3. CASE pkt \in Answer({"BUBBLE_SUMMARY"}, bubble)
      <3>1. pkt.type = "BUBBLE_SUMMARY" /\ pkt.body \in bubble
        BY <1>1, <2>3, Zenon
      <3> QED
        BY <3>1
    <2>4. ASSUME NEW B, NEW type \in {"BUFFER_INFO", "DEST_PREDICT", "REQ_DEST", "LC_FS",
                                      "MARKED_REQUEST_PKTS"}, pkt \in Answer({type}, B)
          PROVE  pkt.type \notin {"CONTACTS", "DEST", "BUBBLE_SUMMARY"}
      <3>1. pkt.type = type
        BY <1>1, <2>4, Zenon
      <3> QED
        BY <3>1
    <2> QED
      BY <1>2, <2>1, <2>2, <2>3, <2>4
  <1> QED
    BY <1>3 DEF contact, dest, bubble

LEMMA ReplyAnswers ==
    ASSUME NEW type, NEW B, NEW body \in B, NEW n \in Nodes, NEW m \in Nodes
    PROVE  Reply(type, n, m, body) \in Answer({type}, B)
  BY DEF Reply, Answer

LEMMA FormKept ==
    ASSUME BufferSize' = BufferSize, NEW pkt, IsAnswer(pkt)
    PROVE  IsAnswer(pkt)'
  BY DEF IsAnswer, Answer, Metric, Bubble, Ranks, Destinations, PktIDs

LEMMA SendsWorded ==
    ASSUME Worded, Frame, NEW n, NEW m, NEW S, NEW C, Sends(n, m, S, C),
           \A pkt \in C : pkt.type \notin Types => IsAnswer(pkt)
    PROVE  Worded'
  <1> SUFFICES ASSUME NEW id \in DOMAIN pool', pool'[id].type \notin Types
               PROVE  IsAnswer(pool[id])'
    BY DEF Worded
  <1>1. PICK pkt : pkt = pool'[id]
    OBVIOUS
  <1>2. IsAnswer(pkt)
    <2>1. CASE id \in DataIDs
      <3>1. pool'[id] = pool[id] /\ id \in DOMAIN pool
        BY <2>1 DEF Sends, DataIDs
      <3> QED
        BY <1>1, <3>1 DEF Worded
    <2>2. CASE id \notin DataIDs
      <3>1. pool'[id] \in C \/ pool'[id].type = "DATA"
        BY <2>2 DEF Sends, DataOf
      <3> QED
        BY <1>1, <3>1, TypeFacts
    <2> QED
      BY <2>1, <2>2
  <1>3. IsAnswer(pkt)'
    BY <1>2, FWFrame, FormKept
  <1> QED
    BY <1>1, <1>3 DEF IsAnswer

\* After an answer.
LEMMA SaysWorded ==
    ASSUME IInv, Worded, Frame, NEW r, Receiving(r), pool[Top.id].type # "DATA",
           NEW type, NEW body, Says(r, type, body),
           \A m \in Nodes : IsAnswer(Reply(type, r, m, body))
    PROVE  Worded'
  <1>1. pool[Top.id].prev \in Nodes
    BY ControlFacts
  <1>2. PICK pkt : pkt = Reply(type, r, pool[Top.id].prev, body)
    OBVIOUS
  <1>3. IsAnswer(pkt)
    BY <1>1, <1>2
  <1>4. PICK S, C : S = {} /\ C = {pkt}
    OBVIOUS
  <1>5. Sends(r, pool[Top.id].prev, S, C) /\ \A q \in C : IsAnswer(q)
    BY <1>2, <1>3, <1>4 DEF Says
  <1> QED
    BY <1>5, SendsWorded

\* After packets were handed over.
LEMMA HandsWorded ==
    ASSUME Worded, Frame, NEW r, NEW out, NEW useless, Hands(r, out, useless)
    PROVE  Worded'
  <1>1. PICK S, C : C = {} /\ Sends(r, pool[Top.id].prev, S, C)
    BY DEF Hands
  <1>2. \A q \in C : FALSE
    BY <1>1
  <1> QED
    BY <1>1, <1>2, SendsWorded

LEMMA StopsWorded ==
    ASSUME Worded, UNCHANGED <<Set, pool>>
    PROVE  Worded'
  <1> SUFFICES ASSUME NEW id \in DOMAIN pool', pool'[id].type \notin Types
               PROVE  IsAnswer(pool[id])'
    BY DEF Worded
  <1>1. PICK pkt : pkt = pool'[id]
    OBVIOUS
  <1>2. IsAnswer(pkt)'
    <2>1. BufferSize' = BufferSize
      BY DEF BufferSize
    <2>2. IsAnswer(pkt)
      BY <1>1 DEF Worded
    <2> QED
      BY <2>1, <2>2, FormKept
  <1> QED
    BY <1>1, <1>2 DEF IsAnswer

LEMMA TablesKept ==
    ASSUME Tables, UNCHANGED <<graph, ego, community>>
    PROVE  Tables'
  BY DEF Tables, Destinations, Metric

\* A handler that answers with a body of the right form.
LEMMA AnswerWorded ==
    ASSUME IInv, OneControl, Worded, Frame, NEW r, Receiving(r), pool[Top.id].type # "DATA",
           NEW type, type \notin Types, NEW body,
           Send(<<Reply(type, r, pool[Top.id].prev, body)>>, {Top.id}, RestAfter(r)),
           \/ buffer' = buffer
           \/ buffer' = [buffer EXCEPT ![r] = buffer[r]]
           \/ buffer' = [buffer EXCEPT ![r] = Alive(buffer[r])],
           UNCHANGED <<statVars, halted>>,
           \A m \in Nodes : IsAnswer(Reply(type, r, m, body))
    PROVE  Worded'
  <1>1. Says(r, type, body)
    BY ReplySays
  <1> QED
    BY <1>1, SaysWorded

LEMMA BufferReqTyped ==
    ASSUME IInv, SetOK, Stored, Talk, Tables, Worded, Frame, NEW r, Receiving(r),
           ReceptionBufferReq(r, Top.id, pool[Top.id], RestAfter(r)), UNCHANGED utilVars
    PROVE  Tables' /\ Worded'
  <1>1. Talk' /\ Stored
    BY BufferReqTalk DEF utilVars
  <1>2. /\ pool[Top.id].type = "REQUEST_BUFFER_INFO"
        /\ \E size \in AdvertisedSizes :
              Says(r, "BUFFER_INFO", [size |-> size, length |-> Cardinality(buffer[r])])
    BY BufferReqSays DEF Stored
  <1>3. PICK body, size, length :
           Says(r, "BUFFER_INFO", body) /\ body = [size |-> size, length |-> length]
    BY <1>2
  <1>4. PICK pkt, m : /\ m = pool[Top.id].prev /\ pkt = Reply("BUFFER_INFO", r, m, body)
                      /\ Sends(r, m, {}, {pkt})
    BY <1>3 DEF Says
  <1>5. PICK id \in DOMAIN pool' : pool'[id] = pkt
    BY <1>4 DEF Sends
  <1>6. pkt.type = "BUFFER_INFO" /\ pkt.body = body
    BY <1>4 DEF Reply
  <1>7. Phrase(pool[id])'
    BY <1>1, <1>5, <1>6 DEF Talk, DataIDs, IsData
  <1>8. pkt.body.size \in 0..BufferSize' /\ pkt.body.length \in 0..BufferSize'
    BY <1>5, <1>6, <1>7 DEF Phrase, TruePhrase
  <1>9. body \in [size : 0..BufferSize, length : 0..BufferSize]
    BY <1>3, <1>6, <1>8, FWFrame
  <1>10. r \in Nodes
    BY TopFacts
  <1>11. \A q \in Nodes : IsAnswer(Reply("BUFFER_INFO", r, q, body))
    BY <1>9, <1>10, ReplyAnswers DEF IsAnswer
  <1>12. Worded'
    BY <1>2, <1>3, <1>11, SaysWorded
  <1> QED
    BY <1>12, TablesKept DEF utilVars

LEMMA BufferRspTyped ==
    ASSUME IInv, SetOK, Stored, Talk, Tables, Worded, Frame, NEW r, Receiving(r),
           ReceptionBufferRsp(r, Top.id, pool[Top.id], RestAfter(r)), UNCHANGED utilVars
    PROVE  Tables' /\ Worded'
  <1>1. pool[Top.id].type = "BUFFER_INFO"
    BY DEF ReceptionBufferRsp
  <1>2. Phrase(pool[Top.id])
    BY <1>1, Heard
  <1>3. RT \in {"PROPHET", "SIMBET"}
    BY <1>1, <1>2, FWSettings DEF Phrase
  <1>4. PICK pkt, m : /\ pkt = Control("REQUEST_CONTACTS", r, m, {})
                      /\ Sends(r, m, {}, {pkt})
    BY <1>3, BufferRspSends DEF Stored
  <1>5. pkt.type \in Types
    BY <1>4 DEF Control, Types
  <1>6. PICK C : C = {pkt}
    OBVIOUS
  <1>7. \A q \in C : q.type \notin Types => IsAnswer(q)
    BY <1>5, <1>6
  <1>8. Worded'
    BY <1>4, <1>6, <1>7, SendsWorded
  <1> QED
    BY <1>8, TablesKept DEF utilVars

LEMMA RequestContactsTyped ==
    ASSUME IInv, SetOK, Stored, Talk, Tables, Worded, Frame, NEW r, Receiving(r),
           ReceptionRequestContacts(r, Top.id, pool[Top.id], RestAfter(r))
    PROVE  Tables' /\ Worded'
  <1>1. /\ pool[Top.id].type = "REQUEST_CONTACTS"
        /\ Send(<<IF RT = "PROPHET" THEN Reply("DEST_PREDICT", r, pool[Top.id].prev, dpt[r])
                  ELSE Reply("CONTACTS", r, pool[Top.id].prev, graph[r][r])>>,
                {Top.id}, RestAfter(r))
        /\ UNCHANGED <<buffer, statVars, halted, graph, ego, community>>
    BY DEF ReceptionRequestContacts, utilVars
  <1>2. OneControl /\ r \in Nodes
    BY TopFacts DEF Stored
  <1>3. CASE RT = "PROPHET"
    <2>1. PICK body : body = dpt[r]
      OBVIOUS
    <2>2. \A m \in Nodes : IsAnswer(Reply("DEST_PREDICT", r, m, body))
      <3>1. body \in [Destinations -> Ranks]
        BY <1>2, <2>1 DEF Talk
      <3> QED
        BY <1>2, <3>1, ReplyAnswers DEF IsAnswer
    <2>3. Send(<<Reply("DEST_PREDICT", r, pool[Top.id].prev, body)>>, {Top.id}, RestAfter(r))
      BY <1>1, <1>3, <2>1
    <2>4. Worded'
      BY <1>1, <1>2, <2>2, <2>3, AnswerWorded, ReplyTypes
    <2> QED
      BY <1>1, <2>4, TablesKept
  <1>4. CASE RT # "PROPHET"
    <2>1. PICK body : body = graph[r][r]
      OBVIOUS
    <2>2. \A m \in Nodes : IsAnswer(Reply("CONTACTS", r, m, body))
      <3>1. body \in SUBSET Nodes
        BY <1>2, <2>1 DEF Tables
      <3> QED
        BY <1>2, <3>1, ReplyAnswers DEF IsAnswer
    <2>3. Send(<<Reply("CONTACTS", r, pool[Top.id].prev, body)>>, {Top.id}, RestAfter(r))
      BY <1>1, <1>4, <2>1
    <2>4. Worded'
      BY <1>1, <1>2, <2>2, <2>3, AnswerWorded, ReplyTypes
    <2> QED
      BY <1>1, <2>4, TablesKept
  <1> QED
    BY <1>3, <1>4

\* What the control packet on top carries.
LEMMA HeardForm ==
    ASSUME IInv, Worded, NEW r, Receiving(r), pool[Top.id].type \notin Types
    PROVE  IsAnswer(pool[Top.id])
  BY TopFacts DEF Worded

LEMMA ContactsTyped ==
    ASSUME IInv, SetOK, Stored, Typed, Frame, NEW r, Receiving(r),
           ReceptionContacts(r, Top.id, pool[Top.id], RestAfter(r))
    PROVE  Tables' /\ Worded'
  <1> DEFINE live == Alive(buffer[r])
  <1>1. PICK g, mine :
           /\ g = SetConnections(graph[r], pool[Top.id].prev, pool[Top.id].body)
           /\ mine = Metrics(g, r)
    OBVIOUS
  <1>2. PICK dests : dests = {origin[p].dst : p \in live}
    OBVIOUS
  <1>3. PICK body : body = [dests |-> dests, metrics |-> mine]
    OBVIOUS
  <1>4. /\ pool[Top.id].type = "CONTACTS"
        /\ graph' = [graph EXCEPT ![r] = g] /\ ego' = [ego EXCEPT ![r] = mine]
        /\ buffer' = [buffer EXCEPT ![r] = Alive(buffer[r])]
        /\ Send(<<Reply("DEST", r, pool[Top.id].prev, body)>>, {Top.id}, RestAfter(r))
        /\ UNCHANGED <<statVars, halted, community>>
    BY <1>1, <1>2, <1>3 DEF ReceptionContacts
  <1>5. OneControl /\ r \in Nodes /\ Tables /\ Worded /\ Addressed
        /\ pool[Top.id].type # "DATA" /\ pool[Top.id].type \notin Types
    BY <1>4, TopFacts, ReplyTypes DEF Stored, Typed
  <1>6. pool[Top.id].prev \in Nodes /\ pool[Top.id].body \in SUBSET Nodes
    BY <1>4, <1>5, HeardForm, BodyFacts, ControlFacts
  <1>7. g \in [Nodes -> SUBSET Nodes]
    <2>1. graph[r] \in [Nodes -> SUBSET Nodes]
      BY <1>5 DEF Tables
    <2> QED
      BY <1>1, <1>6, <2>1 DEF SetConnections
  <1>8. mine \in Metric
    BY <1>1, <1>5, <1>7, MetricsType
  <1>9. dests \in SUBSET Destinations
    <2>1. \A p \in live : p \in Known
      BY <1>5 DEF Stored, Alive
    <2> QED
      BY <1>2, <1>5, <2>1 DEF Addressed
  <1>10. \A m \in Nodes : IsAnswer(Reply("DEST", r, m, body))
    <2>1. body \in [dests : SUBSET Destinations, metrics : Metric]
      BY <1>3, <1>8, <1>9
    <2> QED
      BY <1>5, <2>1, ReplyAnswers DEF IsAnswer
  <1>11. Worded'
    BY <1>4, <1>5, <1>10, AnswerWorded, ReplyTypes
  <1>12. Tables'
    BY <1>4, <1>5, <1>7, <1>8 DEF Tables, Destinations, Metric
  <1> QED
    BY <1>11, <1>12

LEMMA MetricsTyped ==
    ASSUME IInv, SetOK, Stored, Typed, Frame, NEW r, Receiving(r),
           ReceptionMetricsPerDest(r, Top.id, pool[Top.id], RestAfter(r))
    PROVE  Tables' /\ Worded'
  <1>1. PICK better : better = {d \in pool[Top.id].body.dests :
                                   SimBetBetter(ego[r], pool[Top.id].body.metrics, d)}
    OBVIOUS
  <1>2. PICK body : body = [dests |-> better, sender |-> pool[Top.id].body.metrics,
                            receiver |-> ego[r]]
    OBVIOUS
  <1>3. /\ pool[Top.id].type = "DEST"
        /\ Send(<<Reply("REQ_DEST", r, pool[Top.id].prev, body)>>, {Top.id}, RestAfter(r))
        /\ UNCHANGED <<buffer, statVars, halted, graph, ego, community>>
    BY <1>1, <1>2 DEF ReceptionMetricsPerDest, utilVars
  <1>4. OneControl /\ r \in Nodes /\ Tables /\ Worded
        /\ pool[Top.id].type # "DATA" /\ pool[Top.id].type \notin Types
    BY <1>3, TopFacts, ReplyTypes DEF Stored, Typed
  <1>5. pool[Top.id].body \in [dests : SUBSET Destinations, metrics : Metric]
    BY <1>3, <1>4, HeardForm, BodyFacts
  <1>6. body \in [dests : SUBSET Destinations, sender : Metric, receiver : Metric]
    <2>1. ego[r] \in Metric /\ better \in SUBSET Destinations
      BY <1>1, <1>4, <1>5 DEF Tables
    <2> QED
      BY <1>2, <1>5, <2>1
  <1>7. \A m \in Nodes : IsAnswer(Reply("REQ_DEST", r, m, body))
    BY <1>4, <1>6, ReplyAnswers DEF IsAnswer
  <1>8. Worded'
    BY <1>3, <1>4, <1>7, AnswerWorded, ReplyTypes
  <1> QED
    BY <1>3, <1>4, <1>8, TablesKept

\* The community of a node that has brought its bubble up to date.
LEMMA CommunityTables ==
    ASSUME Tables, NEW r \in Nodes, NEW s \in Bubbles(r),
           community' = [community EXCEPT ![r] = s.lc], UNCHANGED <<graph, ego>>
    PROVE  Tables'
  <1>1. s.lc \in SUBSET Destinations
    BY DEF Bubbles, Bubble
  <1> QED
    BY <1>1 DEF Tables, Destinations, Metric

LEMMA ReqLCandFSTyped ==
    ASSUME IInv, SetOK, Stored, Typed, Frame, NEW r, Receiving(r),
           ReceptionReqLCandFS(r, Top.id, pool[Top.id], RestAfter(r))
    PROVE  Tables' /\ Worded'
  <1>1. PICK s \in Bubbles(r) :
           /\ community' = [community EXCEPT ![r] = s.lc]
           /\ Send(<<Reply("LC_FS", r, pool[Top.id].prev, s.lc)>>, {Top.id}, RestAfter(r))
    BY DEF ReceptionReqLCandFS
  <1>2. /\ pool[Top.id].type = "REQUEST_LC_FS"
        /\ UNCHANGED <<buffer, statVars, halted, graph, ego>>
    BY DEF ReceptionReqLCandFS
  <1>3. OneControl /\ r \in Nodes /\ Tables /\ Worded
    BY TopFacts DEF Stored, Typed
  <1>4. PICK body : body = s.lc
    OBVIOUS
  <1>5. \A m \in Nodes : IsAnswer(Reply("LC_FS", r, m, body))
    <2>1. body \in SUBSET Destinations
      BY <1>1, <1>4 DEF Bubbles, Bubble
    <2> QED
      BY <1>3, <2>1, ReplyAnswers DEF IsAnswer
  <1>6. Worded'
    BY <1>1, <1>2, <1>3, <1>4, <1>5, AnswerWorded, ReplyTypes
  <1> QED
    BY <1>1, <1>2, <1>3, <1>6, CommunityTables

LEMMA LCandFSTyped ==
    ASSUME IInv, SetOK, Stored, Typed, Frame, NEW r, Receiving(r),
           ReceptionLCandFS(r, Top.id, pool[Top.id], RestAfter(r))
    PROVE  Tables' /\ Worded'
  <1>1. PICK ids : ids = NotDestinedTo(Alive(buffer[r]), pool[Top.id].prev)
    OBVIOUS
  <1>2. /\ pool[Top.id].type = "LC_FS"
        /\ buffer' = [buffer EXCEPT ![r] = Alive(buffer[r])]
        /\ UNCHANGED <<statVars, halted, graph, ego>>
    BY DEF ReceptionLCandFS
  <1>3. PICK s \in Bubbles(r) :
           /\ community' = [community EXCEPT ![r] = s.lc]
           /\ Send(<<Reply("BUBBLE_SUMMARY", r, pool[Top.id].prev,
                           [ids |-> ids, carrier |-> s])>>, {Top.id}, RestAfter(r))
    BY <1>1 DEF ReceptionLCandFS
  <1>4. OneControl /\ r \in Nodes /\ Tables /\ Worded /\ pool[Top.id].type # "DATA"
    BY <1>2, TopFacts DEF Stored, Typed
  <1>5. PICK body : body = [ids |-> ids, carrier |-> s]
    OBVIOUS
  <1>6. \A m \in Nodes : IsAnswer(Reply("BUBBLE_SUMMARY", r, m, body))
    <2>1. ids \in SUBSET PktIDs /\ s \in Bubble
      BY <1>1, <1>4 DEF NotDestinedTo, Alive, IInv, DataOK, Bubbles
    <2>2. body \in [ids : SUBSET PktIDs, carrier : Bubble]
      BY <1>5, <2>1
    <2> QED
      BY <1>4, <2>2, ReplyAnswers DEF IsAnswer
  <1>7. Worded'
    BY <1>2, <1>3, <1>4, <1>5, <1>6, AnswerWorded, ReplyTypes
  <1> QED
    BY <1>2, <1>3, <1>4, <1>7, CommunityTables

LEMMA BubbleSummaryTyped ==
    ASSUME IInv, SetOK, Stored, Typed, Frame, NEW r, Receiving(r),
           ReceptionBubbleSummary(r, Top.id, pool[Top.id], RestAfter(r))
    PROVE  Tables' /\ Worded'
  <1>1. /\ pool[Top.id].type = "BUBBLE_SUMMARY"
        /\ \/ buffer' = [buffer EXCEPT ![r] = buffer[r]]
           \/ buffer' = [buffer EXCEPT ![r] = Alive(buffer[r])]
        /\ UNCHANGED <<statVars, halted, graph, ego>>
    BY DEF ReceptionBubbleSummary
  <1>2. \E s \in Bubbles(r) : \E wanted \in SUBSET pool[Top.id].body.ids :
           /\ community' = [community EXCEPT ![r] = s.lc]
           /\ Send(<<Reply("MARKED_REQUEST_PKTS", r, pool[Top.id].prev, wanted)>>,
                   {Top.id}, RestAfter(r))
    BY DEF ReceptionBubbleSummary
  <1>3. PICK s \in Bubbles(r), wanted \in SUBSET pool[Top.id].body.ids :
           /\ community' = [community EXCEPT ![r] = s.lc]
           /\ Send(<<Reply("MARKED_REQUEST_PKTS", r, pool[Top.id].prev, wanted)>>,
                   {Top.id}, RestAfter(r))
    BY <1>2
  <1>4. OneControl /\ r \in Nodes /\ Tables /\ Worded
        /\ pool[Top.id].type # "DATA" /\ pool[Top.id].type \notin Types
    BY <1>1, TopFacts, ReplyTypes DEF Stored, Typed
  <1>5. \A m \in Nodes : IsAnswer(Reply("MARKED_REQUEST_PKTS", r, m, wanted))
    <2>1. pool[Top.id].body \in [ids : SUBSET PktIDs, carrier : Bubble]
      BY <1>1, <1>4, HeardForm, BodyFacts
    <2>2. wanted \in SUBSET PktIDs
      BY <1>3, <2>1
    <2> QED
      BY <1>4, <2>2, ReplyAnswers DEF IsAnswer
  <1>6. Worded'
    BY <1>1, <1>3, <1>4, <1>5, AnswerWorded, ReplyTypes
  <1> QED
    BY <1>1, <1>3, <1>4, <1>6, CommunityTables

\* Packets that are handed over or read.
LEMMA HandoverTyped ==
    ASSUME IInv, SetOK, Stored, Typed, Frame, NEW r, Receiving(r),
           \/ ReceptionDPT(r, Top.id, pool[Top.id], RestAfter(r))
           \/ ReceptionReqForDest(r, Top.id, pool[Top.id], RestAfter(r))
           \/ ReceptionRequestVector(r, Top.id, pool[Top.id], RestAfter(r))
    PROVE  Tables' /\ Worded'
  <1>1. OneControl /\ Tables /\ Worded /\ UNCHANGED <<Set, graph, ego, community>>
    BY DEF Stored, Typed, ReceptionDPT, ReceptionReqForDest, ReceptionRequestVector, utilVars, Frame
  <1>2. Stops \/ \E out, useless : Hands(r, out, useless)
    BY <1>1, DPTHands, ReqForDestHands, RequestVectorHands
  <1>3. Worded'
    BY <1>1, <1>2, HandsWorded, StopsWorded DEF Stops
  <1> QED
    BY <1>1, <1>3, TablesKept

LEMMA DataTyped ==
    ASSUME IInv, SetOK, Stored, Typed, Frame, NEW r, Receiving(r),
           ReceptionData(r, Top.id, pool[Top.id], RestAfter(r))
    PROVE  Tables' /\ Worded'
  <1>1. Tables /\ Worded /\ UNCHANGED <<Set, graph, ego, community>>
    BY DEF Typed, ReceptionData, utilVars, Frame
  <1>2. CASE Reads(r)
    <2>1. DataIDs' = DOMAIN pool'
      BY <1>2, ReadView DEF Reads
    <2>2. \A id \in DOMAIN pool' : pool'[id].type \in Types
      BY <2>1 DEF DataIDs, IsData, Types
    <2> QED
      BY <1>1, <2>2, TablesKept DEF Worded
  <1>3. CASE Stops
    BY <1>1, <1>3, StopsWorded, TablesKept DEF Stops
  <1> QED
    BY <1>2, <1>3, DataReads

LEMMA ReceiveTyped ==
    ASSUME IInv, SetOK, Stored, Talk, Typed, Receive, UNCHANGED Set
    PROVE  Typed'
  <1>1. PICK r \in Top.rcv : Receiving(r) /\ recv(r, Top.id, pool[Top.id], RestAfter(r))
    BY Received
  <1>2. Frame
    BY DEF Receive, Frame, netVars
  <1>3. Tables' /\ Worded'
    BY <1>1, <1>2, BufferReqTyped, BufferRspTyped, RequestContactsTyped, ContactsTyped,
       MetricsTyped, ReqLCandFSTyped, LCandFSTyped, BubbleSummaryTyped, HandoverTyped, DataTyped
       DEF recv, Typed
  <1>4. NoApp(evlist')
    BY ReceptionKept DEF Kept
  <1>5. Addressed'
    BY <1>2, <1>4, FWFrame DEF Typed, Addressed, NoApp, Destinations
  <1> QED
    BY <1>3, <1>5 DEF Typed

LEMMA ContactUpTyped ==
    ASSUME IInv, SetOK, Typed, FWContactUp, UNCHANGED Set
    PROVE  Typed'
  <1>1. Addressed /\ Tables /\ Worded /\ UNCHANGED <<ego, community>>
    BY DEF Typed, FWContactUp, ContactUp_
  <1>2. PICK C : /\ Sends(Top.a, Top.b, DestinedTo(buffer[Top.a], Top.b), C)
                 /\ IF Opening(Top.a, Top.b) = <<>> THEN C = {}
                    ELSE \E pkt : C = {pkt} /\ Opening(Top.a, Top.b) = <<pkt>>
    BY DirectSent
  <1>3. ASSUME NEW pkt \in C PROVE pkt.type \in Types
    <2>1. PICK n, m : n = Top.a /\ m = Top.b
      OBVIOUS
    <2>2. Opening(n, m) = <<pkt>>
      BY <1>2, <1>3, <2>1
    <2>3. pkt = Opening(n, m)[1]
      BY <2>2
    <2> QED
      BY <2>2, <2>3 DEF Opening, Inquiry, Control, Types
  <1>4. Frame
    BY NewContact DEF Frame
  <1>5. Worded'
    BY <1>1, <1>2, <1>3, <1>4, SendsWorded
  <1>6. Tables'
    <2>1. /\ Top.a \in Nodes /\ Top.b \in Nodes
          /\ graph' = IF RT = "SIMBET"
                      THEN [graph EXCEPT ![Top.a] = SetConnection(@, Top.a, Top.b)] ELSE graph
      BY NewContact DEF FWContactUp, ContactUp_
    <2>2. PICK g : g = SetConnection(graph[Top.a], Top.a, Top.b)
      OBVIOUS
    <2>3. g \in [Nodes -> SUBSET Nodes]
      <3>1. graph[Top.a] \in [Nodes -> SUBSET Nodes]
        BY <1>1, <2>1 DEF Tables
      <3> QED
        BY <2>1, <2>2, <3>1 DEF SetConnection
    <2>4. graph' \in [Nodes -> [Nodes -> SUBSET Nodes]]
      BY <1>1, <2>1, <2>2, <2>3 DEF Tables
    <2> QED
      BY <1>1, <2>4 DEF Tables, Destinations, Metric
  <1>7. NoApp(evlist')
    <2>1. /\ DataOK /\ buffer[Top.a] \in SUBSET PktIDs /\ {} \in SUBSET PktIDs
          /\ Top.a \in Nodes
      BY NewContact DEF IInv, DataOK
    <2>2. Kept
      BY <2>1, NewContact, DirectPackets
    <2> QED
      BY <2>2 DEF Kept
  <1>8. Addressed'
    BY <1>1, <1>4, <1>7, FWFrame DEF Addressed, NoApp, Destinations
  <1> QED
    BY <1>5, <1>6, <1>8 DEF Typed

LEMMA ContactDownTyped ==
    ASSUME IInv, Typed, ContactDown, UNCHANGED Set, UNCHANGED utilVars
    PROVE  Typed'
  <1>1. Unmoved
    BY ContactDownUnmoved
  <1>2. evlist' = Tail(evlist) /\ NoApp(Tail(evlist))
    BY ContactFacts DEF ContactDown
  <1>3. Worded'
    BY <1>1 DEF Worded, Unmoved, IdleStep
  <1>4. Tables'
    BY TablesKept DEF Typed, utilVars
  <1>5. Addressed'
    BY <1>1, <1>2 DEF Typed, Addressed, Unmoved, Known, NoApp, Destinations
  <1> QED
    BY <1>3, <1>4, <1>5 DEF Typed

LEMMA RecvFromAppTyped ==
    ASSUME IInv, Typed, RecvFromApp, UNCHANGED Set, UNCHANGED utilVars
    PROVE  Typed'
  <1> DEFINE pkt == [src |-> Top.a, dst |-> Top.b, time |-> now]
  <1>1. /\ TopIs("APP") /\ origin' = Append(origin, pkt) /\ evlist' = Tail(evlist)
    BY DEF RecvFromApp
  <1>2. /\ Tail(evlist) = <<>> /\ evlist # <<>> /\ evlist \in Seq(Event)
    BY <1>1, ContactFacts
  <1>3. Addressed /\ Tables /\ Worded
    BY DEF Typed
  <1>4. Top.b \in Destinations
    <2>1. Top = evlist[1] /\ 1 \in 1..Len(evlist) /\ evlist[1].ev = "APP"
      BY <1>1, <1>2 DEF TopIs, Top
    <2> QED
      BY <1>3, <2>1 DEF Addressed
  <1>5. Addressed'
    <2>1. origin \in Seq([src : Nodes, dst : Nodes, time : 0..MaxTime])
      BY DEF IInv, NetOK
    <2>2. \A q \in Known' : IF q \in Known THEN origin'[q] = origin[q] ELSE origin'[q] = pkt
      BY <1>1, <2>1 DEF Known
    <2>3. \A q \in Known' : origin'[q].dst \in Destinations
      BY <1>3, <1>4, <2>2 DEF Addressed
    <2>4. evlist' = <<>> /\ Len(evlist') = 0
      BY <1>1, <1>2
    <2>5. \A i \in 1..Len(evlist') : FALSE
      BY <2>4
    <2> QED
      BY <2>3, <2>5 DEF Addressed, Destinations
  <1>6. Worded'
    BY RecvFromAppNew DEF Worded, NewPacket, IdleStep
  <1> QED
    BY <1>3, <1>5, <1>6, TablesKept DEF Typed, utilVars

LEMMA EnvironmentTyped ==
    ASSUME IInv, Typed, FWEnvironment, UNCHANGED Set
    PROVE  Typed'
  <1>1. Unmoved /\ UNCHANGED <<graph, ego, community>>
    BY EnvironmentUnmoved DEF FWEnvironment
  <1>2. Addressed /\ Tables /\ Worded
    BY DEF Typed
  <1>3. \A i \in 1..Len(evlist') : evlist'[i].ev = "APP" => evlist'[i].b \in Destinations
    <2>1. CASE Tick
      BY <1>2, <2>1 DEF Tick, Addressed, msgVars
    <2>2. CASE \E c \in Encounters :
                  BeginContact(c[1], c[2]) \/ EndContact(c[1], c[2]) \/ TouchContact(c[1], c[2])
      BY <2>2 DEF BeginContact, EndContact, TouchContact, Schedule, ContactEvent
    <2>3. CASE \E f \in Flows : Generate(f[1], f[2])
      <3>1. PICK f \in Flows : evlist' = <<ContactEvent("APP", f[1], f[2])>>
        BY <2>3 DEF Generate, Schedule
      <3>2. f[2] \in Destinations
        BY DEF Destinations
      <3> QED
        BY <3>1, <3>2 DEF ContactEvent
    <2> QED
      BY <2>1, <2>2, <2>3 DEF FWEnvironment, Environment
  <1>4. Addressed'
    BY <1>1, <1>2, <1>3 DEF Addressed, Known, Unmoved, Destinations
  <1>5. Worded'
    BY <1>1 DEF Worded, Unmoved, IdleStep
  <1> QED
    BY <1>1, <1>2, <1>4, <1>5, TablesKept DEF Typed

LEMMA TypedInit == FWInit => Typed
  <1> SUFFICES ASSUME FWInit PROVE Typed
    OBVIOUS
  <1>1. /\ DOMAIN pool = {} /\ evlist = <<>> /\ origin = <<>>
        /\ graph = [n \in Nodes |-> NoContacts(Nodes)]
        /\ ego = [n \in Nodes |-> NoMetrics(Nodes)]
        /\ community = [n \in Nodes |-> {n} \cap Destinations]
    BY DEF FWInit, CCInit, Init
  <1>2. Addressed
    BY <1>1 DEF Addressed, Known
  <1>3. Worded
    BY <1>1 DEF Worded
  <1>4. NoContacts(Nodes) \in [Nodes -> SUBSET Nodes] /\ NoMetrics(Nodes) \in Metric
    BY DEF NoContacts, NoMetrics, Metric
  <1>5. Tables
    BY <1>1, <1>4 DEF Tables
  <1> QED
    BY <1>2, <1>3, <1>5 DEF Typed

LEMMA TypedNext == IInv /\ SetOK /\ Stored /\ Talk /\ Typed /\ [FWNext]_fwVars => Typed'
  <1> SUFFICES ASSUME IInv, SetOK, Stored, Talk, Typed, [FWNext]_fwVars PROVE Typed'
    OBVIOUS
  <1>1. CASE UNCHANGED fwVars
    <2>1. UNCHANGED <<Set, pool, origin, evlist, graph, ego, community>>
      BY <1>1 DEF fwVars, ccVars, vars, netVars, msgVars, utilVars
    <2>2. Addressed'
      BY <2>1 DEF Typed, Addressed, Known, Destinations
    <2> QED
      BY <2>1, <2>2, StopsWorded, TablesKept DEF Typed
  <1>2. CASE FWNext
    BY <1>2, EnvironmentTyped, ContactUpTyped, ContactDownTyped, RecvFromAppTyped, ReceiveTyped
       DEF FWNext
  <1> QED
    BY <1>1, <1>2

\* Whatever a node is told is of the form it takes it to have, and its tables
\* keep theirs.
THEOREM WellTyped == FWSpec => []Typed
  <1>1. FWInit => Typed
    BY TypedInit
  <1>2. IInv /\ SetOK /\ Stored /\ Talk /\ Typed /\ [FWNext]_fwVars => Typed'
    BY TypedNext
  <1> QED
    BY <1>1, <1>2, Invariance, SettingsKept, OnePlace, Talking, PTL DEF FWSpec

\* The variables have their types: no message is of a form that no handler
\* knows, and all that nodes keep of each other is in range.
THEOREM TypeCorrect == FWSpec => []FWTypeOK
  <1>1. IInv /\ SetOK /\ Talk /\ Typed => FWTypeOK
    <2> SUFFICES ASSUME IInv, SetOK, Talk, Typed PROVE FWTypeOK
      OBVIOUS
    <2>1. CommonTypeOK
      BY InvImplies
    <2>2. \A id \in DOMAIN pool : pool[id] \in Message \/ IsAnswer(pool[id])
      BY DEF IInv, StackOK, IsPacket, Typed, Worded
    <2> QED
      BY <2>1, <2>2 DEF FWTypeOK, Talk, Info, Typed, Tables
  <1> QED
    BY <1>1, Invariance, SettingsKept, Talking, WellTyped, PTL
=============================================================================
