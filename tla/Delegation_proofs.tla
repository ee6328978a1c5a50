------------------------- MODULE Delegation_proofs --------------------------
(***************************************************************************)
(* Proofs about replication by utility, Delegation forwarding and Compare  *)
(* and Replicate, for every network, traffic load, buffer size, time to    *)
(* live, deletion mechanism, utility function and range of utilities: the  *)
(* exchange stays in order, no handler ends the program, nothing stale is  *)
(* sent, and a replica only goes where the comparison that it was sent by  *)
(* still holds when it arrives, whatever is updated on the way.            *)
(***************************************************************************)
EXTENDS Delegation, Exchange_proofs

-----------------------------------------------------------------------------
(* What the handlers send.                                                 *)

\* These protocols replicate, and their own answers are none of class Routing.
LEMMA Replicates ==
    ASSUME SetOK
    PROVE  /\ Replicating /\ ByUtility
           /\ {"CONTACTS", "DEST_PREDICT", "REQUEST_PKTS_UTILS"} \cap Types = {}
  <1>1. Replicating /\ ByUtility
    BY RoutingAssumption, DelegationAssumption
       DEF SetOK, Replicating, ByUtility, RT, CongestionControl
  <1>2. {"CONTACTS", "DEST_PREDICT", "REQUEST_PKTS_UTILS"} \cap Types = {}
    BY DEF Types
  <1> QED
    BY <1>1, <1>2

\* A packet of the protocol's own is an answer, too.
LEMMA ReplyAnswer ==
    ASSUME IInv, NEW r, Receiving(r), pool[Top.id].type # "DATA",
           NEW type, type \notin Types, NEW body
    PROVE  AnswerTo(Reply(type, r, pool[Top.id].prev, body), r)
  <1>1. r \in Nodes /\ pool[Top.id].prev \in Nodes
    BY TopFacts, ControlFacts
  <1>2. type # "DATA"
    BY TypeFacts
  <1> QED
    BY <1>1, <1>2 DEF AnswerTo, IsPacket, Reply

\* Node r answers, and its buffer becomes b.
LEMMA AnsweredKept ==
    ASSUME IInv, NEW r, Receiving(r), pool[Top.id].type # "DATA",
           NEW pkt, AnswerTo(pkt, r), Send(<<pkt>>, {Top.id}, RestAfter(r)),
           NEW b \in SUBSET PktIDs, buffer' = [buffer EXCEPT ![r] = b],
           UNCHANGED <<dmVars, statVars, halted>>
    PROVE  Kept
  <1>1. r \in Nodes /\ conn' \in [Nodes -> SUBSET Nodes]
    BY TopFacts
  <1>2. Sendable(<<pkt>>, r, conn')
    BY ControlFacts, SendableOne DEF AnswerTo
  <1>3. DataOK'
    BY <1>1, BufferData DEF IInv
  <1> QED
    BY <1>1, <1>2, <1>3, ControlFacts, SendStack DEF Kept

LEMMA RequestContactsKept ==
    ASSUME IInv, SetOK, NEW r, Receiving(r),
           ReceptionRequestContacts(r, Top.id, pool[Top.id], RestAfter(r))
    PROVE  Kept
  <1>1. r \in Nodes /\ buffer \in [Nodes -> SUBSET PktIDs] /\ pool[Top.id].type # "DATA"
    BY TopFacts DEF IInv, DataOK, ReceptionRequestContacts
  <1>2. PICK type \in {"CONTACTS", "DEST_PREDICT"} :
           Send(<<Reply(type, r, pool[Top.id].prev, {})>>, {Top.id}, RestAfter(r))
    BY DEF ReceptionRequestContacts
  <1>3. AnswerTo(Reply(type, r, pool[Top.id].prev, {}), r)
    BY <1>1, Replicates, ReplyAnswer
  <1>4. buffer' = [buffer EXCEPT ![r] = buffer[r]] /\ buffer[r] \in SUBSET PktIDs
    BY <1>1 DEF ReceptionRequestContacts
  <1>5. UNCHANGED <<dmVars, statVars, halted>>
    BY DEF ReceptionRequestContacts
  <1>6. PICK pkt : pkt = Reply(type, r, pool[Top.id].prev, {})
    OBVIOUS
  <1> QED
    BY <1>1, <1>2, <1>3, <1>4, <1>5, <1>6, AnsweredKept

LEMMA ContactsKept ==
    ASSUME IInv, NEW r, Receiving(r),
           ReceptionContacts(r, Top.id, pool[Top.id], RestAfter(r))
    PROVE  Kept
  <1> DEFINE ids == NotDestinedTo(buffer[r], pool[Top.id].prev)
  <1>1. r \in Nodes /\ buffer[r] \in SUBSET PktIDs /\ pool[Top.id].type # "DATA"
    BY TopFacts DEF IInv, DataOK, ReceptionContacts
  <1>2. ids \in SUBSET PktIDs /\ Alive(buffer[r]) \in SUBSET PktIDs
    BY <1>1, BufferParts
  <1>3. AnswerTo(Control("SUMMARY", r, pool[Top.id].prev, ids), r)
    BY <1>1, <1>2, TypeFacts, ControlAnswer
  <1>4. /\ Send(<<Control("SUMMARY", r, pool[Top.id].prev, ids)>>, {Top.id}, RestAfter(r))
        /\ buffer' = [buffer EXCEPT ![r] = Alive(buffer[r])]
        /\ UNCHANGED <<dmVars, statVars, halted>>
    BY DEF ReceptionContacts
  <1>5. PICK pkt : pkt = Control("SUMMARY", r, pool[Top.id].prev, ids)
    OBVIOUS
  <1> HIDE DEF ids
  <1> QED
    BY <1>1, <1>2, <1>3, <1>4, <1>5, AnsweredKept

\* What node r asks for in answer to a summary, and its utilities for that.
SummaryAnswer(r, pkt, ids, owned) ==
    Reply("REQUEST_PKTS_UTILS", r, pkt.prev,
          [ids |-> ids, owned |-> owned, utils |-> [p \in ids |-> util[r][origin[p].dst]]])

\* The answer, and the buffer it leaves.
LEMMA SummaryUtilsAnswer ==
    ASSUME NEW r, NEW pkt, ReceptionSummaryUtils(r, Top.id, pkt, RestAfter(r))
    PROVE  LET live == IF pkt.ids = {} THEN buffer[r] ELSE Alive(buffer[r])
           IN  /\ pkt.type = "SUMMARY"
               /\ buffer' = [buffer EXCEPT ![r] = live]
               /\ UNCHANGED <<dmVars, statVars, halted, util>>
               /\ \E ids \in SUBSET pkt.ids : \E owned \in SUBSET ids :
                     /\ ids \ owned \subseteq pkt.ids \ live
                     /\ Send(<<SummaryAnswer(r, pkt, ids, owned)>>, {Top.id}, RestAfter(r))
  <1> DEFINE live == IF pkt.ids = {} THEN buffer[r] ELSE Alive(buffer[r])
  <1> DEFINE req == Requested(pkt.ids, live)
  <1>1. /\ pkt.type = "SUMMARY"
        /\ buffer' = [buffer EXCEPT ![r] = live]
        /\ Send(<<SummaryAnswer(r, pkt, req.ids, req.owned)>>, {Top.id}, RestAfter(r))
        /\ UNCHANGED <<dmVars, statVars, halted, util>>
    BY DEF ReceptionSummaryUtils, SummaryAnswer
  <1> HIDE DEF live
  <1>2. /\ req.ids \in SUBSET pkt.ids /\ req.owned \in SUBSET req.ids
        /\ req.ids \ req.owned \subseteq pkt.ids \ live
    BY DEF Requested
  <1> HIDE DEF req
  <1>3. \E ids \in SUBSET pkt.ids : \E owned \in SUBSET ids :
           /\ ids \ owned \subseteq pkt.ids \ live
           /\ Send(<<SummaryAnswer(r, pkt, ids, owned)>>, {Top.id}, RestAfter(r))
    BY <1>1, <1>2
  <1> QED
    BY <1>1, <1>3 DEF live

LEMMA SummaryUtilsKept ==
    ASSUME IInv, SetOK, NEW r, Receiving(r),
           ReceptionSummaryUtils(r, Top.id, pool[Top.id], RestAfter(r))
    PROVE  Kept
  <1>1. r \in Nodes /\ buffer[r] \in SUBSET PktIDs
    BY TopFacts DEF IInv, DataOK
  <1>2. PICK live \in {buffer[r], Alive(buffer[r])} :
           /\ pool[Top.id].type = "SUMMARY"
           /\ buffer' = [buffer EXCEPT ![r] = live]
           /\ UNCHANGED <<dmVars, statVars, halted>>
           /\ \E ids, owned :
                 Send(<<SummaryAnswer(r, pool[Top.id], ids, owned)>>, {Top.id}, RestAfter(r))
    BY SummaryUtilsAnswer
  <1>3. PICK ids, owned :
           Send(<<SummaryAnswer(r, pool[Top.id], ids, owned)>>, {Top.id}, RestAfter(r))
    BY <1>2
  <1>4. AnswerTo(SummaryAnswer(r, pool[Top.id], ids, owned), r)
    BY <1>2, Replicates, ReplyAnswer DEF SummaryAnswer
  <1>5. live \in SUBSET PktIDs
    BY <1>1, <1>2, BufferParts
  <1> QED
    BY <1>2, <1>3, <1>4, <1>5, AnsweredKept

\* A request is answered with packets that node r has a lower threshold for,
\* or it names a packet that a node of Compare and Replicate has lost.
LEMMA RequestUtilsAnswer ==
    ASSUME NEW r, NEW pkt, ReceptionRequestUtils(r, Top.id, pkt, RestAfter(r))
    PROVE  /\ pkt.type = "REQUEST_PKTS_UTILS" /\ UNCHANGED util
           /\ \/ /\ isCnR /\ ~(pkt.body.ids \subseteq Alive(buffer[r]))
                 /\ Exit /\ UNCHANGED MaxUtil
              \/ \E live \in {buffer[r], Alive(buffer[r])} :
                 \E low \in SUBSET (pkt.body.ids \cap live) :
                    /\ \A p \in low : pkt.body.utils[p] > Threshold(r, p)
                    /\ \E order \in Orders(low \ pkt.body.owned) :
                          Send(DataFor(r, pkt.prev, order, 1), {Top.id}, RestAfter(r))
                    /\ buffer' = [buffer EXCEPT ![r] = live]
                    /\ SetMaxUtil(r, Raised(low, pkt.body.utils))
                    /\ UNCHANGED <<dmVars, statVars, halted>>
  <1> DEFINE body == pkt.body
  <1> DEFINE live == IF isCnR /\ body.ids = {} THEN buffer[r] ELSE Alive(buffer[r])
  <1> DEFINE low == {p \in body.ids \cap live : body.utils[p] > Threshold(r, p)}
  <1>1. /\ pkt.type = "REQUEST_PKTS_UTILS" /\ UNCHANGED util
        /\ IF isCnR => body.ids \subseteq live
           THEN /\ \E order \in Orders(low \ body.owned) :
                      Send(DataFor(r, pkt.prev, order, 1), {Top.id}, RestAfter(r))
                /\ buffer' = [buffer EXCEPT ![r] = live]
                /\ SetMaxUtil(r, Raised(low, body.utils))
                /\ UNCHANGED <<dmVars, statVars, halted>>
           ELSE Exit /\ UNCHANGED MaxUtil
    BY DEF ReceptionRequestUtils
  <1>2. live \in {buffer[r], Alive(buffer[r])}
    OBVIOUS
  <1>3. ~(isCnR => body.ids \subseteq live) => isCnR /\ ~(body.ids \subseteq Alive(buffer[r]))
    OBVIOUS
  <1> HIDE DEF live
  <1>4. low \in SUBSET (body.ids \cap live) /\ \A p \in low : body.utils[p] > Threshold(r, p)
    OBVIOUS
  <1> HIDE DEF low
  <1> QED
    BY <1>1, <1>2, <1>3, <1>4

LEMMA RequestUtilsKept ==
    ASSUME IInv, NEW r, Receiving(r),
           ReceptionRequestUtils(r, Top.id, pool[Top.id], RestAfter(r))
    PROVE  Kept
  <1>1. /\ r \in Nodes /\ buffer[r] \in SUBSET PktIDs /\ conn' \in [Nodes -> SUBSET Nodes]
        /\ pool[Top.id].type # "DATA"
    BY TopFacts, RequestUtilsAnswer DEF IInv, DataOK
  <1>2. CASE Exit
    BY <1>2, ExitKept
  <1>3. CASE ~Exit
    <2>1. PICK live \in {buffer[r], Alive(buffer[r])} :
             /\ \E low \in SUBSET (pool[Top.id].body.ids \cap live) :
                \E order \in Orders(low \ pool[Top.id].body.owned) :
                   Send(DataFor(r, pool[Top.id].prev, order, 1), {Top.id}, RestAfter(r))
             /\ buffer' = [buffer EXCEPT ![r] = live]
             /\ UNCHANGED <<dmVars, statVars, halted>>
      BY <1>3, RequestUtilsAnswer
    <2>2. live \in SUBSET PktIDs
      BY <1>1, <2>1, BufferParts
    <2>3. PICK S \in SUBSET PktIDs : \E order \in Orders(S) :
             Send(DataFor(r, pool[Top.id].prev, order, 1), {Top.id}, RestAfter(r))
      <3>1. PICK low \in SUBSET (pool[Top.id].body.ids \cap live) :
               \E order \in Orders(low \ pool[Top.id].body.owned) :
                  Send(DataFor(r, pool[Top.id].prev, order, 1), {Top.id}, RestAfter(r))
        BY <2>1
      <3>2. low \ pool[Top.id].body.owned \in SUBSET PktIDs
        BY <2>2
      <3> QED
        BY <3>1, <3>2
    <2>4. PICK order \in Orders(S) :
             Send(DataFor(r, pool[Top.id].prev, order, 1), {Top.id}, RestAfter(r))
      BY <2>3
    <2>5. Sendable(DataFor(r, pool[Top.id].prev, order, 1), r, conn')
      BY <1>1, ControlFacts, SendableData
    <2>6. DataOK'
      BY <1>1, <2>1, <2>2, BufferData DEF IInv
    <2> QED
      BY <1>1, <2>4, <2>5, <2>6, ControlFacts, SendStack DEF Kept
  <1> QED
    BY <1>2, <1>3

LEMMA RelayKept ==
    ASSUME IInv, NEW r, Receiving(r), pool[Top.id].type = "DATA",
           NEW p \in pool[Top.id].ids,
           Relay(r, Top.id, pool[Top.id], RestAfter(r), p)
    PROVE  Kept
  <1>1. r \in Nodes /\ p \in PktIDs /\ buffer[r] \in SUBSET PktIDs
    BY TopFacts, TypeFacts DEF Message, IsPacket, IInv, DataOK
  <1>2. CASE p \in Alive(buffer[r])
    BY <1>2, ExitKept DEF Relay
  <1>3. CASE p \notin Alive(buffer[r])
    <2>1. PICK b \in Added(buffer[r], p) : buffer' = [buffer EXCEPT ![r] = b]
      BY <1>3 DEF Relay
    <2>2. Access(Top.id, RestAfter(r)) /\ UNCHANGED <<dmVars, statVars, halted>>
      BY <1>3 DEF Relay
    <2>3. b \in SUBSET PktIDs
      BY <1>1, <2>1, BufferParts
    <2>4. DataOK'
      BY <1>1, <2>1, <2>2, <2>3, BufferData DEF IInv
    <2> QED
      BY <2>2, <2>4, AccessStack DEF Kept
  <1> QED
    BY <1>2, <1>3

\* The transmission on top is received: nothing is discarded.
LEMMA Received ==
    ASSUME IInv, Receive
    PROVE  /\ NoApp(evlist) /\ UNCHANGED <<netVars, UUpdate>>
           /\ \E r \in Top.rcv : /\ Receiving(r) /\ Top.id \in DOMAIN pool
                                 /\ recv(r, Top.id, pool[Top.id], RestAfter(r))
  <1>1. TopIs("TX") /\ UNCHANGED <<netVars, UUpdate>>
    BY DEF Receive
  <1>2. PICK r \in Top.rcv :
           IF r \notin conn[Top.a] THEN Discard(r) /\ UNCHANGED <<util, MaxUtil>>
           ELSE IF Top.id \notin DOMAIN pool THEN Exit /\ UNCHANGED <<util, MaxUtil>>
           ELSE recv(r, Top.id, pool[Top.id], RestAfter(r))
    BY DEF Receive
  <1>3. Receiving(r)
    BY <1>1 DEF Receiving
  <1>4. r \in conn[Top.a] /\ Top.id \in DOMAIN pool /\ NoApp(evlist)
    BY <1>3, TopFacts
  <1> QED
    BY <1>1, <1>2, <1>3, <1>4

LEMMA ReceiveKept == IInv /\ SetOK /\ Receive => Kept /\ IInv'
  <1> SUFFICES ASSUME IInv, SetOK, Receive PROVE Kept /\ IInv'
    OBVIOUS
  <1>1. UNCHANGED netVars
    BY DEF Receive
  <1>2. PICK r : Receiving(r) /\ recv(r, Top.id, pool[Top.id], RestAfter(r))
    BY Received
  <1>3. Kept
    <2>1. CASE ReceptionData(r, Top.id, pool[Top.id], RestAfter(r))
      BY <1>2, <2>1, OverhearKept, DeliverKept, RelayKept DEF ReceptionData
    <2> QED
      BY <1>2, <2>1, DirectSummaryKept, DirectRequestKept, AntipacketKept,
         AntipacketResponseKept, RequestContactsKept, ContactsKept, SummaryUtilsKept,
         RequestUtilsKept DEF recv
  <1>4. NetOK'
    BY <1>1 DEF IInv, NetOK, netVars
  <1>5. AppOK'
    BY <1>3 DEF Kept, NoApp, AppOK
  <1> QED
    BY <1>3, <1>4, <1>5 DEF Kept, IInv

-----------------------------------------------------------------------------
(* Contacts.                                                               *)

\* The end of a contact: at most one buffer loses packets.
LEMMA DownFacts ==
    ASSUME IInv, DGContactDown
    PROVE  /\ IInv' /\ Idle /\ Idle' /\ NoApp(evlist') /\ Top.a \in Nodes
           /\ \A n \in Nodes : buffer'[n] \subseteq buffer[n]
           /\ UNCHANGED <<now, origin, pool, dmVars, statVars, halted, UUpdate>>
  <1>1. /\ TopIs("DOWN") /\ Disconnect(Top.a, Top.b) /\ evlist' = Tail(evlist)
        /\ UNCHANGED <<now, origin, pool, variousIDs, dmVars, statVars, halted, UUpdate>>
        /\ buffer' = [buffer EXCEPT ![Top.a] = Alive(@)] \/ buffer' = buffer
    BY DEF DGContactDown
  <1>2. /\ Top.a \in Nodes /\ Top.b \in Nodes /\ Top.a # Top.b /\ NoApp(Tail(evlist))
        /\ evlist # <<>> /\ Head(evlist).ev # "TX"
    BY <1>1, ContactFacts
  <1>3. /\ conn' \in [Nodes -> SUBSET Nodes]
        /\ \A m, n \in Nodes : n \in conn'[m] => m \in conn'[n]
    BY <1>1, <1>2, LinkFacts DEF IInv
  <1>4. StackOK(evlist', pool', conn', variousIDs') /\ Idle
    BY <1>1, <1>2, NoTransmission DEF IInv, Idle
  <1>5. NetOK'
    BY <1>1, <1>3 DEF IInv, NetOK
  <1>6. AppOK'
    BY <1>1, <1>2 DEF NoApp, AppOK
  <1>7. buffer' \in [Nodes -> SUBSET PktIDs] /\ \A n \in Nodes : buffer'[n] \subseteq buffer[n]
    <2>1. buffer \in [Nodes -> SUBSET PktIDs]
      BY DEF IInv, DataOK
    <2>2. Alive(buffer[Top.a]) \in SUBSET buffer[Top.a]
      BY DEF Alive
    <2> QED
      BY <1>1, <1>2, <2>1, <2>2
  <1>8. DataOK'
    BY <1>1, <1>7 DEF IInv, DataOK, dmVars, statVars
  <1> QED
    BY <1>1, <1>2, <1>4, <1>5, <1>6, <1>7, <1>8 DEF IInv, Idle

LEMMA InvNext == IInv /\ SetOK /\ [DGNext]_dgVars => IInv'
  <1> SUFFICES ASSUME IInv, SetOK, [DGNext]_dgVars PROVE IInv'
    OBVIOUS
  <1>1. CASE DGEnvironment
    BY <1>1, EnvironmentKept DEF DGEnvironment
  <1>2. CASE DGContactUp
    BY <1>2, ContactUpKept DEF DGContactUp
  <1>3. CASE DGContactDown
    BY <1>3, DownFacts
  <1>4. CASE Originate
    BY <1>4, RecvFromAppKept DEF Originate
  <1>5. CASE Receive
    BY <1>5, ReceiveKept
  <1>6. CASE UNCHANGED dgVars
    BY <1>6 DEF dgVars, vars, netVars, msgVars, dmVars, statVars, IInv, NetOK, DataOK, AppOK,
       StackOK, InTransit
  <1> QED
    BY <1>1, <1>2, <1>3, <1>4, <1>5, <1>6 DEF DGNext, DGStep

LEMMA SettingsKept == DGSpec => []SetOK
  <1>1. DGInit => SetOK
    BY DEF DGInit, Init, SetOK
  <1>2. SetOK /\ [DGNext]_dgVars => SetOK'
    BY DEF SetOK, DGNext, dgVars, vars
  <1> QED
    BY <1>1, <1>2, PTL DEF DGSpec

\* The stack, the pool and the links are in order.
THEOREM Invariance == DGSpec => []IInv
  <1>1. DGInit => IInv
    BY InvInit DEF DGInit
  <1> QED
    BY <1>1, InvNext, SettingsKept, PTL DEF DGSpec

-----------------------------------------------------------------------------
(* The handlers and what the messages say.                                 *)

\* When node r answers in an exchange in which nothing but packets for m is
\* about, and buffers gain nothing, the conversation goes on if the answer is
\* right.
LEMMA AnswerStep ==
    ASSUME IInv, Conversation, Frame, NEW r, Receiving(r), pool[Top.id].type # "DATA",
           NEW n \in Nodes, NEW m \in Nodes, Exchanging(n, m), DirectOnly(m),
           NEW pkt, AnswerTo(pkt, r), Send(<<pkt>>, {Top.id}, RestAfter(r)),
           \A x \in Nodes : buffer'[x] \subseteq buffer[x],
           UNCHANGED <<dmVars, statVars, halted>>
    PROVE  /\ DirectOnly(m)' /\ StoredOK'
           /\ ControlRight(pkt, n, m)' => Conversation'
  <1>1. /\ OneControl /\ StoredOK
        /\ delivered' = delivered /\ received' = received
    BY DEF Conversation, dmVars, statVars
  <1>2. /\ \A id \in DOMAIN pool :
              IsData(id) => /\ id \in DOMAIN pool' /\ pool'[id] = pool[id]
                            /\ \A x : Awaiting(evlist', id, x) <=> Awaiting(evlist, id, x)
        /\ \A id \in DOMAIN pool' :
              \/ id \in DOMAIN pool /\ IsData(id)
              \/ pool'[id] = pkt
    BY <1>1, RepliedBy
  <1>3. pkt.type # "DATA"
    BY DEF AnswerTo
  <1>4. DirectOnly(m)'
    <2>1. \A id \in DOMAIN pool' :
             IsData(id)' => id \in DOMAIN pool /\ IsData(id) /\ pool'[id] = pool[id]
      BY <1>2, <1>3 DEF IsData
    <2> QED
      BY <2>1, FrameFacts DEF DirectOnly
  <1>5. StoredOK'
    <2>1. \A p : Arriving(p) => Arriving(p)'
      BY <1>1, <1>2, ArrivingKept DEF Frame
    <2> QED
      BY <1>1, <2>1, StoredKept
  <1>6. \A p : Welcome(m, p) => Welcome(m, p)'
    BY <1>1, WelcomeKept
  <1> QED
    BY <1>1, <1>4, <1>5, <1>6, AnsweredBy

\* Node m is asked for its contacts, and tells them.
LEMMA RequestContactsHeard ==
    ASSUME IInv, SetOK, Conversation, Frame, NEW r, Receiving(r),
           ReceptionRequestContacts(r, Top.id, pool[Top.id], RestAfter(r))
    PROVE  Conversation'
  <1> DEFINE pkt == pool[Top.id]
  <1>1. /\ pkt.type = "REQUEST_CONTACTS"
        /\ UNCHANGED <<buffer, dmVars, statVars, halted>>
    BY DEF ReceptionRequestContacts
  <1>2. r \in Nodes /\ Top.id \in DOMAIN pool /\ pkt.type # "DATA"
    BY <1>1, TopFacts
  <1>3. PICK n \in Nodes, m \in Nodes : Exchanging(n, m)
    BY <1>2 DEF Conversation
  <1>4. ControlRight(pkt, n, m)
    BY <1>2, <1>3 DEF Exchanging, IsData
  <1>5. pkt.prev = n /\ pkt.next = m /\ DirectOnly(m) /\ Unknown(n, m)
    BY <1>1, <1>4 DEF ControlRight, DeliveryRight, UtilityRight, Ask
  <1>6. r = m
    BY <1>2, <1>5, ControlStep DEF Conversation
  <1>7. PICK type \in {"CONTACTS", "DEST_PREDICT"} :
           Send(<<Reply(type, r, pkt.prev, {})>>, {Top.id}, RestAfter(r))
    BY DEF ReceptionRequestContacts
  <1>8. AnswerTo(Reply(type, r, pkt.prev, {}), r)
    BY <1>2, <1>7, Replicates, ReplyAnswer
  <1>9. \A x \in Nodes : buffer'[x] \subseteq buffer[x]
    BY <1>1
  <1>10. PICK new : new = Reply(type, r, pkt.prev, {})
    OBVIOUS
  <1>11. /\ DirectOnly(m)' /\ (ControlRight(new, n, m)' => Conversation')
    BY <1>1, <1>2, <1>3, <1>5, <1>7, <1>8, <1>9, <1>10, AnswerStep
  <1>12. ControlRight(new, n, m)'
    <2>1. new.type \in {"CONTACTS", "DEST_PREDICT"} /\ new.prev = m /\ new.next = n
      BY <1>5, <1>6, <1>7, <1>10 DEF Reply
    <2>2. Unknown(n, m)'
      BY <1>1, <1>5, FrameFacts DEF Unknown, Vaccinated, dmVars
    <2>3. ByUtility'
      BY Replicates DEF Frame, ByUtility, RT
    <2> QED
      BY <1>11, <2>1, <2>2, <2>3 DEF ControlRight, UtilityRight, Ask
  <1> QED
    BY <1>11, <1>12

\* Node n has brought its utilities up to date, and offers its packets.
LEMMA ContactsHeard ==
    ASSUME IInv, Conversation, Frame, NEW r, Receiving(r),
           ReceptionContacts(r, Top.id, pool[Top.id], RestAfter(r))
    PROVE  Conversation'
  <1> DEFINE pkt == pool[Top.id]
  <1> DEFINE ids == NotDestinedTo(buffer[r], pkt.prev)
  <1>1. /\ pkt.type \in {"CONTACTS", "DEST_PREDICT"}
        /\ Send(<<Control("SUMMARY", r, pkt.prev, ids)>>, {Top.id}, RestAfter(r))
        /\ buffer' = [buffer EXCEPT ![r] = Alive(buffer[r])]
        /\ UNCHANGED <<dmVars, statVars, halted>>
    BY DEF ReceptionContacts
  <1>2. r \in Nodes /\ Top.id \in DOMAIN pool /\ pkt.type # "DATA"
    BY <1>1, TopFacts
  <1>3. PICK n \in Nodes, m \in Nodes : Exchanging(n, m)
    BY <1>2 DEF Conversation
  <1>4. ControlRight(pkt, n, m)
    BY <1>2, <1>3 DEF Exchanging, IsData
  <1>5. pkt.prev = m /\ pkt.next = n /\ DirectOnly(m) /\ Unknown(n, m)
    BY <1>1, <1>4 DEF ControlRight, DeliveryRight, UtilityRight, Ask
  <1>6. r = n
    BY <1>2, <1>5, ControlStep DEF Conversation
  <1>7. buffer \in [Nodes -> SUBSET PktIDs] /\ ids \in SUBSET PktIDs
    BY <1>2, BufferParts DEF IInv, DataOK
  <1>8. AnswerTo(Control("SUMMARY", r, pkt.prev, ids), r)
    BY <1>2, <1>7, TypeFacts, ControlAnswer
  <1>9. /\ \A x \in Nodes : buffer'[x] \subseteq buffer[x]
        /\ buffer'[n] = Alive(buffer[n])
    <2>1. Alive(buffer[r]) \subseteq buffer[r]
      BY DEF Alive
    <2> QED
      BY <1>1, <1>2, <1>6, <1>7, <2>1
  <1>10. PICK new : new = Control("SUMMARY", r, pkt.prev, ids)
    OBVIOUS
  <1>11. /\ DirectOnly(m)' /\ (ControlRight(new, n, m)' => Conversation')
    <2> HIDE DEF ids
    <2> QED
      BY <1>1, <1>2, <1>3, <1>5, <1>8, <1>9, <1>10, AnswerStep
  <1>12. ControlRight(new, n, m)'
    <2>1. new.type = "SUMMARY" /\ new.prev = n /\ new.next = m /\ new.ids = ids
      BY <1>5, <1>6, <1>10 DEF Control
    <2>2. ASSUME NEW p \in ids
          PROVE  p \in Known' /\ Offered(n, p)' /\ origin'[p].dst # m /\ ~Vaccinated(m, p)'
      <3>1. p \in buffer[n] /\ IsAlive(p) /\ origin[p].dst # m
        BY <1>5, <1>6 DEF NotDestinedTo, Alive
      <3>2. p \in Known /\ ~Vaccinated(m, p)
        BY <1>3, <1>5, <3>1 DEF Conversation, StoredOK, Unknown
      <3>3. p \in buffer'[n]
        BY <1>9, <3>1 DEF Alive
      <3> QED
        BY <1>1, <3>1, <3>2, <3>3, FrameFacts DEF Offered, Vaccinated, dmVars
    <2> HIDE DEF ids
    <2>3. DeliveryRight(new, n, m)'
      BY <1>11, <2>1, <2>2 DEF DeliveryRight, Ask
    <2> QED
      BY <2>3 DEF ControlRight
  <1> QED
    BY <1>11, <1>12

\* Node m is offered packets, and answers with its utilities for them.
LEMMA SummaryUtilsHeard ==
    ASSUME IInv, SetOK, Conversation, Frame, NEW r, Receiving(r),
           ReceptionSummaryUtils(r, Top.id, pool[Top.id], RestAfter(r))
    PROVE  Conversation'
  <1> DEFINE pkt == pool[Top.id]
  <1>1. PICK live \in {buffer[r], Alive(buffer[r])} :
           /\ pkt.type = "SUMMARY"
           /\ buffer' = [buffer EXCEPT ![r] = live]
           /\ UNCHANGED <<dmVars, statVars, halted>>
           /\ \E ids \in SUBSET pkt.ids : \E owned \in SUBSET ids :
                 /\ ids \ owned \subseteq pkt.ids \ live
                 /\ Send(<<SummaryAnswer(r, pkt, ids, owned)>>, {Top.id}, RestAfter(r))
    BY SummaryUtilsAnswer
  <1>2. r \in Nodes /\ Top.id \in DOMAIN pool /\ pkt.type # "DATA"
    BY <1>1, TopFacts
  <1>3. PICK n \in Nodes, m \in Nodes : Exchanging(n, m)
    BY <1>2 DEF Conversation
  <1>4. ControlRight(pkt, n, m)
    BY <1>2, <1>3 DEF Exchanging, IsData
  <1>5. /\ pkt.prev = n /\ pkt.next = m /\ DirectOnly(m)
        /\ pkt.ids \subseteq Known /\ n # m
        /\ \A p \in pkt.ids : Offered(n, p) /\ origin[p].dst # m /\ ~Vaccinated(m, p)
    BY <1>1, <1>3, <1>4 DEF ControlRight, DeliveryRight, UtilityRight, Ask, Exchanging
  <1>6. r = m
    BY <1>2, <1>5, ControlStep DEF Conversation
  <1>7. PICK ids \in SUBSET pkt.ids, owned \in SUBSET pkt.ids :
           /\ ids \ owned \subseteq pkt.ids \ live
           /\ Send(<<SummaryAnswer(r, pkt, ids, owned)>>, {Top.id}, RestAfter(r))
    BY <1>1
  <1>8. AnswerTo(SummaryAnswer(r, pkt, ids, owned), r)
    BY <1>2, Replicates, ReplyAnswer DEF SummaryAnswer
  <1>9. /\ \A x \in Nodes : buffer'[x] \subseteq buffer[x]
        /\ buffer'[n] = buffer[n] /\ buffer'[m] = live
    <2>1. buffer \in [Nodes -> SUBSET PktIDs]
      BY DEF IInv, DataOK
    <2>2. live \subseteq buffer[r]
      BY <1>1 DEF Alive
    <2> QED
      BY <1>1, <1>5, <1>6, <2>1, <2>2
  <1>10. PICK new : new = SummaryAnswer(r, pkt, ids, owned)
    OBVIOUS
  <1>11. /\ DirectOnly(m)' /\ (ControlRight(new, n, m)' => Conversation')
    BY <1>1, <1>2, <1>3, <1>5, <1>7, <1>8, <1>9, <1>10, AnswerStep
  <1>12. ControlRight(new, n, m)'
    <2>1. /\ new.type = "REQUEST_PKTS_UTILS" /\ new.prev = m /\ new.next = n
          /\ new.body.ids = ids /\ new.body.owned = owned
      BY <1>5, <1>6, <1>10 DEF SummaryAnswer, Reply
    <2>2. ASSUME NEW p \in ids
          PROVE  /\ p \in Known' /\ Offered(n, p)' /\ origin'[p].dst # m
                 /\ p \notin owned => Welcome(m, p)'
      <3>1. p \in Known /\ Offered(n, p) /\ origin[p].dst # m /\ ~Vaccinated(m, p)
        BY <1>5
      <3>2. p \notin owned => p \notin buffer'[m]
        BY <1>7, <1>9
      <3> QED
        BY <1>1, <1>9, <3>1, <3>2, FrameFacts DEF Offered, Welcome, Vaccinated, dmVars
    <2>3. ByUtility'
      BY Replicates DEF Frame, ByUtility, RT
    <2>4. UtilityRight(new, n, m)'
      BY <1>11, <2>1, <2>2, <2>3 DEF UtilityRight, Ask
    <2> QED
      BY <2>4 DEF ControlRight
  <1> QED
    BY <1>11, <1>12

\* What node r knows when it has answered the utilities of m: the packets it
\* sends to be carried on are in its buffer and below m's utility.
RequestAnswered(r, m, low, body) ==
    /\ r # m /\ low \subseteq body.ids /\ low \subseteq buffer'[r]
    /\ \A p \in low : body.utils[p] > Threshold(r, p)
    /\ SetMaxUtil(r, Raised(low, body.utils))
    /\ \A x \in Nodes : buffer'[x] \subseteq buffer[x]
    /\ Forwarded(low, r, m)

\* Node n is told the utilities of m, and sends packets for m to carry on.
LEMMA RequestUtilsHeard ==
    ASSUME IInv, Conversation, Frame, NEW r, Receiving(r),
           ReceptionRequestUtils(r, Top.id, pool[Top.id], RestAfter(r))
    PROVE  /\ Conversation' /\ UNCHANGED util
           /\ \E m \in Nodes : \E low :
                 pool[Top.id].prev = m /\ RequestAnswered(r, m, low, pool[Top.id].body)
  <1> DEFINE pkt == pool[Top.id]
  <1> DEFINE body == pkt.body
  <1>1. pkt.type = "REQUEST_PKTS_UTILS" /\ UNCHANGED util
    BY RequestUtilsAnswer
  <1>2. r \in Nodes /\ Top.id \in DOMAIN pool /\ pkt.type # "DATA"
    BY <1>1, TopFacts
  <1>3. PICK n \in Nodes, m \in Nodes : Exchanging(n, m)
    BY <1>2 DEF Conversation
  <1>4. ControlRight(pkt, n, m)
    BY <1>2, <1>3 DEF Exchanging, IsData
  <1>5. /\ pkt.prev = m /\ pkt.next = n /\ DirectOnly(m) /\ n # m
        /\ \A p \in body.ids :
              /\ p \in Known /\ Offered(n, p) /\ origin[p].dst # m
              /\ p \notin body.owned => Welcome(m, p)
    BY <1>1, <1>3, <1>4 DEF ControlRight, DeliveryRight, UtilityRight, Ask, Exchanging
  <1>6. r = n
    BY <1>2, <1>5, ControlStep DEF Conversation
  <1>7. body.ids \subseteq Alive(buffer[r])
    BY <1>5, <1>6 DEF Offered, Alive
  <1>8. PICK live \in {buffer[r], Alive(buffer[r])} :
           \E low \in SUBSET (body.ids \cap live) :
              /\ \A p \in low : body.utils[p] > Threshold(r, p)
              /\ \E order \in Orders(low \ body.owned) :
                    Send(DataFor(r, pkt.prev, order, 1), {Top.id}, RestAfter(r))
              /\ buffer' = [buffer EXCEPT ![r] = live]
              /\ SetMaxUtil(r, Raised(low, body.utils))
              /\ UNCHANGED <<dmVars, statVars, halted>>
    BY <1>7, RequestUtilsAnswer
  <1>9. PICK low \in SUBSET (body.ids \cap live) :
           /\ \A p \in low : body.utils[p] > Threshold(r, p)
           /\ \E order \in Orders(low \ body.owned) :
                 Send(DataFor(r, pkt.prev, order, 1), {Top.id}, RestAfter(r))
           /\ buffer' = [buffer EXCEPT ![r] = live]
           /\ SetMaxUtil(r, Raised(low, body.utils))
           /\ UNCHANGED <<dmVars, statVars, halted>>
    BY <1>8
  <1>10. /\ \A x \in Nodes : buffer'[x] \subseteq buffer[x]
         /\ buffer'[r] = live
    <2>1. buffer \in [Nodes -> SUBSET PktIDs]
      BY DEF IInv, DataOK
    <2>2. live \subseteq buffer[r]
      BY <1>8 DEF Alive
    <2> QED
      BY <1>2, <1>9, <2>1, <2>2
  <1>11. PICK S : S = low \ body.owned
    OBVIOUS
  <1>12. /\ S \in SUBSET PktIDs /\ S \subseteq low
         /\ \A p \in S : p \in Known /\ Offered(n, p) /\ origin[p].dst # m /\ Welcome(m, p)
    <2>1. buffer[r] \in SUBSET PktIDs
      BY <1>2 DEF IInv, DataOK
    <2>2. live \subseteq buffer[r]
      BY <1>8 DEF Alive
    <2> QED
      BY <1>5, <1>9, <1>11, <2>1, <2>2
  <1>13. PICK order \in Orders(S) : Send(DataFor(n, m, order, 1), {Top.id}, RestAfter(r))
    BY <1>5, <1>6, <1>9, <1>11
  <1>14. Conversation' /\ Forwarded(S, n, m)
    <2>1. /\ pool[Top.id].type # "DATA" /\ pool[Top.id].prev = m /\ pool[Top.id].next = n
          /\ DirectOnly(m)
      BY <1>2, <1>5
    <2>2. UNCHANGED <<dmVars, statVars, halted>>
      BY <1>9
    <2> HIDE DEF pkt, body
    <2> QED
      BY <1>3, <1>10, <1>12, <1>13, <2>1, <2>2, PacketsSent
  <1>15. RequestAnswered(r, m, low, body)
    BY <1>5, <1>6, <1>9, <1>10, <1>12, <1>14 DEF RequestAnswered, Forwarded
  <1> QED
    BY <1>1, <1>5, <1>14, <1>15

\* A node that carries the packet on did not store it: it is not dropped.
LEMMA RelayHeard ==
    ASSUME IInv, Conversation, Frame, NEW r, Receiving(r), pool[Top.id].type = "DATA",
           NEW p \in pool[Top.id].ids, Relay(r, Top.id, pool[Top.id], RestAfter(r), p)
    PROVE  /\ Conversation'
           /\ pool[Top.id].next = r /\ origin[p].dst # r
           /\ p \in Known /\ Access(Top.id, RestAfter(r))
           /\ \E b \in Added(buffer[r], p) : buffer' = [buffer EXCEPT ![r] = b]
           /\ SetMaxUtil(r, [q \in {p} |-> util[r][origin[p].dst]])
  <1>1. pool[Top.id].next = r /\ origin[p].dst # r
    BY DEF Relay
  <1>2. p \notin Alive(buffer[r]) /\ p \in Known
    BY <1>1, PacketStored DEF Alive
  <1>3. /\ \E b \in Added(buffer[r], p) : buffer' = [buffer EXCEPT ![r] = b]
        /\ Access(Top.id, RestAfter(r)) /\ UNCHANGED <<dmVars, statVars, halted>>
        /\ SetMaxUtil(r, [q \in {p} |-> util[r][origin[p].dst]])
    BY <1>2 DEF Relay
  <1>4. Conversation'
    BY <1>1, <1>3, PacketStored
  <1> QED
    BY <1>1, <1>2, <1>3, <1>4

LEMMA ReceiveHeard ==
    ASSUME IInv, SetOK, Conversation, Receive, UNCHANGED Set
    PROVE  Conversation'
  <1>1. PICK r : Receiving(r) /\ recv(r, Top.id, pool[Top.id], RestAfter(r))
    BY Received
  <1>2. Frame /\ Replicating
    BY <1>1, Replicates DEF Receiving, Frame, netVars
  <1>3. CASE ReceptionData(r, Top.id, pool[Top.id], RestAfter(r))
    BY <1>1, <1>2, <1>3, OverhearHeard, DeliverHeard, RelayHeard DEF ReceptionData
  <1> QED
    BY <1>1, <1>2, <1>3, DirectSummaryHeard, DirectRequestHeard, AntipacketHeard,
       AntipacketResponseHeard, RequestContactsHeard, ContactsHeard, SummaryUtilsHeard,
       RequestUtilsHeard DEF recv

\* At the end of a contact a buffer may lose packets whose time is over.
LEMMA DownHeard ==
    ASSUME IInv, Conversation, DGContactDown, UNCHANGED Set
    PROVE  Conversation'
  <1>1. /\ IInv' /\ Idle /\ Idle' /\ Frame /\ StoredOK
        /\ \A n \in Nodes : buffer'[n] \subseteq buffer[n]
        /\ UNCHANGED <<dmVars, statVars, halted>>
    BY DownFacts DEF Frame, Conversation
  <1>2. \A p : Arriving(p) => Arriving(p)'
    BY <1>1, IdleFacts DEF Arriving, statVars
  <1>3. StoredOK'
    BY <1>1, <1>2, StoredKept
  <1> QED
    BY <1>1, <1>3, IdleConversation

LEMMA ConversationNext == IInv /\ SetOK /\ Conversation /\ [DGNext]_dgVars => Conversation'
  <1> SUFFICES ASSUME IInv, SetOK, Conversation, [DGNext]_dgVars PROVE Conversation'
    OBVIOUS
  <1>1. IInv' /\ Replicating
    BY InvNext, Replicates
  <1>2. CASE DGEnvironment /\ UNCHANGED Set
    BY <1>1, <1>2, EnvironmentHeard DEF DGEnvironment
  <1>3. CASE DGContactUp /\ UNCHANGED Set
    BY <1>1, <1>3, ContactUpHeard DEF DGContactUp
  <1>4. CASE DGContactDown /\ UNCHANGED Set
    BY <1>4, DownHeard
  <1>5. CASE Originate /\ UNCHANGED Set
    BY <1>1, <1>5, RecvFromAppHeard DEF Originate
  <1>6. CASE Receive /\ UNCHANGED Set
    BY <1>6, ReceiveHeard
  <1>7. CASE UNCHANGED dgVars
    BY <1>7, ConversationStill DEF dgVars
  <1> QED
    BY <1>2, <1>3, <1>4, <1>5, <1>6, <1>7 DEF DGNext, DGStep

-----------------------------------------------------------------------------
(* What is compared.                                                       *)

\* Packets are for the destinations that nodes have utilities for.
Addressed ==
    /\ \A p \in Known : origin[p].dst \in Destinations
    /\ \A i \in 1..Len(evlist) : evlist[i].ev = "APP" => evlist[i].b \in Destinations

UtilOK ==
    /\ UUpdate \in BOOLEAN
    /\ util \in [Nodes -> [Destinations -> Ranks]]
    /\ \A n \in Nodes : util[n] \in Utilities(n)

MaxOK ==
    /\ DOMAIN MaxUtil = Nodes
    /\ \A n \in Nodes : MaxUtil[n] \in [buffer[n] -> Ranks]

\* The answers say what they should: utilities are those of the node that
\* sent them, still.
Told(pkt) ==
    /\ pkt.type \in {"CONTACTS", "DEST_PREDICT"} =>
          pkt = Reply(pkt.type, pkt.prev, pkt.next, {})
    /\ pkt.type = "REQUEST_PKTS_UTILS" =>
          \E ids \in SUBSET Known : \E owned \in SUBSET ids :
             pkt = Reply("REQUEST_PKTS_UTILS", pkt.prev, pkt.next,
                         [ids |-> ids, owned |-> owned,
                          utils |-> [p \in ids |-> util[pkt.prev][origin[p].dst]]])

\* The inductive invariant, on top of Conversation.
Ranked ==
    /\ UtilOK /\ MaxOK /\ Addressed
    /\ \A id \in DOMAIN pool : Told(pool[id])
    /\ Uphill

LEMMA RankFacts ==
    /\ 0 \in Ranks
    /\ \A n : Utilities(n) \subseteq [Destinations -> Ranks]
    /\ \A n : [d \in Destinations |-> 0] \in Utilities(n)
  <1>1. 0 \in Ranks
    BY DelegationAssumption DEF Ranks
  <1>2. ASSUME NEW n PROVE Utilities(n) \subseteq [Destinations -> Ranks]
    BY DEF Utilities
  <1>3. ASSUME NEW n PROVE [d \in Destinations |-> 0] \in Utilities(n)
    <2>1. CASE UType \in {"Enc", "Bet"}
      BY <1>1, <2>1 DEF Utilities
    <2>2. CASE UType \notin {"Enc", "Bet"}
      BY <1>1, <2>2 DEF Utilities
    <2> QED
      BY <2>1, <2>2
  <1> QED
    BY <1>1, <1>2, <1>3

LEMMA SameUtilities ==
    ASSUME Set' = Set
    PROVE  /\ (isCnR' <=> isCnR) /\ UType' = UType
           /\ \A n : Utilities(n)' = Utilities(n)
  BY DEF isCnR, UType, Utilities, RT

\* Utilities are brought up to date, or stay.
LEMMA Revised ==
    ASSUME UtilOK, UNCHANGED <<Set, UUpdate>>, NEW n \in Nodes, Revise(n) \/ UNCHANGED util
    PROVE  UtilOK'
  <1>1. CASE Revise(n)
    <2>1. PICK u \in Utilities(n) : util' = [util EXCEPT ![n] = u]
      BY <1>1 DEF Revise
    <2>2. u \in [Destinations -> Ranks]
      BY RankFacts
    <2>3. util' \in [Nodes -> [Destinations -> Ranks]]
      BY <2>1, <2>2 DEF UtilOK
    <2>4. \A k \in Nodes : util'[k] \in Utilities(k)
      BY <2>1 DEF UtilOK
    <2> QED
      BY <2>3, <2>4, SameUtilities DEF UtilOK
  <1>2. CASE UNCHANGED util
    BY <1>2, SameUtilities DEF UtilOK
  <1> QED
    BY <1>1, <1>2

Shrunk == \A n \in Nodes : buffer'[n] \subseteq buffer[n]

\* The thresholds of packets that stay.
LEMMA MaxKept ==
    ASSUME MaxOK, KeepMax, Shrunk
    PROVE  /\ MaxOK'
           /\ \A n \in Nodes : \A p \in buffer'[n] : MaxUtil'[n][p] = MaxUtil[n][p]
  BY DEF MaxOK, KeepMax, Shrunk

\* The thresholds of node n that change.
LEMMA MaxSet ==
    ASSUME MaxOK, NEW n \in Nodes, NEW f, SetMaxUtil(n, f),
           \A p \in DOMAIN f : f[p] \in Ranks,
           \A k \in Nodes : \A p \in buffer'[k] : p \in buffer[k] \/ (k = n /\ p \in DOMAIN f)
    PROVE  /\ MaxOK'
           /\ ~isCnR => \A k \in Nodes : \A p \in buffer'[k] :
                 MaxUtil'[k][p] = IF k = n /\ p \in DOMAIN f THEN f[p] ELSE MaxUtil[k][p]
  <1>1. CASE isCnR
    <2>1. MaxUtil' = [k \in Nodes |-> [p \in buffer'[k] |-> 0]]
      BY <1>1 DEF SetMaxUtil
    <2> QED
      BY <1>1, <2>1, RankFacts DEF MaxOK
  <1>2. CASE ~isCnR
    <2>1. MaxUtil' = [k \in Nodes |-> [p \in buffer'[k] |->
                        IF k = n /\ p \in DOMAIN f THEN f[p] ELSE MaxUtil[k][p]]]
      BY <1>2 DEF SetMaxUtil
    <2>2. \A k \in Nodes : \A p \in buffer'[k] :
             MaxUtil'[k][p] = IF k = n /\ p \in DOMAIN f THEN f[p] ELSE MaxUtil[k][p]
      BY <2>1
    <2>3. ASSUME NEW k \in Nodes PROVE MaxUtil'[k] \in [buffer'[k] -> Ranks]
      <3>1. \A p \in buffer'[k] :
               (IF k = n /\ p \in DOMAIN f THEN f[p] ELSE MaxUtil[k][p]) \in Ranks
        BY DEF MaxOK
      <3> QED
        BY <2>1, <3>1
    <2>4. DOMAIN MaxUtil' = Nodes
      BY <2>1
    <2> QED
      BY <2>2, <2>3, <2>4 DEF MaxOK
  <1> QED
    BY <1>1, <1>2

-----------------------------------------------------------------------------
(* With a control packet about, no replica is on its way to be carried on. *)

LEMMA ControlAlone ==
    IInv /\ OneControl =>
       \A x, y \in DOMAIN pool : ~IsData(x) /\ ~IsData(y) => x = y
  <1> SUFFICES ASSUME IInv, OneControl, NEW x \in DOMAIN pool, NEW y \in DOMAIN pool,
                      ~IsData(x), ~IsData(y)
               PROVE  x = y
    OBVIOUS
  <1>1. PICK i \in 1..Len(evlist) : evlist[i].ev = "TX" /\ evlist[i].id = x
    BY DEF IInv, StackOK
  <1>2. PICK j \in 1..Len(evlist) : evlist[j].ev = "TX" /\ evlist[j].id = y
    BY DEF IInv, StackOK
  <1>3. Len(evlist) \in Nat
    BY DEF IInv, StackOK
  <1>4. i = 1 /\ j = 1
    BY <1>1, <1>2, <1>3 DEF OneControl
  <1> QED
    BY <1>1, <1>2, <1>4

LEMMA ControlDirect ==
    Conversation /\ (\E id \in DOMAIN pool : ~IsData(id)) => Uphill
  <1> SUFFICES ASSUME Conversation, NEW c \in DOMAIN pool, ~IsData(c) PROVE Uphill
    OBVIOUS
  <1>1. PICK n \in Nodes, m \in Nodes : Exchanging(n, m)
    BY DEF Conversation
  <1>2. NoData \/ DirectOnly(m)
    <2>1. ControlRight(pool[c], n, m)
      BY <1>1 DEF Exchanging
    <2>2. CASE DeliveryRight(pool[c], n, m)
      BY <2>2 DEF DeliveryRight
    <2>3. CASE UtilityRight(pool[c], n, m)
      BY <2>3 DEF UtilityRight
    <2> QED
      BY <2>1, <2>2, <2>3 DEF ControlRight
  <1>3. \A id \in DOMAIN pool :
           IsData(id) => pool[id].next = m /\ \A p \in pool[id].ids : origin[p].dst = m
    BY <1>1, <1>2 DEF NoData, DirectOnly, Exchanging, DataRight
  <1> QED
    BY <1>3 DEF Uphill, IsData

\* Packet pkt, which is no data packet, has been sent.
ControlSent(pkt) == pkt.type # "DATA" /\ \E id \in DOMAIN pool' : pool'[id] = pkt

\* One of class Routing has.
AskSent == \E pkt : ControlSent(pkt) /\ pkt.type \in Types

LEMMA ControlSentFacts ==
    ASSUME IInv', Conversation', NEW pkt, ControlSent(pkt), Told(pkt)'
    PROVE  Uphill' /\ \A id \in DOMAIN pool' : Told(pool[id])'
  <1>1. PICK c \in DOMAIN pool' : pool'[c] = pkt /\ pkt.type # "DATA"
    BY DEF ControlSent
  <1>2. (Conversation /\ (\E id \in DOMAIN pool : ~IsData(id)) => Uphill)'
    BY ControlDirect, PTL
  <1>3. Uphill'
    BY <1>1, <1>2 DEF IsData
  <1>4. (IInv /\ OneControl =>
           \A x, y \in DOMAIN pool : ~IsData(x) /\ ~IsData(y) => x = y)'
    BY ControlAlone, PTL
  <1>5. \A id \in DOMAIN pool' : pool'[id].type # "DATA" => pool'[id] = pkt
    BY <1>1, <1>4 DEF Conversation, IsData
  <1>6. ASSUME NEW id \in DOMAIN pool' PROVE Told(pool[id])'
    <2>1. CASE pool'[id].type = "DATA"
      BY <2>1 DEF Told
    <2>2. CASE pool'[id] = pkt
      BY <2>2 DEF Told
    <2> QED
      BY <1>5, <2>1, <2>2
  <1> QED
    BY <1>3, <1>6

LEMMA AskSentFacts ==
    ASSUME IInv', Conversation', SetOK, AskSent
    PROVE  Uphill' /\ \A id \in DOMAIN pool' : Told(pool[id])'
  <1>1. PICK pkt : ControlSent(pkt) /\ pkt.type \in Types
    BY DEF AskSent
  <1>2. Told(pkt)'
    BY <1>1, Replicates DEF Told
  <1> QED
    BY <1>1, <1>2, ControlSentFacts

\* What is sent last is in the pool.
LEMMA LastSent ==
    ASSUME variousIDs \in Nat, NEW S, NEW s \in Seq(S), NEW pkt, pkt.type # "DATA",
           NEW erased, NEW rest, Send(s \o <<pkt>>, erased, rest)
    PROVE  ControlSent(pkt)
  <1> DEFINE msgs == s \o <<pkt>>
  <1>1. Len(msgs) = Len(s) + 1 /\ Len(s) \in Nat /\ msgs[Len(s) + 1] = pkt
    BY ConcatProperties
  <1> DEFINE id == variousIDs + Len(msgs)
  <1>2. id \in NewIDs(msgs) /\ id - variousIDs = Len(s) + 1
    BY <1>1 DEF NewIDs
  <1>3. pool' = PoolWith(msgs, erased)
    BY DEF Send
  <1> HIDE DEF msgs
  <1>4. id \in DOMAIN pool' /\ pool'[id] = msgs[id - variousIDs]
    BY <1>2, <1>3 DEF PoolWith
  <1> QED
    BY <1>1, <1>2, <1>4 DEF ControlSent

LEMMA OneSent ==
    ASSUME variousIDs \in Nat, NEW pkt, pkt.type # "DATA",
           NEW erased, NEW rest, Send(<<pkt>>, erased, rest)
    PROVE  ControlSent(pkt)
  <1>1. NewIDs(<<pkt>>) = (variousIDs + 1)..(variousIDs + 1)
    BY DEF NewIDs
  <1>2. pool' = PoolWith(<<pkt>>, erased) /\ variousIDs + 1 \in NewIDs(<<pkt>>)
    BY <1>1 DEF Send
  <1>3. variousIDs + 1 \in DOMAIN pool' /\ pool'[variousIDs + 1] = pkt
    BY <1>2 DEF PoolWith
  <1> QED
    BY <1>3 DEF ControlSent

\* The direct transfers end with the first message of the exchange proper.
LEMMA ProceedSent ==
    ASSUME IInv, SetOK, conn' \in [Nodes -> SUBSET Nodes], NEW n \in Nodes, NEW m \in Nodes,
           NEW S \in SUBSET PktIDs, NEW order \in Orders(S), NEW left, NEW erased, NEW rest,
           Send(DataFor(n, m, order, 1) \o Proceed(n, m, left), erased, rest)
    PROVE  AskSent
  <1>1. PICK pkt : Proceed(n, m, left) = <<pkt>> /\ pkt.type \in {"SUMMARY", "REQUEST_CONTACTS"}
    <2>1. \/ Proceed(n, m, left) = <<Control("SUMMARY", n, m, NotDestinedTo(left, m))>>
          \/ Proceed(n, m, left) = <<Control("REQUEST_CONTACTS", n, m, {})>>
      BY Replicates, SettingsFacts
    <2>2. \A type, ids : Control(type, n, m, ids).type = type
      BY DEF Control
    <2> QED
      BY <2>1, <2>2
  <1>2. Sendable(DataFor(n, m, order, 1), n, conn')
    BY SendableData
  <1>3. PICK T : DataFor(n, m, order, 1) \in Seq(T)
    BY <1>2 DEF Sendable
  <1>4. PICK s : s = DataFor(n, m, order, 1)
    OBVIOUS
  <1>5. s \in Seq(T) /\ Send(s \o <<pkt>>, erased, rest)
    BY <1>1, <1>3, <1>4
  <1>6. variousIDs \in Nat
    BY DEF IInv, StackOK
  <1>7. ControlSent(pkt)
    BY <1>1, <1>5, <1>6, LastSent
  <1> QED
    BY <1>1, <1>7, TypeFacts DEF AskSent

-----------------------------------------------------------------------------
(* The steps.                                                              *)

LEMMA RankedFrom ==
    ASSUME Addressed, origin' = origin, NoApp(evlist'), UtilOK', MaxOK', Uphill',
           \A id \in DOMAIN pool' : Told(pool[id])'
    PROVE  Ranked'
  <1>1. Addressed'
    BY DEF Addressed, NoApp, Known
  <1> QED
    BY <1>1 DEF Ranked

\* The direct transfers.
LEMMA DirectRanked ==
    ASSUME IInv, SetOK, conn' \in [Nodes -> SUBSET Nodes], NEW n \in Nodes, NEW m \in Nodes,
           NEW b \in SUBSET buffer[n], NEW info, NEW erased, NEW rest,
           SendDirectPackets(n, m, b, info, erased, rest)
    PROVE  Shrunk /\ AskSent
  <1> DEFINE out == {p \in DestinedTo(b, m) : ~(KeepsDelivered /\ p \in info)}
  <1> DEFINE left == IF LeavesBuffer THEN Alive(b) \ out ELSE Alive(b)
  <1>1. /\ \E order \in Orders(out) :
               Send(DataFor(n, m, order, 1) \o Proceed(n, m, left), erased, rest)
        /\ buffer' = [buffer EXCEPT ![n] = left]
    BY DEF SendDirectPackets
  <1>2. buffer \in [Nodes -> SUBSET PktIDs]
    BY DEF IInv, DataOK
  <1>3. out \in SUBSET PktIDs /\ left \subseteq buffer[n]
    <2>1. b \in SUBSET PktIDs
      BY <1>2
    <2>2. DestinedTo(b, m) \in SUBSET PktIDs
      BY <2>1, BufferParts
    <2> QED
      BY <2>2 DEF Alive
  <1> HIDE DEF out, left
  <1>4. Shrunk
    BY <1>1, <1>2, <1>3 DEF Shrunk
  <1>5. PICK order \in Orders(out) :
           Send(DataFor(n, m, order, 1) \o Proceed(n, m, left), erased, rest)
    BY <1>1
  <1>6. AskSent
    BY <1>3, <1>5, ProceedSent
  <1> QED
    BY <1>4, <1>6

LEMMA CleanedLess == \A b, info : Cleaned(b, info) \subseteq b
  BY DEF Cleaned

\* A message of class Routing is answered by another one.
LEMMA BaseRanked ==
    ASSUME IInv, SetOK, Conversation', NEW r, Receiving(r),
           \/ ReceptionDirectSummary(r, Top.id, pool[Top.id], RestAfter(r))
           \/ ReceptionDirectRequest(r, Top.id, pool[Top.id], RestAfter(r))
           \/ ReceptionAntipacket(r, Top.id, pool[Top.id], RestAfter(r))
           \/ ReceptionAntipacketResponse(r, Top.id, pool[Top.id], RestAfter(r))
    PROVE  Shrunk /\ AskSent
  <1> DEFINE pkt == pool[Top.id]
  <1>1. pkt.type # "DATA"
    BY DEF ReceptionDirectSummary, ReceptionDirectRequest, ReceptionAntipacket,
           ReceptionAntipacketResponse
  <1>2. /\ r \in Nodes /\ conn' \in [Nodes -> SUBSET Nodes] /\ pkt.prev \in Nodes
        /\ variousIDs \in Nat /\ buffer \in [Nodes -> SUBSET PktIDs]
    BY <1>1, TopFacts, ControlFacts DEF IInv, StackOK, DataOK
  <1>3. Alive(buffer[r]) \subseteq buffer[r]
    BY DEF Alive
  <1>4. ASSUME NEW type \in Types \ {"DATA"}, NEW ids,
               Send(<<Control(type, r, pkt.prev, ids)>>, {Top.id}, RestAfter(r))
        PROVE  AskSent
    <2>1. PICK new : new = Control(type, r, pkt.prev, ids)
      OBVIOUS
    <2>2. new.type = type /\ new.type # "DATA"
      BY <2>1 DEF Control
    <2>3. ControlSent(new)
      BY <1>2, <1>4, <2>1, <2>2, OneSent
    <2> QED
      BY <2>2, <2>3 DEF AskSent
  <1>5. CASE ReceptionDirectSummary(r, Top.id, pkt, RestAfter(r))
    <2>1. \E ids : Send(<<Control("DIRECT_REQUEST", r, pkt.prev, ids)>>, {Top.id}, RestAfter(r))
      BY <1>5 DEF ReceptionDirectSummary
    <2>2. \E live \in {buffer[r], Alive(buffer[r])} : buffer' = [buffer EXCEPT ![r] = live]
      BY <1>5 DEF ReceptionDirectSummary
    <2>3. Shrunk
      BY <1>2, <1>3, <2>2 DEF Shrunk
    <2> QED
      BY <1>4, <2>1, <2>3, TypeFacts
  <1>6. CASE ReceptionAntipacket(r, Top.id, pkt, RestAfter(r))
    <2>1. \E ids : Send(<<Control("ANTIPACKET_RESPONSE", r, pkt.prev, ids)>>, {Top.id}, RestAfter(r))
      BY <1>6 DEF ReceptionAntipacket
    <2>2. \E info : buffer' = [buffer EXCEPT ![r] = Cleaned(buffer[r], info)]
      BY <1>6 DEF ReceptionAntipacket
    <2>3. Shrunk
      BY <1>2, <2>2, CleanedLess DEF Shrunk
    <2> QED
      BY <1>4, <2>1, <2>3, TypeFacts
  <1>7. CASE ReceptionAntipacketResponse(r, Top.id, pkt, RestAfter(r))
    <2>1. PICK info : SendDirectPackets(r, pkt.prev, Cleaned(buffer[r], info), info, {Top.id},
                                        RestAfter(r))
      BY <1>7 DEF ReceptionAntipacketResponse
    <2>2. PICK b : b = Cleaned(buffer[r], info)
      OBVIOUS
    <2>3. b \in SUBSET buffer[r]
      BY <2>2, CleanedLess
    <2> QED
      BY <1>2, <2>1, <2>2, <2>3, DirectRanked
  <1>8. CASE ReceptionDirectRequest(r, Top.id, pkt, RestAfter(r))
    <2> DEFINE live == Alive(buffer[r])
    <2> DEFINE left == IF LeavesBuffer THEN live \ DestinedTo(live, pkt.prev) ELSE live
    <2>1. ~halted'
      BY DEF Conversation, StoredOK
    <2>2. /\ pkt.ids \subseteq live
          /\ \E order \in Orders(pkt.ids) :
                Send(DataFor(r, pkt.prev, order, 1) \o Proceed(r, pkt.prev, left),
                     {Top.id}, RestAfter(r))
          /\ buffer' = [buffer EXCEPT ![r] = left]
      BY <1>8, <2>1 DEF ReceptionDirectRequest, Exit
    <2>3. left \subseteq buffer[r] /\ live \in SUBSET PktIDs
      BY <1>2, <1>3
    <2> HIDE DEF left, live
    <2>4. Shrunk
      BY <1>2, <2>2, <2>3 DEF Shrunk
    <2>5. PICK order \in Orders(pkt.ids) :
             Send(DataFor(r, pkt.prev, order, 1) \o Proceed(r, pkt.prev, left),
                  {Top.id}, RestAfter(r))
      BY <2>2
    <2>6. pkt.ids \in SUBSET PktIDs
      BY <2>2, <2>3
    <2> HIDE DEF pkt
    <2>7. AskSent
      BY <1>2, <2>5, <2>6, ProceedSent
    <2> QED
      BY <2>4, <2>7
  <1> QED
    BY <1>5, <1>6, <1>7, <1>8

\* A message about utilities, or a summary, is answered.
LEMMA UtilsRanked ==
    ASSUME IInv, IInv', SetOK, Conversation, Conversation', Ranked, Frame, UUpdate' = UUpdate,
           NEW r, Receiving(r),
           \/ ReceptionRequestContacts(r, Top.id, pool[Top.id], RestAfter(r))
           \/ ReceptionContacts(r, Top.id, pool[Top.id], RestAfter(r))
           \/ ReceptionSummaryUtils(r, Top.id, pool[Top.id], RestAfter(r))
    PROVE  /\ Shrunk /\ UtilOK' /\ Uphill' /\ \A id \in DOMAIN pool' : Told(pool[id])'
  <1> DEFINE pkt == pool[Top.id]
  <1>1. pkt.type # "DATA"
    BY DEF ReceptionRequestContacts, ReceptionContacts, ReceptionSummaryUtils
  <1>2. /\ r \in Nodes /\ variousIDs \in Nat /\ buffer \in [Nodes -> SUBSET PktIDs]
        /\ Top.id \in DOMAIN pool
    BY TopFacts DEF IInv, StackOK, DataOK
  <1>3. Alive(buffer[r]) \subseteq buffer[r]
    BY DEF Alive
  <1>4. UtilOK /\ UNCHANGED <<Set, UUpdate>>
    BY DEF Ranked, Frame
  <1>5. CASE ReceptionRequestContacts(r, Top.id, pkt, RestAfter(r))
    <2>1. PICK type \in {"CONTACTS", "DEST_PREDICT"} :
             Send(<<Reply(type, r, pkt.prev, {})>>, {Top.id}, RestAfter(r))
      BY <1>5 DEF ReceptionRequestContacts
    <2>2. PICK new : new = Reply(type, r, pkt.prev, {})
      OBVIOUS
    <2>3. new.type = type /\ new.prev = r /\ new.next = pkt.prev
      BY <2>2 DEF Reply
    <2>4. ControlSent(new)
      BY <1>2, <2>1, <2>2, <2>3, OneSent
    <2>5. Told(new)'
      <3>1. new = Reply(new.type, new.prev, new.next, {})
        BY <2>2, <2>3
      <3> QED
        BY <2>1, <2>3, <3>1 DEF Told, Reply
    <2>6. Shrunk /\ UtilOK'
      BY <1>2, <1>4, <1>5, Revised DEF ReceptionRequestContacts, Shrunk
    <2> QED
      BY <2>4, <2>5, <2>6, ControlSentFacts
  <1>6. CASE ReceptionContacts(r, Top.id, pkt, RestAfter(r))
    <2>1. PICK ids : Send(<<Control("SUMMARY", r, pkt.prev, ids)>>, {Top.id}, RestAfter(r))
      BY <1>6 DEF ReceptionContacts
    <2>2. buffer' = [buffer EXCEPT ![r] = Alive(buffer[r])] /\ Revise(r)
      BY <1>6 DEF ReceptionContacts
    <2>3. PICK new : new = Control("SUMMARY", r, pkt.prev, ids)
      OBVIOUS
    <2>4. new.type = "SUMMARY"
      BY <2>3 DEF Control
    <2>5. ControlSent(new)
      BY <1>2, <2>1, <2>3, <2>4, OneSent
    <2>6. AskSent
      BY <2>4, <2>5, TypeFacts DEF AskSent
    <2>7. Shrunk /\ UtilOK'
      BY <1>2, <1>3, <1>4, <2>2, Revised DEF Shrunk
    <2> QED
      BY <2>6, <2>7, AskSentFacts
  <1>7. CASE ReceptionSummaryUtils(r, Top.id, pkt, RestAfter(r))
    <2>1. PICK live \in {buffer[r], Alive(buffer[r])} :
             /\ pkt.type = "SUMMARY"
             /\ buffer' = [buffer EXCEPT ![r] = live]
             /\ UNCHANGED util
             /\ \E ids \in SUBSET pkt.ids : \E owned \in SUBSET ids :
                   Send(<<SummaryAnswer(r, pkt, ids, owned)>>, {Top.id}, RestAfter(r))
      BY <1>7, SummaryUtilsAnswer
    <2>2. PICK ids \in SUBSET pkt.ids : \E owned \in SUBSET ids :
             Send(<<SummaryAnswer(r, pkt, ids, owned)>>, {Top.id}, RestAfter(r))
      BY <2>1
    <2>3. PICK owned \in SUBSET ids :
             Send(<<SummaryAnswer(r, pkt, ids, owned)>>, {Top.id}, RestAfter(r))
      BY <2>2
    <2>4. PICK new : new = SummaryAnswer(r, pkt, ids, owned)
      OBVIOUS
    <2>5. new.type = "REQUEST_PKTS_UTILS" /\ new.prev = r /\ new.next = pkt.prev
      BY <2>4 DEF SummaryAnswer, Reply
    <2>6. ControlSent(new)
      BY <1>2, <2>3, <2>4, <2>5, OneSent
    <2>7. ids \in SUBSET Known
      <3>1. PICK n \in Nodes, m \in Nodes : ControlRight(pkt, n, m)
        BY <1>1, <1>2 DEF Conversation, Exchanging, IsData
      <3> QED
        BY <2>1, <3>1 DEF ControlRight, DeliveryRight, UtilityRight
    <2>8. Told(new)'
      <3>1. new = Reply("REQUEST_PKTS_UTILS", new.prev, new.next,
                        [ids |-> ids, owned |-> owned,
                         utils |-> [p \in ids |-> util'[new.prev][origin'[p].dst]]])
        BY <2>1, <2>4, <2>5 DEF SummaryAnswer, Frame
      <3>2. ids \in SUBSET Known'
        BY <2>7, FrameFacts
      <3> QED
        BY <2>5, <3>1, <3>2 DEF Told
    <2>9. Shrunk /\ UtilOK'
      BY <1>2, <1>3, <1>4, <2>1, Revised DEF Shrunk
    <2> QED
      BY <2>6, <2>8, <2>9, ControlSentFacts
  <1> QED
    BY <1>5, <1>6, <1>7

\* Node n sends what it compared: now the utility of m is above its own, or
\* has become its threshold.
LEMMA RequestRanked ==
    ASSUME IInv, Ranked, Frame, UUpdate' = UUpdate, util' = util, NEW r \in Nodes, NEW m \in Nodes,
           Top.id \in DOMAIN pool,
           pool[Top.id].type = "REQUEST_PKTS_UTILS", pool[Top.id].prev = m,
           NEW low, RequestAnswered(r, m, low, pool[Top.id].body)
    PROVE  /\ UtilOK' /\ MaxOK' /\ Uphill' /\ \A id \in DOMAIN pool' : Told(pool[id])'
  <1> DEFINE body == pool[Top.id].body
  <1>1. PICK ids \in SUBSET Known, owned \in SUBSET Known :
           pool[Top.id] = Reply("REQUEST_PKTS_UTILS", pool[Top.id].prev, pool[Top.id].next,
                                [ids |-> ids, owned |-> owned,
                                 utils |-> [p \in ids |-> util[pool[Top.id].prev][origin[p].dst]]])
    <2>1. Told(pool[Top.id])
      BY DEF Ranked
    <2>2. \A ids \in SUBSET Known : SUBSET ids \subseteq SUBSET Known
      OBVIOUS
    <2> QED
      BY <2>1, <2>2 DEF Told
  <1>2. body = [ids |-> ids, owned |-> owned, utils |-> [p \in ids |-> util[m][origin[p].dst]]]
    BY <1>1 DEF Reply
  <1>3. body.ids = ids /\ body.utils = [p \in ids |-> util[m][origin[p].dst]]
    BY <1>2
  <1> HIDE DEF body
  <1>4. PICK f : f = Raised(low, body.utils)
    OBVIOUS
  <1>5. /\ r # m /\ low \subseteq ids /\ low \subseteq buffer'[r]
        /\ \A p \in low : body.utils[p] > Threshold(r, p)
        /\ SetMaxUtil(r, f) /\ Shrunk
    BY <1>3, <1>4 DEF RequestAnswered, body, Shrunk
  <1>6. /\ DOMAIN f = low
        /\ \A p \in low : body.utils[p] = util[m][origin[p].dst] /\ f[p] = util[m][origin[p].dst]
    BY <1>3, <1>4, <1>5 DEF Raised
  <1>7. \A p \in low : origin[p].dst \in Destinations /\ f[p] \in Ranks
    BY <1>1, <1>5, <1>6 DEF Ranked, Addressed, UtilOK
  <1>8. /\ MaxOK'
        /\ ~isCnR => \A k \in Nodes : \A p \in buffer'[k] :
              MaxUtil'[k][p] = IF k = r /\ p \in DOMAIN f THEN f[p] ELSE MaxUtil[k][p]
    <2>1. \A k \in Nodes : \A p \in buffer'[k] : p \in buffer[k] \/ (k = r /\ p \in DOMAIN f)
      BY <1>5 DEF Shrunk
    <2>2. \A p \in DOMAIN f : f[p] \in Ranks
      BY <1>6, <1>7
    <2> QED
      BY <1>5, <2>1, <2>2, MaxSet DEF Ranked
  <1>9. UtilOK'
    BY Revised DEF Ranked, Frame
  <1>10. Forwarded(low, r, m)
    BY DEF RequestAnswered
  <1>11. \A id \in DOMAIN pool' : Told(pool[id])'
    BY <1>10 DEF Forwarded, DataOf, IsData, Told
  <1>12. Uphill'
    <2> SUFFICES ASSUME NEW id \in DOMAIN pool', NEW p \in pool'[id].ids,
                        origin'[p].dst # pool'[id].next
                 PROVE  IF isCnR'
                        THEN util'[pool'[id].next][origin'[p].dst]
                               > util'[pool'[id].prev][origin'[p].dst]
                        ELSE /\ p \in buffer'[pool'[id].prev]
                             /\ MaxUtil'[pool'[id].prev][p] = util'[pool'[id].next][origin'[p].dst]
      BY DEF Uphill
    <2>1. origin' = origin /\ (isCnR' <=> isCnR)
      BY SameUtilities DEF Frame
    <2>2. \E q \in low : DataOf(pool'[id], r, m, q)
      BY <1>10, <2>1 DEF Forwarded
    <2>3. p \in low /\ pool'[id].prev = r /\ pool'[id].next = m
      BY <2>2 DEF DataOf
    <2>4. CASE isCnR
      BY <1>5, <1>6, <2>1, <2>3, <2>4 DEF Threshold
    <2>5. CASE ~isCnR
      <3>1. MaxUtil'[r][p] = f[p]
        BY <1>5, <1>6, <1>8, <2>3, <2>5
      <3> QED
        BY <1>5, <1>6, <2>1, <2>3, <2>5, <3>1
    <2> QED
      BY <2>4, <2>5
  <1> QED
    BY <1>8, <1>9, <1>11, <1>12

\* A data packet is read: the threshold of its sender is as it was.
LEMMA DataRanked ==
    ASSUME IInv, Conversation, Ranked, Frame, UUpdate' = UUpdate, util' = util,
           NEW r, Receiving(r), pool[Top.id].type = "DATA", Access(Top.id, RestAfter(r)),
           NEW n \in Nodes, NEW m \in Nodes, Exchanging(n, m),
           buffer[n] \subseteq buffer'[n],
           ~isCnR => \A p \in buffer[n] : MaxUtil'[n][p] = MaxUtil[n][p]
    PROVE  /\ UtilOK' /\ Uphill' /\ \A id \in DOMAIN pool' : Told(pool[id])'
  <1>1. \A id \in DOMAIN pool' :
           /\ id \in DOMAIN pool /\ IsData(id) /\ IsData(id)'
           /\ pool'[id].prev = pool[id].prev /\ pool'[id].next = pool[id].next
           /\ pool'[id].ids = pool[id].ids
    BY AccessView DEF Conversation
  <1>2. \A id \in DOMAIN pool' : Told(pool[id])'
    BY <1>1 DEF IsData, Told
  <1>3. UtilOK'
    BY Revised DEF Ranked, Frame
  <1>4. ASSUME NEW id \in DOMAIN pool' PROVE pool[id].prev = n /\ pool[id].next = m
    BY <1>1, <1>4 DEF Exchanging, DataRight
  <1>5. origin' = origin /\ (isCnR' <=> isCnR)
    BY SameUtilities DEF Frame
  <1>6. Uphill'
    <2> SUFFICES ASSUME NEW id \in DOMAIN pool', NEW p \in pool'[id].ids, origin'[p].dst # m
                 PROVE  IF isCnR'
                        THEN util'[m][origin'[p].dst] > util'[n][origin'[p].dst]
                        ELSE /\ p \in buffer'[n]
                             /\ MaxUtil'[n][p] = util'[m][origin'[p].dst]
      BY <1>1, <1>4 DEF Uphill
    <2>1. IF isCnR
          THEN util[m][origin[p].dst] > util[n][origin[p].dst]
          ELSE p \in buffer[n] /\ MaxUtil[n][p] = util[m][origin[p].dst]
      BY <1>1, <1>4, <1>5 DEF Ranked, Uphill, IsData
    <2>2. CASE isCnR
      BY <1>5, <2>1, <2>2
    <2>3. CASE ~isCnR
      BY <1>5, <2>1, <2>3
    <2> QED
      BY <2>2, <2>3
  <1> QED
    BY <1>2, <1>3, <1>6

\* A packet is stored where it is received.
LEMMA RelayRanked ==
    ASSUME IInv, Conversation, Ranked, Frame, UUpdate' = UUpdate, util' = util,
           NEW r, Receiving(r), pool[Top.id].type = "DATA",
           NEW p \in pool[Top.id].ids, Relay(r, Top.id, pool[Top.id], RestAfter(r), p)
    PROVE  /\ UtilOK' /\ MaxOK' /\ Uphill' /\ \A id \in DOMAIN pool' : Told(pool[id])'
  <1>1. /\ pool[Top.id].next = r /\ origin[p].dst # r
        /\ p \in Known /\ Access(Top.id, RestAfter(r))
        /\ \E b \in Added(buffer[r], p) : buffer' = [buffer EXCEPT ![r] = b]
        /\ SetMaxUtil(r, [q \in {p} |-> util[r][origin[p].dst]])
    BY RelayHeard
  <1>2. PICK n \in Nodes, m \in Nodes :
           Exchanging(n, m) /\ DataRight(Top.id, n, m) /\ pool[Top.id].next = m /\ r \in Nodes
    BY DataTop
  <1>3. r = m /\ n # m
    BY <1>1, <1>2 DEF Exchanging
  <1>4. PICK f : f = [q \in {p} |-> util[r][origin[p].dst]]
    OBVIOUS
  <1>5. DOMAIN f = {p} /\ f[p] \in Ranks /\ SetMaxUtil(r, f)
    <2>1. origin[p].dst \in Destinations
      BY <1>1 DEF Ranked, Addressed
    <2>2. util[r][origin[p].dst] \in Ranks
      BY <1>2, <2>1 DEF Ranked, UtilOK
    <2> QED
      BY <1>1, <1>4, <2>2
  <1>6. PICK b \in Added(buffer[r], p) : buffer' = [buffer EXCEPT ![r] = b]
    BY <1>1
  <1>7. b \subseteq buffer[r] \cup {p}
    BY DEF Added, Alive
  <1>8. \A k \in Nodes : buffer'[k] = IF k = r THEN b ELSE buffer[k]
    BY <1>2, <1>6 DEF IInv, DataOK
  <1>9. /\ MaxOK'
        /\ ~isCnR => \A k \in Nodes : \A q \in buffer'[k] :
              MaxUtil'[k][q] = IF k = r /\ q \in DOMAIN f THEN f[q] ELSE MaxUtil[k][q]
    <2>1. \A k \in Nodes : \A q \in buffer'[k] : q \in buffer[k] \/ (k = r /\ q \in DOMAIN f)
      BY <1>5, <1>7, <1>8
    <2>2. \A q \in DOMAIN f : f[q] \in Ranks
      BY <1>5
    <2>3. r \in Nodes /\ MaxOK
      BY <1>2 DEF Ranked
    <2> QED
      BY <1>5, <2>1, <2>2, <2>3, MaxSet
  <1>10. /\ buffer[n] \subseteq buffer'[n]
         /\ ~isCnR => \A q \in buffer[n] : MaxUtil'[n][q] = MaxUtil[n][q]
    BY <1>3, <1>8, <1>9
  <1> QED
    BY <1>1, <1>2, <1>9, <1>10, DataRanked

LEMMA ReceiveRanked ==
    ASSUME IInv, IInv', SetOK, Conversation, Conversation', Ranked, Receive, UNCHANGED Set
    PROVE  Ranked'
  <1>1. PICK r : Receiving(r) /\ recv(r, Top.id, pool[Top.id], RestAfter(r))
    BY Received
  <1>2. Frame /\ origin' = origin /\ UUpdate' = UUpdate /\ Top.id \in DOMAIN pool /\ r \in Nodes
    BY <1>1, Received, TopFacts DEF Receiving, Frame, netVars
  <1>3. NoApp(evlist')
    BY ReceiveKept DEF Kept
  <1>4. UtilOK /\ MaxOK /\ Addressed
    BY DEF Ranked
  <1> SUFFICES UtilOK' /\ MaxOK' /\ Uphill' /\ \A id \in DOMAIN pool' : Told(pool[id])'
    BY <1>2, <1>3, <1>4, RankedFrom
  <1>5. CASE /\ KeepMax /\ UNCHANGED util
             /\ \/ ReceptionDirectSummary(r, Top.id, pool[Top.id], RestAfter(r))
                \/ ReceptionDirectRequest(r, Top.id, pool[Top.id], RestAfter(r))
                \/ ReceptionAntipacket(r, Top.id, pool[Top.id], RestAfter(r))
                \/ ReceptionAntipacketResponse(r, Top.id, pool[Top.id], RestAfter(r))
    <2>1. Shrunk /\ AskSent
      BY <1>1, <1>5, BaseRanked
    <2>2. UtilOK'
      BY <1>2, <1>4, <1>5, Revised
    <2> QED
      BY <1>4, <1>5, <2>1, <2>2, MaxKept, AskSentFacts
  <1>6. CASE /\ KeepMax
             /\ \/ ReceptionRequestContacts(r, Top.id, pool[Top.id], RestAfter(r))
                \/ ReceptionContacts(r, Top.id, pool[Top.id], RestAfter(r))
                \/ ReceptionSummaryUtils(r, Top.id, pool[Top.id], RestAfter(r))
    <2>1. Shrunk /\ UtilOK' /\ Uphill' /\ \A id \in DOMAIN pool' : Told(pool[id])'
      BY <1>1, <1>2, <1>6, UtilsRanked
    <2> QED
      BY <1>4, <1>6, <2>1, MaxKept
  <1>7. CASE ReceptionRequestUtils(r, Top.id, pool[Top.id], RestAfter(r))
    <2>1. util' = util /\ pool[Top.id].type = "REQUEST_PKTS_UTILS"
      BY <1>7, RequestUtilsAnswer
    <2>2. \E m \in Nodes : \E low :
             pool[Top.id].prev = m /\ RequestAnswered(r, m, low, pool[Top.id].body)
      BY <1>1, <1>2, <1>7, RequestUtilsHeard
    <2> QED
      BY <1>2, <2>1, <2>2, RequestRanked
  <1>8. CASE ReceptionData(r, Top.id, pool[Top.id], RestAfter(r))
    <2>1. util' = util /\ pool[Top.id].type = "DATA"
      BY <1>8 DEF ReceptionData
    <2>2. CASE \E p \in pool[Top.id].ids : Relay(r, Top.id, pool[Top.id], RestAfter(r), p)
      BY <1>1, <1>2, <2>1, <2>2, RelayRanked
    <2>3. CASE /\ KeepMax
               /\ \/ Overhear(r, Top.id, pool[Top.id], RestAfter(r))
                  \/ \E p \in pool[Top.id].ids : Deliver(r, Top.id, pool[Top.id], RestAfter(r), p)
      <3>1. ~halted'
        BY DEF Conversation, StoredOK
      <3>2. Access(Top.id, RestAfter(r)) /\ buffer' = buffer
        BY <2>3, <3>1 DEF Overhear, Deliver, Exit
      <3>3. Shrunk
        BY <3>2 DEF Shrunk
      <3>4. MaxOK' /\ \A n \in Nodes : \A p \in buffer'[n] : MaxUtil'[n][p] = MaxUtil[n][p]
        BY <1>4, <2>3, <3>3, MaxKept
      <3>5. PICK n \in Nodes, m \in Nodes : Exchanging(n, m)
        BY <1>1, <2>1, DataTop
      <3> QED
        BY <1>1, <1>2, <2>1, <3>2, <3>4, <3>5, DataRanked
    <2> QED
      BY <1>8, <2>2, <2>3 DEF ReceptionData
  <1> QED
    BY <1>1, <1>5, <1>6, <1>7, <1>8 DEF recv

\* Nothing is in transmission: nothing was compared.
LEMMA IdleRanked ==
    ASSUME Idle', Addressed', UtilOK', MaxOK'
    PROVE  Ranked'
  BY DEF Idle, Ranked, Uphill

LEMMA UpRanked ==
    ASSUME IInv, IInv', SetOK, Conversation', Ranked, DGContactUp, UNCHANGED Set
    PROVE  Ranked'
  <1>1. /\ TopIs("UP") /\ Connect(Top.a, Top.b) /\ UNCHANGED <<now, origin>>
        /\ Contact(Top.a, Top.b, Tail(evlist))
        /\ KeepMax /\ UUpdate' = UUpdate /\ (Revise(Top.a) \/ UNCHANGED util)
    BY DEF DGContactUp, ContactUp
  <1>2. /\ Top.a \in Nodes /\ Top.b \in Nodes /\ Top.a # Top.b
        /\ conn' \in [Nodes -> SUBSET Nodes] /\ NoApp(evlist')
        /\ buffer \in [Nodes -> SUBSET PktIDs] /\ variousIDs \in Nat
    <2>1. Top.a \in Nodes /\ Top.b \in Nodes /\ Top.a # Top.b
      BY <1>1, ContactFacts
    <2>2. conn' \in [Nodes -> SUBSET Nodes]
      BY <1>1, <2>1, LinkFacts DEF IInv
    <2>3. NoApp(evlist')
      BY GreetingKept DEF DGContactUp, Kept
    <2> QED
      BY <2>1, <2>2, <2>3 DEF IInv, DataOK, StackOK
  <1>3. UtilOK /\ MaxOK /\ Addressed
    BY DEF Ranked
  <1>4. ASSUME NEW type \in Types \ {"DATA"}, NEW ids,
               Send(<<Control(type, Top.a, Top.b, ids)>>, {}, Tail(evlist))
        PROVE  AskSent
    <2>1. PICK new, no : new = Control(type, Top.a, Top.b, ids) /\ no = {}
      OBVIOUS
    <2>2. new.type = type /\ new.type # "DATA"
      BY <2>1 DEF Control
    <2>3. ControlSent(new)
      BY <1>2, <1>4, <2>1, <2>2, OneSent
    <2> QED
      BY <2>2, <2>3 DEF AskSent
  <1>5. Shrunk /\ AskSent
    <2>1. CASE SendVaccine(Top.a, Top.b, Tail(evlist))
      BY <1>4, <2>1, TypeFacts DEF SendVaccine, Shrunk
    <2>2. CASE SendDirectSummary(Top.a, Top.b, Tail(evlist))
      <3>1. AskSent
        BY <1>4, <2>2, TypeFacts DEF SendDirectSummary
      <3>2. Alive(buffer[Top.a]) \subseteq buffer[Top.a]
        BY DEF Alive
      <3>3. Shrunk
        BY <1>2, <2>2, <3>2 DEF SendDirectSummary, Shrunk
      <3> QED
        BY <3>1, <3>3
    <2>3. CASE SendDirectPackets(Top.a, Top.b, Cleaned(buffer[Top.a], delivered[Top.a]),
                                 delivered[Top.a], {}, Tail(evlist))
      <3>1. PICK b, no : b = Cleaned(buffer[Top.a], delivered[Top.a]) /\ no = {}
        OBVIOUS
      <3>2. b \in SUBSET buffer[Top.a]
        BY <3>1, CleanedLess
      <3>3. SendDirectPackets(Top.a, Top.b, b, delivered[Top.a], no, Tail(evlist))
        BY <2>3, <3>1
      <3> QED
        BY <1>2, <3>2, <3>3, DirectRanked
    <2> QED
      BY <1>1, <2>1, <2>2, <2>3 DEF Contact
  <1>6. UtilOK'
    BY <1>1, <1>2, <1>3, Revised
  <1>7. MaxOK'
    BY <1>1, <1>3, <1>5, MaxKept
  <1>8. Uphill' /\ \A id \in DOMAIN pool' : Told(pool[id])'
    BY <1>5, AskSentFacts
  <1> QED
    BY <1>1, <1>2, <1>3, <1>6, <1>7, <1>8, RankedFrom

LEMMA DownRanked ==
    ASSUME IInv, Ranked, DGContactDown, UNCHANGED Set
    PROVE  Ranked'
  <1>1. /\ Idle' /\ NoApp(evlist') /\ Top.a \in Nodes /\ Shrunk
        /\ origin' = origin /\ UUpdate' = UUpdate
    BY DownFacts DEF Shrunk
  <1>2. UtilOK /\ MaxOK /\ Addressed
    BY DEF Ranked
  <1>3. UtilOK'
    <2>1. Revise(Top.a) \/ UNCHANGED util
      BY DEF DGContactDown
    <2> QED
      BY <1>1, <1>2, <2>1, Revised
  <1>4. ASSUME KeepMax PROVE MaxOK'
    BY <1>1, <1>2, <1>4, MaxKept
  <1>5. ASSUME \E u \in UtilityFor(Top.a, Top.b) : Update(Top.a, Top.b, u)
        PROVE  MaxOK'
    <2>1. PICK u \in UtilityFor(Top.a, Top.b) : Update(Top.a, Top.b, u)
      BY <1>5
    <2>2. u \in Ranks
      <3>1. util'[Top.a] \in [Destinations -> Ranks]
        BY <1>1, <1>3 DEF UtilOK
      <3> QED
        BY <3>1 DEF UtilityFor
    <2> DEFINE concerned == {p \in buffer'[Top.a] :
                               UType \in {"LTS", "Prophet"} => origin[p].dst = Top.b}
    <2> DEFINE f == [p \in concerned |->
                       IF u > MaxUtil[Top.a][p] THEN u ELSE MaxUtil[Top.a][p]]
    <2>3. SetMaxUtil(Top.a, f)
      BY <2>1 DEF Update
    <2>4. concerned \subseteq buffer[Top.a]
      BY <1>1 DEF Shrunk
    <2>5. \A p \in concerned : MaxUtil[Top.a][p] \in Ranks
      BY <1>1, <1>2, <2>4 DEF MaxOK
    <2> HIDE DEF concerned
    <2>6. \A p \in DOMAIN f : f[p] \in Ranks
      BY <2>2, <2>5
    <2> HIDE DEF f
    <2>7. \A k \in Nodes : \A p \in buffer'[k] : p \in buffer[k]
      BY <1>1 DEF Shrunk
    <2> QED
      BY <1>1, <1>2, <2>3, <2>6, <2>7, MaxSet
  <1>6. MaxOK'
    BY <1>4, <1>5 DEF DGContactDown
  <1>7. Addressed'
    BY <1>1, <1>2 DEF Addressed, NoApp, Known
  <1> QED
    BY <1>1, <1>3, <1>6, <1>7, IdleRanked

LEMMA OriginateRanked ==
    ASSUME IInv, Ranked, Originate, UNCHANGED Set
    PROVE  Ranked'
  <1> DEFINE p == Len(origin) + 1
  <1> DEFINE pkt == [src |-> Top.a, dst |-> Top.b, time |-> now]
  <1>1. /\ TopIs("APP") /\ origin' = Append(origin, pkt) /\ evlist' = Tail(evlist)
        /\ pool' = pool /\ UNCHANGED utilVars
    BY DEF Originate, RecvFromApp
  <1>2. PICK b \in Added(buffer[Top.a], p) : buffer' = [buffer EXCEPT ![Top.a] = b]
    BY DEF Originate, RecvFromApp
  <1>3. /\ Top.a \in Nodes /\ Tail(evlist) = <<>> /\ evlist # <<>> /\ Head(evlist).ev # "TX"
        /\ evlist \in Seq(Event)
    BY <1>1, ContactFacts
  <1>4. Idle'
    BY <1>1, <1>3, NoTransmission DEF IInv, Idle
  <1>5. UtilOK /\ MaxOK /\ Addressed
    BY DEF Ranked
  <1>6. UtilOK'
    BY <1>1, <1>5, SameUtilities DEF UtilOK, utilVars
  <1>7. Top.b \in Destinations
    <2>1. Top = evlist[1] /\ 1 \in 1..Len(evlist) /\ evlist[1].ev = "APP"
      BY <1>1, <1>3 DEF TopIs, Top
    <2> QED
      BY <1>5, <2>1 DEF Addressed
  <1>8. Addressed'
    <2>1. origin \in Seq([src : Nodes, dst : Nodes, time : 0..MaxTime])
      BY DEF IInv, NetOK
    <2>2. \A q \in Known' : IF q \in Known THEN origin'[q] = origin[q] ELSE origin'[q] = pkt
      BY <1>1, <2>1 DEF Known
    <2>3. \A q \in Known' : origin'[q].dst \in Destinations
      BY <1>5, <1>7, <2>2 DEF Addressed
    <2>4. evlist' = <<>> /\ Len(evlist') = 0
      BY <1>1, <1>3
    <2>5. \A i \in 1..Len(evlist') : FALSE
      BY <2>4
    <2> QED
      BY <2>3, <2>5 DEF Addressed
  <1>9. PICK f : /\ f = [q \in {p} |-> IF fromGraph THEN 0 ELSE util[Top.a][Top.b]]
                 /\ SetMaxUtil(Top.a, f)
    BY DEF Originate
  <1>10. DOMAIN f = {p} /\ f[p] \in Ranks
    <2>1. util[Top.a][Top.b] \in Ranks
      BY <1>3, <1>5, <1>7 DEF UtilOK
    <2> QED
      BY <1>9, <2>1, RankFacts
  <1> HIDE DEF p
  <1>11. b \subseteq buffer[Top.a] \cup {p}
    BY DEF Added, Alive
  <1>12. MaxOK'
    <2>1. \A k \in Nodes : buffer'[k] = IF k = Top.a THEN b ELSE buffer[k]
      BY <1>2, <1>3 DEF IInv, DataOK
    <2>2. \A k \in Nodes : \A q \in buffer'[k] : q \in buffer[k] \/ (k = Top.a /\ q \in DOMAIN f)
      BY <1>10, <1>11, <2>1
    <2>3. \A q \in DOMAIN f : f[q] \in Ranks
      BY <1>10
    <2> QED
      BY <1>3, <1>5, <1>9, <2>2, <2>3, MaxSet
  <1> QED
    BY <1>4, <1>6, <1>8, <1>12, IdleRanked

LEMMA EnvironmentRanked ==
    ASSUME IInv, Ranked, DGEnvironment, UNCHANGED Set
    PROVE  Ranked'
  <1>1. /\ evlist = <<>> /\ UNCHANGED <<pool, origin, buffer, UUpdate, MaxUtil>>
        /\ \/ util' = util
           \/ util' \in {u \in [Nodes -> [Destinations -> Ranks]] :
                            \A n \in Nodes : u[n] \in Utilities(n)}
    BY DEF DGEnvironment, Environment, Tick, BeginContact, EndContact, TouchContact, Generate,
       Schedule, Quiet, netVars, msgVars
  <1>2. UtilOK /\ MaxOK /\ Addressed
    BY DEF Ranked
  <1>3. Idle'
    <2>1. 1..Len(evlist) = {}
      BY <1>1
    <2> QED
      BY <1>1, <2>1 DEF IInv, StackOK, Idle
  <1>4. UtilOK'
    BY <1>1, <1>2, SameUtilities DEF UtilOK
  <1>5. MaxOK'
    BY <1>1, <1>2 DEF MaxOK
  <1>6. \A i \in 1..Len(evlist') : evlist'[i].ev = "APP" => evlist'[i].b \in Destinations
    <2>1. CASE Tick
      BY <1>2, <2>1 DEF Tick, Addressed, msgVars
    <2>2. CASE \E c \in Encounters :
                  BeginContact(c[1], c[2]) \/ EndContact(c[1], c[2]) \/ TouchContact(c[1], c[2])
      BY <2>2 DEF BeginContact, EndContact, TouchContact, Schedule, ContactEvent
    <2>3. CASE \E f \in Flows : Generate(f[1], f[2])
      <3>1. PICK f \in Flows : evlist' = <<ContactEvent("APP", f[1], f[2])>>
        BY <2>3 DEF Generate, Schedule
      <3>2. f[2] \in Destinations
        BY DEF Destinations
      <3> QED
        BY <3>1, <3>2 DEF ContactEvent
    <2> QED
      BY <2>1, <2>2, <2>3 DEF DGEnvironment, Environment
  <1>7. Addressed'
    BY <1>1, <1>2, <1>6 DEF Addressed, Known
  <1> QED
    BY <1>3, <1>4, <1>5, <1>7, IdleRanked

LEMMA RankedInit == DGInit => Ranked
  <1> SUFFICES ASSUME DGInit PROVE Ranked
    OBVIOUS
  <1>1. UtilOK
    BY RankFacts DEF DGInit, UtilOK
  <1>2. MaxOK
    BY DEF DGInit, Init, MaxOK
  <1>3. Addressed
    BY DEF DGInit, Init, Addressed, Known
  <1> QED
    BY <1>1, <1>2, <1>3 DEF DGInit, Init, Ranked, Uphill

LEMMA RankedNext ==
    IInv /\ SetOK /\ Conversation /\ Ranked /\ [DGNext]_dgVars => Ranked'
  <1> SUFFICES ASSUME IInv, SetOK, Conversation, Ranked, [DGNext]_dgVars PROVE Ranked'
    OBVIOUS
  <1>1. IInv' /\ Conversation'
    BY InvNext, ConversationNext
  <1>2. CASE DGEnvironment /\ UNCHANGED Set
    BY <1>2, EnvironmentRanked
  <1>3. CASE DGContactUp /\ UNCHANGED Set
    BY <1>1, <1>3, UpRanked
  <1>4. CASE DGContactDown /\ UNCHANGED Set
    BY <1>4, DownRanked
  <1>5. CASE Originate /\ UNCHANGED Set
    BY <1>5, OriginateRanked
  <1>6. CASE Receive /\ UNCHANGED Set
    BY <1>1, <1>6, ReceiveRanked
  <1>7. CASE UNCHANGED dgVars
    <2>1. UtilOK' /\ MaxOK' /\ Addressed'
      BY <1>7, SameUtilities DEF dgVars, vars, utilVars, netVars, msgVars, Ranked, UtilOK,
         MaxOK, Addressed, Known
    <2>2. \A id \in DOMAIN pool' : Told(pool[id])'
      BY <1>7 DEF dgVars, vars, utilVars, netVars, msgVars, Ranked, Told, Known
    <2>3. Uphill'
      BY <1>7, SameUtilities DEF dgVars, vars, utilVars, netVars, msgVars, Ranked, Uphill
    <2> QED
      BY <2>1, <2>2, <2>3 DEF Ranked
  <1> QED
    BY <1>2, <1>3, <1>4, <1>5, <1>6, <1>7 DEF DGNext, DGStep

-----------------------------------------------------------------------------
(* The theorems.                                                           *)

\* Whatever is in transmission belongs to one exchange, which goes by the rules.
THEOREM OneExchange == DGSpec => []Conversation
  <1>1. DGInit => Conversation
    BY ConversationInit DEF DGInit
  <1> QED
    BY <1>1, ConversationNext, Invariance, SettingsKept, PTL DEF DGSpec

\* Answers, utilities and thresholds are what the comparisons take them for.
THEOREM OneOrder == DGSpec => []Ranked
  BY RankedInit, RankedNext, OneExchange, Invariance, SettingsKept, PTL DEF DGSpec

\* The variables keep their types; every stored packet has a threshold, and
\* no other.
THEOREM TypeCorrect == DGSpec => []DGTypeOK
  <1>1. IInv /\ SetOK /\ Conversation /\ Ranked => DGTypeOK
    <2> SUFFICES ASSUME IInv, SetOK, Conversation, Ranked PROVE DGTypeOK
      OBVIOUS
    <2>1. ASSUME NEW id \in DOMAIN pool
          PROVE  \/ pool[id] \in Message
                 \/ pool[id] \in Answer({"CONTACTS", "DEST_PREDICT"}, {{}})
                 \/ \E ids \in SUBSET PktIDs :
                       pool[id] \in Answer({"REQUEST_PKTS_UTILS"},
                           [ids : {ids}, owned : SUBSET ids, utils : [ids -> Ranks]])
      <3>1. IsPacket(pool[id]) /\ Told(pool[id])
        BY DEF IInv, StackOK, Ranked
      <3>2. CASE pool[id].type \in Types
        BY <3>1, <3>2 DEF IsPacket
      <3>3. CASE pool[id].type \in {"CONTACTS", "DEST_PREDICT"}
        <4>1. pool[id] = Reply(pool[id].type, pool[id].prev, pool[id].next, {})
          BY <3>1, <3>3 DEF Told
        <4>2. pool[id].prev \in Nodes /\ pool[id].next \in Nodes
          BY <3>1 DEF IsPacket
        <4> QED
          BY <3>3, <4>1, <4>2 DEF Reply, Answer
      <3>4. CASE pool[id].type = "REQUEST_PKTS_UTILS"
        <4>1. PICK ids \in SUBSET Known : \E owned \in SUBSET ids :
                 pool[id] = Reply("REQUEST_PKTS_UTILS", pool[id].prev, pool[id].next,
                         [ids |-> ids, owned |-> owned,
                          utils |-> [p \in ids |-> util[pool[id].prev][origin[p].dst]]])
          BY <3>1, <3>4 DEF Told
        <4>2. PICK owned \in SUBSET ids :
                 pool[id] = Reply("REQUEST_PKTS_UTILS", pool[id].prev, pool[id].next,
                         [ids |-> ids, owned |-> owned,
                          utils |-> [p \in ids |-> util[pool[id].prev][origin[p].dst]]])
          BY <4>1
        <4>3. pool[id].prev \in Nodes /\ pool[id].next \in Nodes
          BY <3>1 DEF IsPacket
        <4>4. [p \in ids |-> util[pool[id].prev][origin[p].dst]] \in [ids -> Ranks]
          BY <4>3 DEF Ranked, Addressed, UtilOK
        <4>5. ids \in SUBSET PktIDs
          BY PktFacts DEF IInv, NetOK, Known, PktIDs
        <4>6. PICK utils \in [ids -> Ranks] :
                 pool[id] = Reply("REQUEST_PKTS_UTILS", pool[id].prev, pool[id].next,
                                  [ids |-> ids, owned |-> owned, utils |-> utils])
          BY <4>2, <4>4
        <4>7. pool[id] \in Answer({"REQUEST_PKTS_UTILS"},
                              [ids : {ids}, owned : SUBSET ids, utils : [ids -> Ranks]])
          BY <4>3, <4>6 DEF Reply, Answer
        <4> QED
          BY <4>5, <4>7
      <3>5. \/ pool[id].type \in Types
            \/ pool[id].type \in {"CONTACTS", "DEST_PREDICT", "REQUEST_PKTS_UTILS"}
        <4>1. CASE IsData(id)
          BY <4>1, TypeFacts DEF IsData
        <4>2. CASE ~IsData(id)
          BY <4>2, TypeFacts DEF Conversation, Exchanging, ControlRight, DeliveryRight,
             UtilityRight
        <4> QED
          BY <4>1, <4>2
      <3> QED
        BY <3>2, <3>3, <3>4, <3>5
    <2>2. CommonTypeOK
      BY InvImplies
    <2> QED
      BY <2>1, <2>2 DEF DGTypeOK, Ranked, UtilOK, MaxOK
  <1> QED
    BY <1>1, OneOrder, OneExchange, Invariance, SettingsKept, PTL

\* A replica on its way to be carried on goes up, by what was compared: the
\* receiver's utility is above the sender's, or is the sender's threshold.
THEOREM AlwaysUphill == DGSpec => []Uphill
  <1>1. Ranked => Uphill
    BY DEF Ranked
  <1> QED
    BY <1>1, OneOrder, PTL

\* No handler ends the program with an error.
THEOREM NeverAborts == DGSpec => []NoError
  <1>1. IInv /\ SetOK /\ Conversation => NoError
    BY ConversationImplies
  <1> QED
    BY <1>1, OneExchange, Invariance, SettingsKept, PTL

\* No packet is sent after its time to live.
THEOREM NeverStale == DGSpec => []NothingStale
  <1>1. IInv /\ SetOK /\ Conversation => NothingStale
    BY ConversationImplies
  <1> QED
    BY <1>1, OneExchange, Invariance, SettingsKept, PTL

\* With a mechanism against duplicates no destination receives a packet twice;
\* a vaccinated node does not carry the packet; and what nodes believe
\* delivered is, when the instant is over.
THEOREM DeliveredOnce == DGSpec => [](NoDuplicates /\ Immunity /\ Truthful)
  <1>1. IInv /\ SetOK /\ Conversation => NoDuplicates /\ Immunity /\ Truthful
    BY ConversationImplies
  <1> QED
    BY <1>1, OneExchange, Invariance, SettingsKept, PTL

\* No message of an exchange is lost, and the pool holds what is in transmission.
THEOREM NothingLost == DGSpec => [](LinksLive /\ PoolExact)
  <1>1. IInv /\ SetOK => LinksLive /\ PoolExact
    BY InvImplies
  <1> QED
    BY <1>1, Invariance, SettingsKept, PTL
=============================================================================
