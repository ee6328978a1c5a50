----------------------------- MODULE Forwarding -----------------------------
(***************************************************************************)
(* The single-copy protocols: direct delivery, PRoPHET, SimBet and Bubble  *)
(* Rap (routing/Direct.cc, Prophet.cc, SimBet.cc, BubbleRap.cc).  A node   *)
(* that meets another hands over what is destined to it, then, by the      *)
(* utilities the two tell each other, the packets the other is a better    *)
(* carrier of, and keeps none of them.  (Where the protocols have the same *)
(* handler, word for word, the lines cited are those of Prophet.cc.)       *)
(*                                                                         *)
(* The delivery predictabilities of PRoPHET are ranks: only their order    *)
(* decides.  SimBet's metrics are computed from the contact graphs.        *)
(* The communities of Bubble Rap, which the durations of contacts decide,  *)
(* may grow whenever the code brings them up to date; its ranks, computed  *)
(* where they are needed, may be anything there.                           *)
(***************************************************************************)
EXTENDS Congestion, Adjacency

CONSTANT
    MaxRank         \* bound: the rank of a node for itself

ASSUME ForwardingAssumption ==
    /\ MaxRank \in Nat \ {0}
    /\ \A s \in Configurations :
          /\ s.RT \in {"DIRECT", "PROPHET", "SIMBET", "BUBBLERAP"}
          /\ s.DM = "JUSTTTL"
          /\ s.CC # "NOCC" => s.RT \in {"PROPHET", "SIMBET"} /\ s.BufferSize > 0

VARIABLES
    dpt,            \* PRoPHET: the delivery predictabilities of each node
    graph,          \* SimBet: the contact graph of each node,
    ego,            \*   and the metrics it took from it last
    community       \* Bubble Rap: the local community of each node

utilVars == <<dpt, graph, ego, community>>
fwVars == <<ccVars, utilVars>>

Destinations == {f[2] : f \in Flows}

Ranks == 0..MaxRank

\* What Bubble Rap tells of a carrier; of two ranks one is higher or neither.
Bubble == [lc : SUBSET Destinations, localRank : 0..1, globalRank : 0..1]

FWInit ==
    /\ CCInit
    /\ dpt = [n \in Nodes |-> [d \in Destinations |-> IF d = n THEN MaxRank ELSE 0]]
    /\ graph = [n \in Nodes |-> NoContacts(Nodes)]
    /\ ego = [n \in Nodes |-> NoMetrics(Nodes)]
    /\ community = [n \in Nodes |-> {n} \cap Destinations]

\* The packets in b for one of the nodes in D.
For(b, D) == {p \in b : origin[p].dst \in D}

-----------------------------------------------------------------------------
(* A new contact.                                                          *)

\* NewContact and Contact, the same but for what they tell the utilities.
ContactUp_(n, m, rest) ==
    /\ graph' = IF RT = "SIMBET" THEN [graph EXCEPT ![n] = SetConnection(@, n, m)] ELSE graph
    /\ SendDirectPackets(n, m, buffer[n], {}, {}, rest)
    /\ UNCHANGED <<information, dpt, ego, community>>

FWContactUp ==
    /\ TopIs("UP")
    /\ Connect(Top.a, Top.b)
    /\ ContactUp_(Top.a, Top.b, Tail(evlist))
    /\ UNCHANGED <<now, origin>>

-----------------------------------------------------------------------------
(* PRoPHET.                                                                *)

\* What the table of n may become with that of m, in any version of DPT: the
\* predictability of m is set anew, as a rule to a higher one (DPTv3 draws one
\* above its limit down to it); those that m has any for may rise.
UpdateDPT(n, m, encDPT) ==
    {t \in [Destinations -> Ranks] :
        \A d \in Destinations :
            \/ t[d] = dpt[n][d]
            \/ t[d] > 0 /\ d = m
            \/ t[d] > dpt[n][d] /\ d # n /\ encDPT[d] > 0}

\* A variant that forwards to nodes that are as good as the sender.
CheckDPsEqual(mine, encDPT) == {d \in Destinations : encDPT[d] >= mine[d]}

CheckDPs(mine, encDPT) == {d \in Destinations : encDPT[d] > mine[d]}

\* All tables age alike, whenever they are looked at.
Aging ==
    dpt' = [n \in Nodes |-> [d \in Destinations |->
               IF d = n THEN dpt[n][d] ELSE dpt[n][d] \div 2]]

ReceptionRequestContacts(n, id, pkt, rest) ==
    /\ pkt.type = "REQUEST_CONTACTS"
    /\ Send(<<IF RT = "PROPHET" THEN Reply("DEST_PREDICT", n, pkt.prev, dpt[n])
              ELSE Reply("CONTACTS", n, pkt.prev, graph[n][n])>>, {id}, rest)
    /\ UNCHANGED <<buffer, dmVars, statVars, halted, information, utilVars>>

\* A variant that compares the tables before it updates its own.
ReceptionDPTEarly(n, id, pkt, rest) ==
    LET out == For(Alive(buffer[n]), CheckDPs(dpt[n], pkt.body))
    IN  /\ pkt.type = "DEST_PREDICT"
        /\ \E mine \in UpdateDPT(n, pkt.prev, pkt.body) :
              /\ dpt' = [dpt EXCEPT ![n] = mine]
              /\ Forward(n, pkt.prev, out, {}, {}, id, rest)
        /\ UNCHANGED <<graph, ego, community>>

ReceptionDPT(n, id, pkt, rest) ==
    /\ pkt.type = "DEST_PREDICT"
    /\ \E mine \in UpdateDPT(n, pkt.prev, pkt.body) :
          LET out == For(Alive(buffer[n]), CheckDPs(mine, pkt.body))
              with(D) == For(out, D)
          IN  /\ dpt' = [dpt EXCEPT ![n] = mine]
              /\ Forward(n, pkt.prev, out,
                         with({d \in Destinations : mine[d] = 0}),
                         with({d \in Destinations : pkt.body[d] <= mine[d]}), id, rest)
    /\ UNCHANGED <<graph, ego, community>>

-----------------------------------------------------------------------------
(* SimBet.                                                                 *)

\* The utility of metrics x for d relative to y's is the mean of their shares
\* in the similarities and in the betweenness of both; a share of nothing is
\* nothing.
SimBetBetter(x, y, d) ==
    LET sims == x.sim[d] + y.sim[d]
        bets == x.bet + y.bet
    IN  IF sims = 0 THEN x.bet > y.bet
        ELSE IF bets = 0 THEN x.sim[d] > y.sim[d]
        ELSE x.sim[d] * bets + x.bet * sims > y.sim[d] * bets + y.bet * sims

ReceptionContacts(n, id, pkt, rest) ==
    LET g == SetConnections(graph[n], pkt.prev, pkt.body)
        mine == Metrics(g, n)
        live == Alive(buffer[n])
    IN  /\ pkt.type = "CONTACTS"
        /\ graph' = [graph EXCEPT ![n] = g]
        /\ ego' = [ego EXCEPT ![n] = mine]
        /\ buffer' = [buffer EXCEPT ![n] = live]
        /\ Send(<<Reply("DEST", n, pkt.prev,
                        [dests |-> {origin[p].dst : p \in live}, metrics |-> mine])>>,
                {id}, rest)
        /\ UNCHANGED <<dmVars, statVars, halted, information, dpt, community>>

ReceptionMetricsPerDest(n, id, pkt, rest) ==
    LET better == {d \in pkt.body.dests : SimBetBetter(ego[n], pkt.body.metrics, d)}
    IN  /\ pkt.type = "DEST"
        /\ Send(<<Reply("REQ_DEST", n, pkt.prev,
                        [dests |-> better, sender |-> pkt.body.metrics, receiver |-> ego[n]])>>,
                {id}, rest)
        /\ UNCHANGED <<buffer, dmVars, statVars, halted, information, utilVars>>

ReceptionReqForDest(n, id, pkt, rest) ==
    LET out == For(Alive(buffer[n]), pkt.body.dests)
        mine == pkt.body.sender
        other == pkt.body.receiver
    IN  /\ pkt.type = "REQ_DEST"
        /\ Forward(n, pkt.prev, out,
                   For(out, {d \in Nodes : mine.sim[d] = 0 /\ mine.bet = 0}),
                   For(out, {d \in Nodes : ~SimBetBetter(other, mine, d)}), id, rest)
        /\ UNCHANGED utilVars

-----------------------------------------------------------------------------
(* Bubble Rap, in its single-copy mode.                                    *)

\* The bubble of n, brought up to date.  Its community has taken in nodes it
\* has met for long enough, or that are familiar to members: any nodes.
Bubbles(n) == {s \in Bubble : community[n] \subseteq s.lc}

ReceptionReqLCandFS(n, id, pkt, rest) ==
    /\ pkt.type = "REQUEST_LC_FS"
    /\ \E s \in Bubbles(n) :
          /\ community' = [community EXCEPT ![n] = s.lc]
          /\ Send(<<Reply("LC_FS", n, pkt.prev, s.lc)>>, {id}, rest)
    /\ UNCHANGED <<buffer, dmVars, statVars, halted, information, dpt, graph, ego>>

ReceptionLCandFS(n, id, pkt, rest) ==
    LET live == Alive(buffer[n])
    IN  /\ pkt.type = "LC_FS"
        /\ \E s \in Bubbles(n) :
              /\ community' = [community EXCEPT ![n] = s.lc]
              /\ Send(<<Reply("BUBBLE_SUMMARY", n, pkt.prev,
                              [ids |-> NotDestinedTo(live, pkt.prev), carrier |-> s])>>,
                      {id}, rest)
        /\ buffer' = [buffer EXCEPT ![n] = live]
        /\ UNCHANGED <<dmVars, statVars, halted, information, dpt, graph, ego>>

\* Is carrier x, by its community and ranks, at least as good as y for d?
encBetterCarrier(x, y, d) ==
    IF d \in y.lc THEN d \in x.lc /\ x.localRank >= y.localRank
    ELSE d \in x.lc \/ x.globalRank >= y.globalRank

ReceptionBubbleSummary(n, id, pkt, rest) ==
    LET live == IF pkt.body.ids = {} THEN buffer[n] ELSE Alive(buffer[n])
        wanted(s) == {p \in pkt.body.ids \ live :
                         ~encBetterCarrier(pkt.body.carrier, s, origin[p].dst)}
    IN  /\ pkt.type = "BUBBLE_SUMMARY"
        /\ \E s \in Bubbles(n) :
              /\ community' = [community EXCEPT ![n] = s.lc]
              /\ Send(<<Reply("MARKED_REQUEST_PKTS", n, pkt.prev, wanted(s))>>, {id}, rest)
        /\ buffer' = [buffer EXCEPT ![n] = live]
        /\ UNCHANGED <<dmVars, statVars, halted, information, dpt, graph, ego>>

\* The scheduler refuses a packet that is not in the buffer.
ReceptionRequestVector(n, id, pkt, rest) ==
    /\ pkt.type = "MARKED_REQUEST_PKTS"
    /\ IF pkt.body \subseteq Alive(buffer[n])
       THEN Forward(n, pkt.prev, pkt.body, {}, {}, id, rest)
       ELSE Exit /\ UNCHANGED information
    /\ UNCHANGED utilVars

-----------------------------------------------------------------------------
\* ReceptionData, for a packet to be stored and carried on.
Relay(n, id, pkt, rest, p) ==
    /\ pkt.next = n
    /\ origin[p].dst # n
    /\ IF p \in Alive(buffer[n]) THEN Exit
       ELSE /\ \E b \in Added(buffer[n], p) : buffer' = [buffer EXCEPT ![n] = b]
            /\ Access(id, rest)
            /\ UNCHANGED <<dmVars, statVars, halted>>

ReceptionData(n, id, pkt, rest) ==
    /\ pkt.type = "DATA"
    /\ \/ Overhear(n, id, pkt, rest)
       \/ \E p \in pkt.ids : Deliver(n, id, pkt, rest, p)
       \/ \E p \in pkt.ids : Relay(n, id, pkt, rest, p)
    /\ UNCHANGED <<information, utilVars>>

recv(n, id, pkt, rest) ==
    \/ ReceptionData(n, id, pkt, rest)
    \/ (ReceptionBufferReq(n, id, pkt, rest) \/ ReceptionBufferRsp(n, id, pkt, rest))
          /\ UNCHANGED utilVars
    \/ ReceptionRequestContacts(n, id, pkt, rest)
    \/ ReceptionDPT(n, id, pkt, rest)
    \/ ReceptionContacts(n, id, pkt, rest)
    \/ ReceptionMetricsPerDest(n, id, pkt, rest)
    \/ ReceptionReqForDest(n, id, pkt, rest)
    \/ ReceptionReqLCandFS(n, id, pkt, rest)
    \/ ReceptionLCandFS(n, id, pkt, rest)
    \/ ReceptionBubbleSummary(n, id, pkt, rest)
    \/ ReceptionRequestVector(n, id, pkt, rest)

Receive ==
    /\ TopIs("TX")
    /\ UNCHANGED netVars
    /\ \E r \in Top.rcv :
          /\ NextReceiver(r)
          /\ IF r \notin conn[Top.a] THEN Discard(r) /\ UNCHANGED <<information, utilVars>>
             ELSE IF Top.id \notin DOMAIN pool THEN Exit /\ UNCHANGED <<information, utilVars>>
             ELSE recv(r, Top.id, pool[Top.id], RestAfter(r))

FWEnvironment ==
    /\ Environment
    /\ IF now' > now THEN Aging ELSE UNCHANGED dpt
    /\ UNCHANGED <<information, graph, ego, community>>

FWNext ==
    /\ \/ FWEnvironment
       \/ FWContactUp
       \/ (ContactDown \/ RecvFromApp) /\ UNCHANGED <<information, utilVars>>
       \/ Receive
    /\ UNCHANGED Set

FWSpec == FWInit /\ [][FWNext]_fwVars

-----------------------------------------------------------------------------
Metric == [sim : [Nodes -> Nat], bet : Nat]

Answer(types, bodies) == [type : types, prev : Nodes, next : Nodes, body : bodies]

IsAnswer(pkt) ==
    \/ pkt \in Answer({"BUFFER_INFO"}, [size : 0..BufferSize, length : 0..BufferSize])
    \/ pkt \in Answer({"DEST_PREDICT"}, [Destinations -> Ranks])
    \/ pkt \in Answer({"CONTACTS"}, SUBSET Nodes)
    \/ pkt \in Answer({"DEST"}, [dests : SUBSET Destinations, metrics : Metric])
    \/ pkt \in Answer({"REQ_DEST"}, [dests : SUBSET Destinations, sender : Metric,
                                     receiver : Metric])
    \/ pkt \in Answer({"LC_FS"}, SUBSET Destinations)
    \/ pkt \in Answer({"BUBBLE_SUMMARY"}, [ids : SUBSET PktIDs, carrier : Bubble])
    \/ pkt \in Answer({"MARKED_REQUEST_PKTS"}, SUBSET PktIDs)

\* The values of the variables, and of the answers that carry utilities.
FWTypeOK ==
    /\ CommonTypeOK
    /\ \A id \in DOMAIN pool : pool[id] \in Message \/ IsAnswer(pool[id])
    /\ information \in
          [Nodes -> SUBSET [recID : Nodes, size : 0..BufferSize, length : 0..BufferSize]]
    /\ dpt \in [Nodes -> [Destinations -> Ranks]]
    /\ graph \in [Nodes -> [Nodes -> SUBSET Nodes]]
    /\ ego \in [Nodes -> Metric]
    /\ community \in [Nodes -> SUBSET Destinations]

\* Packet p is in the buffer of n, or on its way to it.
Has(n, p) ==
    \/ p \in buffer[n]
    \/ \E i \in DOMAIN evlist :
          /\ IsTX(i) /\ n \in evlist[i].rcv
          /\ LET pkt == pool[evlist[i].id]
             IN  pkt.type = "DATA" /\ pkt.next = n /\ p \in pkt.ids

Single == INSTANCE Custody WITH
    Packets <- PktIDs,
    created <- DOMAIN origin,
    custodian <- [p \in PktIDs |-> {n \in Nodes : Has(n, p)}]

\* There is one copy of a packet, in a buffer or on its way, whatever the
\* utilities are and however often they change: it is removed where it is
\* sent, to a carrier or to the destination, and never comes back.
ImplementsCustody == Single!Spec

\* Nor is it lost, where buffers are without limit and packets live on.
NoneLost ==
    BufferSize = 0 /\ TTL = 0 =>
        \A p \in DOMAIN origin : p \in received \/ \E n \in Nodes : Has(n, p)

\* With PRoPHET a packet only ever moves to a carrier with a better chance, by
\* the tables that hold while it is on its way: the sender's has been brought
\* up to date before it compared, the receiver's is in its half of the exchange.
Upward ==
    RT = "PROPHET" =>
        \A id \in DOMAIN pool : pool[id].type = "DATA" =>
            \A p \in pool[id].ids :
                LET d == origin[p].dst
                IN  d = pool[id].next \/ dpt[pool[id].next][d] > dpt[pool[id].prev][d]

\* What is known of a buffer is forgotten with the exchange it was asked for:
\* it is never used for another node or at another time.
Informed ==
    \A n \in Nodes : \A i \in information[n] :
        \E id \in DOMAIN pool :
            pool[id].type # "DATA" /\ {pool[id].prev, pool[id].next} = {n, i.recID}

\* Under a mechanism that keeps to the remaining storage no node drops a
\* packet for one it is handed, although the storage is asked for long
\* before the packets arrive.
AvoidsOverflow ==
    [][ (CongestionControl \in {"AVOIDOVERFLOW", "ACC", "BSA", "CACC"}
            /\ TopIs("TX") /\ Top.id \in DOMAIN pool /\ pool[Top.id].type = "DATA")
          => \A n \in Nodes : Alive(buffer[n]) \subseteq buffer'[n]
      ]_fwVars
=============================================================================
