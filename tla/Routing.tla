------------------------------ MODULE Routing -------------------------------
(***************************************************************************)
(* What all routing protocols of the simulator share: the network they run *)
(* in, and the base class Routing with its deletion mechanisms             *)
(* (routing/Routing.cc, deletion-mechanisms/*.cc, core/PacketPool.cc,      *)
(* core/MAC.cc, core/ConnectionMap.cc, core/Node.cc, core/PacketBuffer.cc, *)
(* core/Statistics.cc).  A protocol is a module that EXTENDS this one and  *)
(* composes the handlers defined here with its own.                        *)
(*                                                                         *)
(* Time and the event list.  Everything a handler sends is inserted at the *)
(* current time, hence on top of the list (module EventList proves it), so *)
(* the events of the current instant are a stack, "evlist".  A broadcast   *)
(* puts one transmission per neighbour on it; they lie next to each other, *)
(* the highest identifier on top, and are one entry here, with the set of  *)
(* the nodes still to be served.  Contacts and packets of the application  *)
(* come from the trace and the traffic generator; the environment puts     *)
(* them on the stack when it is empty, and only then time advances.        *)
(*                                                                         *)
(* Packet buffers are sets of packet identifiers: which packet a full      *)
(* buffer drops and in which order packets leave it, the business of the   *)
(* dropping and scheduling policies, is left open.                         *)
(***************************************************************************)
EXTENDS Naturals, Sequences, FiniteSets

CONSTANTS
    Nodes,          \* node identifiers
    TrafficLoad,    \* number of packets the application generates
    Configurations, \* the settings a simulation may be started with
    Encounters,     \* the lines <<a, b>> the contact trace may have
    Flows,          \* the <<source, destination>> of generated packets
    MaxTime         \* bound: the last instant of the trace

\* The routing protocols, and those whose first message is a summary vector
\* of all packets, or the utilities of the sender for their destinations.
SummaryProtocols ==
    {"EPIDEMIC", "SPRAYANDWAIT", "EBR",
     "Delegation.LTS", "Delegation.Enc", "CnR.LTS", "CnR.Enc"}

DestinationProtocols == {"LSFSPRAYANDWAIT", "LSFSPRAYFOCUS"}

\* Those that first ask for contacts, or for a table of predictabilities.
ContactProtocols ==
    {"PROPHET", "SIMBET", "PROPHETSPRAY",
     "Delegation.Prophet", "Delegation.Bet", "Delegation.Sim",
     "CnR.Prophet", "CnR.Bet", "CnR.Sim"}

Protocols ==
    SummaryProtocols \cup DestinationProtocols \cup ContactProtocols \cup
    {"DIRECT", "MSFSPRAYANDWAIT", "BUBBLERAP"}

\* Settings: the routing protocol, the deletion mechanism, the congestion
\* control, the packets a node can store (0 for an infinite buffer), the time
\* to live (0 for none) and the replicas.
Settings ==
    [RT : Protocols,
     DM : {"JUSTTTL", "NODUPS", "KEEPREP", "VACCINE", "CATACLYSM"},
     CC : {"NOCC", "AVOIDOVERFLOW", "ACC", "FAIRROUTE", "BSA", "CACC"},
     BufferSize : Nat, TTL : Nat, Replicas : Nat]

ASSUME RoutingAssumption ==
    /\ Nodes \subseteq Nat
    /\ IsFiniteSet(Nodes)
    /\ TrafficLoad \in Nat \ {0}
    /\ Configurations \subseteq Settings
    /\ Encounters \subseteq {c \in Nodes \X Nodes : c[1] # c[2]}
    /\ Flows \subseteq {c \in Nodes \X Nodes : c[1] # c[2]}
    /\ MaxTime \in Nat

VARIABLES
    Set,            \* the settings of this simulation, which no action changes
    now,            \* the current time
    conn,           \* ConnectionMap: the neighbours of each node
    evlist,         \* the events of the current instant, a stack
    origin,         \* original packets by identifier: source, destination, time
    pool,           \* all other packets of the PacketPool
    variousIDs,     \* PacketPool: the identifier given out last
    buffer,         \* the packets each node stores
    delivered,      \* the set kept by each node's deletion mechanism
    god,            \* God: packets reported as delivered
    received,       \* Statistics: packets received by their destination
    duplicates,     \* Statistics: packets received there more than once
    halted          \* a handler ended the program with an error

netVars == <<now, conn, origin>>
msgVars == <<evlist, pool, variousIDs>>
dmVars == <<delivered, god>>
statVars == <<received, duplicates>>
vars == <<Set, netVars, msgVars, buffer, dmVars, statVars, halted>>

RT == Set.RT
DelMech == Set.DM
CongestionControl == Set.CC
BufferSize == Set.BufferSize
TTL == Set.TTL
Replicas == Set.Replicas

isSingleCopy == RT \in {"DIRECT", "PROPHET", "SIMBET", "BUBBLERAP"}

needsBufferInformation == CongestionControl # "NOCC"

PktIDs == 1..TrafficLoad

\* Identifiers up to this one are reserved for original packets.
FirstID == TrafficLoad + 1

\* The packets of this class and of the exchange of summary vectors; protocols
\* add their own.
Types ==
    {"DATA", "SUMMARY", "REQUEST", "DIRECT_SUMMARY", "DIRECT_REQUEST",
     "ANTIPACKET", "ANTIPACKET_RESPONSE", "REQUEST_BUFFER_INFO", "REQUEST_CONTACTS",
     "REQUEST_LC_FS", "UTIL_DEST"}

\* A packet: its header (prevHop, nextHop, replicas), its contents (the
\* original's identifier for a data packet) and the access counter.
Message ==
    [type : Types, prev : Nodes, next : Nodes, ids : SUBSET PktIDs,
     rep : Nat, access : Nat]

\* Events: a contact of a with b begins or ends; the application of node a
\* has a packet for b; the pool's packet id sent by a is to reach rcv.
Contact_ == {c \in [ev : {"UP", "DOWN", "APP"}, a : Nodes, b : Nodes] : c.a # c.b}
Transmission == [ev : {"TX"}, a : Nodes, id : Nat, rcv : SUBSET Nodes]
Event == Contact_ \cup Transmission

Init ==
    /\ Set \in Configurations
    /\ now = 0
    /\ conn = [n \in Nodes |-> {}]
    /\ evlist = <<>>
    /\ origin = <<>>
    /\ pool = <<>>
    /\ variousIDs = FirstID
    /\ buffer = [n \in Nodes |-> {}]
    /\ delivered = [n \in Nodes |-> {}]
    /\ god = {}
    /\ received = {}
    /\ duplicates = {}
    /\ halted = FALSE

-----------------------------------------------------------------------------
(* The environment: contact trace, traffic and time.                       *)

Quiet == evlist = <<>> /\ ~halted

\* The code never uses an identifier again; here they start over with every
\* group of events, when no packet is left that could be mistaken.
Schedule(events) ==
    /\ Quiet
    /\ evlist' = events
    /\ variousIDs' = FirstID
    /\ UNCHANGED <<netVars, pool, buffer, dmVars, statVars, halted>>

ContactEvent(ev, a, b) == [ev |-> ev, a |-> a, b |-> b]

\* A line (a, b, begin, end) of the trace puts its second direction on top.
\* Lines may overlap: a contact can begin on a link that exists already, and
\* end when an earlier line has taken the link away.
BeginContact(a, b) ==
    Schedule(<<ContactEvent("UP", b, a), ContactEvent("UP", a, b)>>)

EndContact(a, b) ==
    Schedule(<<ContactEvent("DOWN", b, a), ContactEvent("DOWN", a, b)>>)

\* A contact that begins and ends at one instant.
TouchContact(a, b) ==
    Schedule(<<ContactEvent("UP", b, a), ContactEvent("DOWN", b, a),
               ContactEvent("UP", a, b), ContactEvent("DOWN", a, b)>>)

Generate(a, b) ==
    /\ Len(origin) < TrafficLoad
    /\ Schedule(<<ContactEvent("APP", a, b)>>)

Tick ==
    /\ Quiet
    /\ now < MaxTime
    /\ now' = now + 1
    /\ UNCHANGED <<conn, origin, msgVars, buffer, dmVars, statVars, halted>>

Environment ==
    \/ Tick
    \/ \E c \in Encounters :
          BeginContact(c[1], c[2]) \/ EndContact(c[1], c[2]) \/ TouchContact(c[1], c[2])
    \/ \E f \in Flows : Generate(f[1], f[2])

-----------------------------------------------------------------------------
(* The buffer.  Every access first drops the packets whose time is over.   *)

IsAlive(p) == TTL = 0 \/ now - origin[p].time <= TTL

Alive(b) == {p \in b : IsAlive(p)}

\* A variant that returns packets whose time is over.
DestinedToUnpurged(b, n) == {p \in b : origin[p].dst = n}

DestinedTo(b, n) == {p \in Alive(b) : origin[p].dst = n}

NotDestinedTo(b, n) == {p \in Alive(b) : origin[p].dst # n}

\* A variant that forgets that a size of 0 stands for no limit.
isFullUnlimited(b) == Cardinality(b) > BufferSize

isFull(b) == BufferSize # 0 /\ Cardinality(b) = BufferSize

\* What addPkt(p) may make of a buffer: a full one loses some packet first.
Added(b, p) ==
    LET live == Alive(b)
    IN  IF p \in live THEN {live}
        ELSE IF isFull(live) THEN {(live \ {v}) \cup {p} : v \in live}
        ELSE {live \cup {p}}

-----------------------------------------------------------------------------
(* Packet pool and MAC layer.  A handler runs after the connection map has *)
(* taken the event into account, so it sends over the links conn'.         *)

Control(type, n, m, ids) ==
    [type |-> type, prev |-> n, next |-> m, ids |-> ids, rep |-> 0, access |-> 0]

\* Control packets with contents that are not packet identifiers.
Reply(type, n, m, body) == [type |-> type, prev |-> n, next |-> m, body |-> body]

\* SendPacket: a duplicate of p for m, to be accessed by all neighbours of n.
Data(n, m, p, r) ==
    [type |-> "DATA", prev |-> n, next |-> m, ids |-> {p}, rep |-> r,
     access |-> Cardinality(conn'[n])]

\* The orders in which a set of packets can leave a node.
Orders(S) ==
    {f \in [1..Cardinality(S) -> S] : \A i, j \in DOMAIN f : f[i] = f[j] => i = j}

\* SendPacket for each packet in turn; without neighbours nothing is sent.
DataFor(n, m, order, r) ==
    IF conn'[n] = {} THEN <<>>
    ELSE [i \in 1..Len(order) |-> Data(n, m, order[i], r)]

\* The pool with msgs added in their order, and packet "erased" deleted.
NewIDs(msgs) == (variousIDs + 1)..(variousIDs + Len(msgs))

PoolWith(msgs, erased) ==
    [i \in (DOMAIN pool \ erased) \cup NewIDs(msgs) |->
        IF i \in NewIDs(msgs) THEN msgs[i - variousIDs] ELSE pool[i]]

\* The events of msgs: what is sent last is received first.  Data packets
\* are broadcast, control packets go to one node.
Transmissions(msgs) ==
    [i \in 1..Len(msgs) |->
        LET k == Len(msgs) + 1 - i
        IN  [ev |-> "TX", a |-> msgs[k].prev, id |-> variousIDs + k,
             rcv |-> IF msgs[k].type = "DATA" THEN conn'[msgs[k].prev]
                     ELSE {msgs[k].next}]]

\* A variant without ErasePacket.
SendLeaking(msgs, erased, rest) ==
    /\ pool' = PoolWith(msgs, {})
    /\ evlist' = Transmissions(msgs) \o rest
    /\ variousIDs' = variousIDs + Len(msgs)

\* A variant that schedules what is sent behind the pending events.
SendBehind(msgs, erased, rest) ==
    /\ pool' = PoolWith(msgs, erased)
    /\ evlist' = rest \o Transmissions(msgs)
    /\ variousIDs' = variousIDs + Len(msgs)

\* A handler ends: msgs are sent, packet "erased" leaves the pool and the
\* events "rest" remain.
Send(msgs, erased, rest) ==
    /\ pool' = PoolWith(msgs, erased)
    /\ evlist' = Transmissions(msgs) \o rest
    /\ variousIDs' = variousIDs + Len(msgs)

\* AccessPkt on a data packet, and its deletion after the last access.
Accessed(id) ==
    IF pool[id].access = 1
    THEN [i \in DOMAIN pool \ {id} |-> pool[i]]
    ELSE [pool EXCEPT ![id].access = @ - 1]

Access(id, rest) ==
    /\ pool' = Accessed(id)
    /\ evlist' = rest
    /\ UNCHANGED variousIDs

-----------------------------------------------------------------------------
(* The deletion mechanisms.                                                *)

KeepsDelivered == DelMech \in {"NODUPS", "KEEPREP", "VACCINE"}

NoDuplicatesSupport == DelMech # "JUSTTTL"

OffloaderDeletePkt == DelMech \in {"NODUPS", "VACCINE", "CATACLYSM"}

ExchangeDirectSummary == DelMech \in {"NODUPS", "KEEPREP"}

isDelivered(n, p) == KeepsDelivered /\ p \in delivered[n]

\* The packets node n sets as delivered, and what the God learns of it.
SetAsDelivered(n, ps) ==
    /\ delivered' = IF KeepsDelivered
                    THEN [delivered EXCEPT ![n] = @ \cup ps] ELSE delivered
    /\ god' = IF DelMech = "CATACLYSM" THEN god \cup ps ELSE god

\* A variant that cleans nothing.
CleanedNot(b, info) == b

\* CleanBuffer, with the vaccine information "info" of the node.
Cleaned(b, info) ==
    IF DelMech = "VACCINE" THEN b \ info
    ELSE IF DelMech = "CATACLYSM" THEN b \ god
    ELSE b

-----------------------------------------------------------------------------
(* The handlers of class Routing; "rest" are the events left after the one *)
(* handled, "erased" its packet.                                           *)

\* exit() in a handler.
Exit ==
    /\ halted' = TRUE
    /\ UNCHANGED <<msgVars, buffer, dmVars, statVars>>

\* The one virtual function that they call: with the direct transfers done,
\* node n starts with the rest of its buffer b the exchange of its protocol.
AfterDirectTransfers(n, m, b) ==
    CASE RT \in SummaryProtocols ->
            <<Control("SUMMARY", n, m, NotDestinedTo(b, m))>>
      [] RT = "MSFSPRAYANDWAIT" /\ NotDestinedTo(b, m) # {} ->
            <<Control("SUMMARY", n, m, NotDestinedTo(b, m))>>
      [] RT \in DestinationProtocols ->
            <<Control("UTIL_DEST", n, m, NotDestinedTo(b, m))>>
      [] RT \in ContactProtocols ->
            <<Control("REQUEST_CONTACTS", n, m, {})>>
      [] RT = "BUBBLERAP" ->
            <<Control("REQUEST_LC_FS", n, m, {})>>
      [] OTHER -> <<>>

\* Congestion control asks for the state of the buffer of m first.
Proceed(n, m, b) ==
    IF needsBufferInformation THEN <<Control("REQUEST_BUFFER_INFO", n, m, {})>>
    ELSE AfterDirectTransfers(n, m, b)

LeavesBuffer == OffloaderDeletePkt \/ isSingleCopy

\* SendDirectPackets from buffer b, when n's deletion mechanism holds info.
SendDirectPackets(n, m, b, info, erased, rest) ==
    LET out == {p \in DestinedTo(b, m) : ~(KeepsDelivered /\ p \in info)}
        left == IF LeavesBuffer THEN Alive(b) \ out ELSE Alive(b)
    IN  /\ \E order \in Orders(out) :
              Send(DataFor(n, m, order, 1) \o Proceed(n, m, left), erased, rest)
        /\ SetAsDelivered(n, info \cup out)
        /\ buffer' = [buffer EXCEPT ![n] = left]
        /\ UNCHANGED <<statVars, halted>>

SendDirectSummary(n, m, rest) ==
    /\ Send(<<Control("DIRECT_SUMMARY", n, m, DestinedTo(buffer[n], m))>>, {}, rest)
    /\ buffer' = [buffer EXCEPT ![n] = Alive(@)]
    /\ UNCHANGED <<dmVars, statVars, halted>>

SendVaccine(n, m, rest) ==
    /\ Send(<<Control("ANTIPACKET", n, m, delivered[n])>>, {}, rest)
    /\ UNCHANGED <<buffer, dmVars, statVars, halted>>

ReceptionAntipacket(n, id, pkt, rest) ==
    LET info == delivered[n] \cup pkt.ids
    IN  /\ pkt.type = "ANTIPACKET"
        /\ delivered' = [delivered EXCEPT ![n] = info]
        /\ buffer' = [buffer EXCEPT ![n] = Cleaned(@, info)]
        /\ Send(<<Control("ANTIPACKET_RESPONSE", n, pkt.prev, info)>>, {id}, rest)
        /\ UNCHANGED <<god, statVars, halted>>

\* A variant that asks for packets it has received before.
ReceptionDirectSummaryBlind(n, id, pkt, rest) ==
    /\ pkt.type = "DIRECT_SUMMARY"
    /\ Send(<<Control("DIRECT_REQUEST", n, pkt.prev, pkt.ids)>>, {id}, rest)
    /\ UNCHANGED <<buffer, dmVars, statVars, halted>>

ReceptionDirectSummary(n, id, pkt, rest) ==
    LET live == IF pkt.ids = {} THEN buffer[n] ELSE Alive(buffer[n])
        wanted == {p \in pkt.ids : p \notin live /\ ~isDelivered(n, p)}
    IN  /\ pkt.type = "DIRECT_SUMMARY"
        /\ buffer' = [buffer EXCEPT ![n] = live]
        /\ Send(<<Control("DIRECT_REQUEST", n, pkt.prev, wanted)>>, {id}, rest)
        /\ UNCHANGED <<dmVars, statVars, halted>>

\* What the response tells reaches the set and the buffer of n first.
ReceptionAntipacketResponse(n, id, pkt, rest) ==
    LET info == delivered[n] \cup pkt.ids
    IN  /\ pkt.type = "ANTIPACKET_RESPONSE"
        /\ SendDirectPackets(n, pkt.prev, Cleaned(buffer[n], info), info, {id},
                             rest)

\* Of a mechanism that deletes them, all packets for the contact leave the
\* buffer, requested or not.
ReceptionDirectRequest(n, id, pkt, rest) ==
    LET live == Alive(buffer[n])
        left == IF LeavesBuffer THEN live \ DestinedTo(live, pkt.prev) ELSE live
    IN  /\ pkt.type = "DIRECT_REQUEST"
        /\ IF pkt.ids \subseteq live
           THEN /\ \E order \in Orders(pkt.ids) :
                      Send(DataFor(n, pkt.prev, order, 1) \o Proceed(n, pkt.prev, left),
                           {id}, rest)
                /\ buffer' = [buffer EXCEPT ![n] = left]
                /\ UNCHANGED <<dmVars, statVars, halted>>
           ELSE Exit

-----------------------------------------------------------------------------
(* The loop of the simulator, as far as it is the same for all protocols.  *)

Top == Head(evlist)

TopIs(ev) == ~halted /\ evlist # <<>> /\ Top.ev = ev

\* ConnectionMap::SetConnection and UnSetConnection, in both directions.
Connect(a, b) ==
    conn' = [n \in Nodes |-> IF n \in {a, b} THEN conn[n] \cup ({a, b} \ {n})
                             ELSE conn[n]]

Disconnect(a, b) ==
    conn' = [n \in Nodes |-> IF n \in {a, b} THEN conn[n] \ {a, b} ELSE conn[n]]

ContactDown ==
    /\ TopIs("DOWN")
    /\ Disconnect(Top.a, Top.b)
    /\ evlist' = Tail(evlist)
    /\ UNCHANGED <<now, origin, pool, variousIDs, buffer, dmVars, statVars, halted>>

\* recvFromApp and the originator's branch of ReceptionData: the packet gets
\* the next original identifier and enters the buffer of its source.
RecvFromApp ==
    /\ TopIs("APP")
    /\ origin' = Append(origin, [src |-> Top.a, dst |-> Top.b, time |-> now])
    /\ \E b \in Added(buffer[Top.a], Len(origin) + 1) :
          buffer' = [buffer EXCEPT ![Top.a] = b]
    /\ evlist' = Tail(evlist)
    /\ UNCHANGED <<now, conn, pool, variousIDs, dmVars, statVars, halted>>

\* The transmission on top for its next receiver, and what remains then.
NextReceiver(r) == r \in Top.rcv /\ \A s \in Top.rcv : s <= r

RestAfter(r) ==
    IF Top.rcv = {r} THEN Tail(evlist)
    ELSE <<[Top EXCEPT !.rcv = @ \ {r}]>> \o Tail(evlist)

\* A variant with the two cases exchanged.
PktRecInverted(p) ==
    /\ received' = IF p \in received THEN received \cup {p} ELSE received
    /\ duplicates' = IF p \in received THEN duplicates ELSE duplicates \cup {p}

\* Statistics::pktRec
PktRec(p) ==
    /\ received' = received \cup {p}
    /\ duplicates' = IF p \in received THEN duplicates \cup {p} ELSE duplicates

\* Simulator::Check found the link gone: the transmission is dropped.
Discard(r) ==
    /\ evlist' = RestAfter(r)
    /\ UNCHANGED <<pool, variousIDs, buffer, dmVars, statVars, halted>>
=============================================================================
