------------------------------ MODULE Exchange ------------------------------
(***************************************************************************)
(* The exchange of summaries on top of class Routing, which Epidemic and   *)
(* SprayWait have in common, word for word: what a node sends to a new     *)
(* contact, what it asks for, and what it does with packets that are not   *)
(* to be carried on.  (The lines cited are those of routing/Epidemic.cc.)  *)
(***************************************************************************)
EXTENDS Routing

Contact(n, m, rest) ==
    IF DelMech = "VACCINE" THEN SendVaccine(n, m, rest)
    ELSE IF ExchangeDirectSummary THEN SendDirectSummary(n, m, rest)
    ELSE SendDirectPackets(n, m, Cleaned(buffer[n], delivered[n]), delivered[n],
                           {}, rest)

ContactUp ==
    /\ TopIs("UP")
    /\ Connect(Top.a, Top.b)
    /\ UNCHANGED <<now, origin>>
    /\ Contact(Top.a, Top.b, Tail(evlist))

\* A variant that requests everything it is offered.
ReceptionSummaryGreedy(n, id, pkt, rest) ==
    /\ pkt.type = "SUMMARY"
    /\ Send(<<Control("REQUEST", n, pkt.prev, pkt.ids)>>, {id}, rest)
    /\ UNCHANGED <<buffer, dmVars, statVars, halted>>

\* A variant that requests nothing when it stores a packet already.
ReceptionSummaryLazy(n, id, pkt, rest) ==
    LET live == Alive(buffer[n])
    IN  /\ pkt.type = "SUMMARY"
        /\ buffer' = [buffer EXCEPT ![n] = live]
        /\ Send(<<Control("REQUEST", n, pkt.prev,
                          IF live = {} THEN pkt.ids ELSE {})>>, {id}, rest)
        /\ UNCHANGED <<dmVars, statVars, halted>>

ReceptionSummary(n, id, pkt, rest) ==
    LET live == IF pkt.ids = {} THEN buffer[n] ELSE Alive(buffer[n])
    IN  /\ pkt.type = "SUMMARY"
        /\ buffer' = [buffer EXCEPT ![n] = live]
        /\ Send(<<Control("REQUEST", n, pkt.prev, pkt.ids \ live)>>, {id}, rest)
        /\ UNCHANGED <<dmVars, statVars, halted>>

\* ReceptionData, for a packet of another next hop, ...
Overhear(n, id, pkt, rest) ==
    /\ pkt.next # n
    /\ Access(id, rest)
    /\ UNCHANGED <<buffer, dmVars, statVars, halted>>

\* ... for a packet that has arrived, ...
Deliver(n, id, pkt, rest, p) ==
    /\ pkt.next = n
    /\ origin[p].dst = n
    /\ IF NoDuplicatesSupport /\ isDelivered(n, p) THEN Exit
       ELSE /\ SetAsDelivered(n, delivered[n] \cup {p})
            /\ PktRec(p)
            /\ Access(id, rest)
            /\ UNCHANGED <<buffer, halted>>

-----------------------------------------------------------------------------
(* Properties of every protocol with this exchange.                        *)

\* The values of the variables; a duplicate is the duplicate of a reception.
CommonTypeOK ==
    /\ Set \in Configurations
    /\ now \in 0..MaxTime
    /\ conn \in [Nodes -> SUBSET Nodes]
    /\ evlist \in Seq(Event)
    /\ origin \in Seq([src : Nodes, dst : Nodes, time : 0..MaxTime])
    /\ Len(origin) <= TrafficLoad
    /\ DOMAIN pool \subseteq Nat
    /\ variousIDs \in Nat
    /\ buffer \in [Nodes -> SUBSET PktIDs]
    /\ delivered \in [Nodes -> SUBSET PktIDs]
    /\ god \subseteq PktIDs
    /\ received \subseteq PktIDs
    /\ duplicates \subseteq received
    /\ halted \in BOOLEAN

\* And all packets of the pool are packets of the exchange.
TypeOK == CommonTypeOK /\ \A id \in DOMAIN pool : pool[id] \in Message

IsTX(i) == evlist[i].ev = "TX"

\* Whatever is in transmission is on a link that exists: the validity check
\* of Simulator::Check never fails, no message of an exchange is lost.
LinksLive ==
    \A i \in DOMAIN evlist :
        IsTX(i) => evlist[i].rcv # {} /\ evlist[i].rcv \subseteq conn[evlist[i].a]

\* The packet pool holds exactly the packets in transmission: none is erased
\* while a node is still to receive it, none stays behind for ever, and the
\* access counter of a broadcast is the number of receptions outstanding.
PoolExact ==
    /\ DOMAIN pool = {evlist[i].id : i \in {j \in DOMAIN evlist : IsTX(j)}}
    /\ \A i \in DOMAIN evlist :
          IsTX(i) /\ pool[evlist[i].id].type = "DATA"
             => pool[evlist[i].id].access = Cardinality(evlist[i].rcv)

\* No handler ends the program: no packet is delivered twice to a node that
\* forbids it, offered to a node that stores it, requested from a node that
\* has lost it, or missing from the pool.
NoError == ~halted

\* With a mechanism against duplicates no destination gets a packet twice,
\* through whatever nodes its copies travel.
NoDuplicates == NoDuplicatesSupport => duplicates = {}

\* A vaccinated node does not carry the packet: what a node knows to be
\* delivered is not in its buffer.
Immunity == DelMech = "VACCINE" => \A n \in Nodes : buffer[n] \cap delivered[n] = {}

\* The vaccine tells the truth, although it is issued before the packet is
\* received: when the instant is over, what nodes believe delivered, is.
Truthful ==
    Quiet => /\ god \subseteq received
             /\ DelMech \in {"VACCINE", "NODUPS", "KEEPREP"} =>
                   \A n \in Nodes : delivered[n] \subseteq received

\* No packet is sent after its time to live.
NothingStale ==
    \A id \in DOMAIN pool :
        pool[id].type = "DATA" => \A p \in pool[id].ids : IsAlive(p)

\* Every exchange comes to an end: the events of an instant run dry and time
\* can go on.
Drains == []<>(evlist = <<>>)
=============================================================================
