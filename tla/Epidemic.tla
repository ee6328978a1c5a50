------------------------------ MODULE Epidemic ------------------------------
(***************************************************************************)
(* Epidemic routing (routing/Epidemic.cc) on top of class Routing.  When   *)
(* two nodes meet, each in turn hands over what is destined to the other,  *)
(* by the rules of the deletion mechanism, then sends the list of its      *)
(* other packets; the other node asks for those it does not store, and     *)
(* they are sent.                                                          *)
(***************************************************************************)
EXTENDS Exchange

\* Congestion control is for other protocols.
ASSUME EpidemicAssumption ==
    \A s \in Configurations : s.RT = "EPIDEMIC" /\ s.CC = "NOCC"

\* The scheduler refuses a packet that is not in the buffer.
ReceptionRequest(n, id, pkt, rest) ==
    LET live == IF pkt.ids = {} THEN buffer[n] ELSE Alive(buffer[n])
    IN  /\ pkt.type = "REQUEST"
        /\ IF pkt.ids \subseteq live
           THEN /\ \E order \in Orders(pkt.ids) :
                      Send(DataFor(n, pkt.prev, order, 1), {id}, rest)
                /\ buffer' = [buffer EXCEPT ![n] = live]
                /\ UNCHANGED <<dmVars, statVars, halted>>
           ELSE Exit

\* A variant that takes every packet it receives as delivered.
RelayDelivered(n, id, pkt, rest, p) ==
    /\ pkt.next = n
    /\ origin[p].dst # n
    /\ \E b \in Added(buffer[n], p) : buffer' = [buffer EXCEPT ![n] = b]
    /\ SetAsDelivered(n, delivered[n] \cup {p})
    /\ Access(id, rest)
    /\ UNCHANGED <<statVars, halted>>

\* ReceptionData, for a packet to be stored and carried on.
Relay(n, id, pkt, rest, p) ==
    /\ pkt.next = n
    /\ origin[p].dst # n
    /\ IF p \in Alive(buffer[n]) THEN Exit
       ELSE /\ \E b \in Added(buffer[n], p) : buffer' = [buffer EXCEPT ![n] = b]
            /\ Access(id, rest)
            /\ UNCHANGED <<dmVars, statVars, halted>>

ReceptionData(n, id, pkt, rest) ==
    /\ pkt.type = "DATA"
    /\ \/ Overhear(n, id, pkt, rest)
       \/ \E p \in pkt.ids : Deliver(n, id, pkt, rest, p)
       \/ \E p \in pkt.ids : Relay(n, id, pkt, rest, p)

recv(n, id, pkt, rest) ==
    \/ ReceptionData(n, id, pkt, rest)
    \/ ReceptionDirectSummary(n, id, pkt, rest)
    \/ ReceptionDirectRequest(n, id, pkt, rest)
    \/ ReceptionSummary(n, id, pkt, rest)
    \/ ReceptionRequest(n, id, pkt, rest)
    \/ ReceptionAntipacket(n, id, pkt, rest)
    \/ ReceptionAntipacketResponse(n, id, pkt, rest)

Receive ==
    /\ TopIs("TX")
    /\ UNCHANGED netVars
    /\ \E r \in Top.rcv :
          /\ NextReceiver(r)
          /\ IF r \notin conn[Top.a] THEN Discard(r)
             ELSE IF Top.id \notin DOMAIN pool THEN Exit
             ELSE recv(r, Top.id, pool[Top.id], RestAfter(r))

\* One round of the loop of startSimulation.
Step == ContactUp \/ ContactDown \/ RecvFromApp \/ Receive

Next == (Environment \/ Step) /\ UNCHANGED Set

Spec == Init /\ [][Next]_vars

-----------------------------------------------------------------------------
\* Node b has what node a has, and has received what a had for it.
MeetingOver(a, b) ==
    \A p \in Alive(buffer'[a]) :
        IF origin[p].dst = b THEN p \in received' ELSE p \in buffer'[b]

\* The exchange of two nodes is not over before each of them has what the
\* other has, or has received it (buffers without limit): no order of the
\* two summaries, requests and antipackets loses a packet on the way.
MeetingCompletes ==
    [][ (BufferSize = 0 /\ TopIs("TX") /\ evlist' = <<>> /\ ~halted')
          => LET pkt == pool[Top.id]
             IN MeetingOver(pkt.prev, pkt.next) /\ MeetingOver(pkt.next, pkt.prev)
      ]_vars
=============================================================================
