----------------------------- MODULE SprayWait ------------------------------
(***************************************************************************)
(* The spraying protocols: Spray and Wait, its variants LSF, MSF and       *)
(* PRoPHET Spray and Wait, LSF Spray and Focus and Encounter-Based Routing *)
(* (routing/SprayWait.cc, LSFSpray.cc, MSFSpray.cc, ProphetSpray.cc,       *)
(* LSFSprayFocus.cc, EBR.cc).  The exchange is that of Epidemic, but a     *)
(* packet has a number of replicas: a node that is asked for it hands over *)
(* some of them, half of them with all protocols but EBR.  The utilities   *)
(* of the variants decide what is offered, and may decide anything; the    *)
(* encounter values of EBR are only told apart from zero.  (Where the      *)
(* protocols have the same handler, the lines cited are SprayWait's.)      *)
(***************************************************************************)
EXTENDS Exchange, Integers, FiniteSetsExt

CONSTANT
    EncWindow       \* EBR: the length of the window of class Enc

ASSUME SprayAssumption ==
    /\ EncWindow \in Nat
    /\ \A s \in Configurations :
          /\ s.RT \in {"SPRAYANDWAIT", "LSFSPRAYANDWAIT", "MSFSPRAYANDWAIT",
                       "PROPHETSPRAY", "LSFSPRAYFOCUS", "EBR"}
          /\ s.CC = "NOCC"

VARIABLES
    reps,           \* reps[n][p]: PacketEntry::Replicas of p in n's buffer
    betterDests,    \* LSFSprayFocus::betterDests of each node, {} for NULL
    enc             \* EBR: which numbers in class Enc of each node are above 0

utilVars == <<betterDests, enc>>
swVars == <<vars, reps, utilVars>>

SWInit ==
    /\ Init
    /\ reps = [n \in Nodes |-> <<>>]
    /\ betterDests = [n \in Nodes |-> {}]
    /\ enc = [n \in Nodes |-> [stage |-> FALSE, CWC |-> FALSE, EV |-> FALSE]]

Destinations == {f[2] : f \in Flows}

\* The packets that remain in the buffers keep their replicas.
KeepReps == reps' = [n \in Nodes |-> [p \in buffer'[n] |-> reps[n][p]]]

\* They do, but packet p, stored by n, has now r.
SetReplicas(n, p, r) ==
    reps' = [k \in Nodes |-> [q \in buffer'[k] |->
                IF k = n /\ q = p THEN r ELSE reps[k][q]]]

-----------------------------------------------------------------------------
(* The encounter values of EBR.  LastUpdated stays 0, so that the window   *)
(* is over with every contact after the first EncWindow.                   *)

Encountered(e) ==
    IF now > EncWindow THEN [stage |-> TRUE, CWC |-> TRUE, EV |-> e.CWC \/ e.EV]
    ELSE [e EXCEPT !.CWC = TRUE]

\* Is the value that Enc::get returns above 0?
EncPositive(n) == IF enc[n].stage THEN enc[n].EV ELSE enc[n].CWC

\* What 0/0 becomes as an int.
NaNAsInt == -2147483647 - 1

\* The replicas EBR hands over of r: the floor of r times the other node's
\* share in both encounter values.
EncShares(r, mine, other) ==
    IF mine /\ other THEN {k \in 0..r : k < r \/ r = 0}
    ELSE IF mine THEN {0}
    ELSE IF other THEN {r}
    ELSE {NaNAsInt}

\* r - k as an int.
Difference(r, k) == IF k = NaNAsInt THEN NaNAsInt + r ELSE r - k

-----------------------------------------------------------------------------
(* What is offered.                                                        *)

Offer(n, id, pkt, rest, live, offered) ==
    /\ buffer' = [buffer EXCEPT ![n] = live]
    /\ Send(<<Control("SUMMARY", n, pkt.prev, offered)>>, {id}, rest)
    /\ UNCHANGED <<dmVars, statVars, halted, enc>>

ReceptionUtilDest(n, id, pkt, rest) ==
    /\ pkt.type = "UTIL_DEST"
    /\ \E better \in SUBSET {origin[p].dst : p \in pkt.ids} :
          Send(<<Reply("AVAIL_DEST", n, pkt.prev, better)>>, {id}, rest)
    /\ UNCHANGED <<buffer, dmVars, statVars, halted, utilVars>>

ReceptionAvailDest(n, id, pkt, rest) ==
    LET live == Alive(buffer[n])
        focus == RT = "LSFSPRAYFOCUS"
    IN  /\ pkt.type = "AVAIL_DEST"
        /\ Offer(n, id, pkt, rest, live,
                 IF focus THEN NotDestinedTo(live, pkt.prev)
                 ELSE {p \in live : origin[p].dst \in pkt.body})
        /\ betterDests' = IF focus /\ pkt.body # {} THEN [betterDests EXCEPT ![n] = pkt.body]
                          ELSE betterDests

\* PRoPHET Spray and Wait; the tables are those of module Forwarding.
ReceptionRequestContacts(n, id, pkt, rest) ==
    /\ pkt.type = "REQUEST_CONTACTS"
    /\ Send(<<Reply("DEST_PREDICT", n, pkt.prev, {})>>, {id}, rest)
    /\ UNCHANGED <<buffer, dmVars, statVars, halted, utilVars>>

ReceptionDPT(n, id, pkt, rest) ==
    LET live == Alive(buffer[n])
    IN  /\ pkt.type = "DEST_PREDICT"
        /\ \E better \in SUBSET (Destinations \ {pkt.prev}) :
              Offer(n, id, pkt, rest, live, {p \in live : origin[p].dst \in better})
        /\ UNCHANGED betterDests

\* The request of EBR tells the encounter value as well.
ReceptionSummaryEBR(n, id, pkt, rest) ==
    LET live == IF pkt.ids = {} THEN buffer[n] ELSE Alive(buffer[n])
    IN  /\ pkt.type = "SUMMARY"
        /\ buffer' = [buffer EXCEPT ![n] = live]
        /\ Send(<<Reply("EBR_REQ", n, pkt.prev,
                        [ids |-> pkt.ids \ live, enc |-> EncPositive(n)])>>, {id}, rest)
        /\ UNCHANGED <<dmVars, statVars, halted, utilVars>>

Summary(n, id, pkt, rest) ==
    IF RT = "EBR" THEN ReceptionSummaryEBR(n, id, pkt, rest)
    ELSE ReceptionSummary(n, id, pkt, rest) /\ UNCHANGED utilVars

-----------------------------------------------------------------------------
(* What is handed over.                                                    *)

\* A variant that starts the wait phase with two replicas left.
WaitsEarly(n, p) == reps[n][p] <= 2

\* In the wait phase a packet is for its destination only, or for a focus.
Waits(n, p) == reps[n][p] = 1

\* The replicas of p that leave node n: half of them; a single one stays but
\* if it has a focus (isEncNodeBetter).
Share(n, p) ==
    IF ~Waits(n, p) THEN reps[n][p] \div 2
    ELSE IF RT = "LSFSPRAYFOCUS" /\ origin[p].dst \in betterDests[n] THEN 1
    ELSE 0

Shares(n, pkt) ==
    IF pkt.type = "REQUEST" THEN {[p \in pkt.ids |-> Share(n, p)]}
    ELSE {f \in [pkt.body.ids -> UNION {EncShares(reps[n][p], EncPositive(n), pkt.body.enc) :
                                        p \in pkt.body.ids}] :
             \A p \in pkt.body.ids :
                f[p] \in EncShares(reps[n][p], EncPositive(n), pkt.body.enc)}

\* The packets that are sent: EBR sends none without replicas, the others do
\* (of a packet that was created with none).
Outgoing(n, ids, share) ==
    {p \in ids : share[p] # 0 \/ (RT # "EBR" /\ ~Waits(n, p))}

\* SendPacket, for each packet with its replicas.
Sprayed(n, m, order, share) ==
    IF conn'[n] = {} THEN <<>>
    ELSE [i \in 1..Len(order) |-> Data(n, m, order[i], share[order[i]])]

\* A variant that does not count down the replicas it hands over.
AfterSprayKept(n, share) == KeepReps

AfterSpray(n, share) ==
    reps' = [reps EXCEPT ![n] = [p \in buffer'[n] |->
                IF p \in DOMAIN share THEN Difference(reps[n][p], share[p]) ELSE reps[n][p]]]

\* A variant that does not forget it.
ForgetNever(n) == UNCHANGED betterDests

\* What the other node is better for is forgotten once it has had its packets.
Forget(n) == betterDests' = [betterDests EXCEPT ![n] = {}]

\* Only the last replica of a packet takes the packet with it.  (None is
\* destined to the other node, the case in which the LSF protocols remove it.)
ReceptionRequest(n, id, pkt, rest) ==
    LET ids == IF pkt.type = "REQUEST" THEN pkt.ids ELSE pkt.body.ids
        live == IF ids = {} THEN buffer[n] ELSE Alive(buffer[n])
    IN  /\ pkt.type \in {"REQUEST", "EBR_REQ"}
        /\ IF ids \subseteq live
           THEN /\ \E share \in Shares(n, pkt) :
                      LET out == Outgoing(n, ids, share)
                          left == {p \in out : RT = "LSFSPRAYFOCUS" /\ Waits(n, p)}
                      IN  /\ \E order \in Orders(out) :
                                Send(Sprayed(n, pkt.prev, order, share), {id}, rest)
                          /\ buffer' = [buffer EXCEPT ![n] = live \ left]
                          /\ AfterSpray(n, share)
                /\ Forget(n)
                /\ UNCHANGED <<dmVars, statVars, halted, enc>>
           ELSE Exit /\ UNCHANGED <<reps, utilVars>>

\* A variant that leaves a new entry with the one replica it starts with.
RelayOne(n, id, pkt, rest, p) ==
    /\ pkt.next = n
    /\ origin[p].dst # n
    /\ \E b \in Added(buffer[n], p) : buffer' = [buffer EXCEPT ![n] = b]
    /\ SetReplicas(n, p, 1)
    /\ Access(id, rest)
    /\ UNCHANGED <<dmVars, statVars, halted>>

\* ReceptionData, for a packet to be stored and carried on: its replicas are
\* added to those of a copy in the buffer, if there is one.
Relay(n, id, pkt, rest, p) ==
    /\ pkt.next = n
    /\ origin[p].dst # n
    /\ \E b \in Added(buffer[n], p) : buffer' = [buffer EXCEPT ![n] = b]
    /\ SetReplicas(n, p, IF p \in Alive(buffer[n]) THEN reps[n][p] + pkt.rep ELSE pkt.rep)
    /\ Access(id, rest)
    /\ UNCHANGED <<dmVars, statVars, halted>>

ReceptionData(n, id, pkt, rest) ==
    /\ pkt.type = "DATA"
    /\ \/ Overhear(n, id, pkt, rest) /\ KeepReps
       \/ \E p \in pkt.ids : Deliver(n, id, pkt, rest, p) /\ KeepReps
       \/ \E p \in pkt.ids : Relay(n, id, pkt, rest, p)

recv(n, id, pkt, rest) ==
    \/ ReceptionData(n, id, pkt, rest) /\ UNCHANGED utilVars
    \/ ReceptionRequest(n, id, pkt, rest)
    \/ /\ \/ ReceptionUtilDest(n, id, pkt, rest)
          \/ ReceptionAvailDest(n, id, pkt, rest)
          \/ ReceptionRequestContacts(n, id, pkt, rest)
          \/ ReceptionDPT(n, id, pkt, rest)
          \/ Summary(n, id, pkt, rest)
       /\ KeepReps
    \/ /\ \/ ReceptionDirectSummary(n, id, pkt, rest)
          \/ ReceptionDirectRequest(n, id, pkt, rest)
          \/ ReceptionAntipacket(n, id, pkt, rest)
          \/ ReceptionAntipacketResponse(n, id, pkt, rest)
       /\ KeepReps /\ UNCHANGED utilVars

Receive ==
    /\ TopIs("TX")
    /\ UNCHANGED netVars
    /\ \E r \in Top.rcv :
          /\ NextReceiver(r)
          /\ IF r \notin conn[Top.a] THEN Discard(r) /\ UNCHANGED <<reps, utilVars>>
             ELSE IF Top.id \notin DOMAIN pool THEN Exit /\ UNCHANGED <<reps, utilVars>>
             ELSE recv(r, Top.id, pool[Top.id], RestAfter(r))

\* Contact, in which EBR counts the encounter.
SWContactUp ==
    /\ ContactUp
    /\ KeepReps
    /\ enc' = IF RT = "EBR" THEN [enc EXCEPT ![Top.a] = Encountered(@)] ELSE enc
    /\ UNCHANGED betterDests

\* The originator gives its packet the replicas of the settings.
Originate == RecvFromApp /\ SetReplicas(Top.a, Len(origin) + 1, Replicas)

SWStep ==
    \/ SWContactUp
    \/ ContactDown /\ KeepReps /\ UNCHANGED utilVars
    \/ Originate /\ UNCHANGED utilVars
    \/ Receive

SWNext ==
    /\ SWStep \/ (Environment /\ UNCHANGED <<reps, utilVars>>)
    /\ UNCHANGED Set

SWSpec == SWInit /\ [][SWNext]_swVars

-----------------------------------------------------------------------------
Answer(type, bodies) == [type : {type}, prev : Nodes, next : Nodes, body : bodies]

IsAnswer(pkt) ==
    \/ pkt \in Answer("AVAIL_DEST", SUBSET Destinations)
    \/ pkt \in Answer("DEST_PREDICT", {{}})
    \/ pkt \in Answer("EBR_REQ", [ids : SUBSET PktIDs, enc : BOOLEAN])

\* The values of the variables; every packet in a buffer, and no other, has a
\* number of replicas.
SWTypeOK ==
    /\ CommonTypeOK
    /\ \A id \in DOMAIN pool : pool[id] \in Message \/ IsAnswer(pool[id])
    /\ DOMAIN reps = Nodes
    /\ \A n \in Nodes : reps[n] \in [buffer[n] -> Nat]
    /\ betterDests \in [Nodes -> SUBSET Destinations]
    /\ enc \in [Nodes -> [stage : BOOLEAN, CWC : BOOLEAN, EV : BOOLEAN]]

\* The data packets with original p on their way to node n, to be stored.
OnTheWay(p, n) ==
    {id \in DOMAIN pool :
        /\ pool[id].type = "DATA" /\ pool[id].ids = {p}
        /\ pool[id].next = n /\ origin[p].dst # n
        /\ \E i \in DOMAIN evlist : IsTX(i) /\ evlist[i].id = id /\ n \in evlist[i].rcv}

\* The replicas of p in the care of n.
Stored(p, n) == IF p \in buffer[n] THEN reps[n][p] ELSE 0

Sent(p, n) == SumFunctionOnSet([id \in OnTheWay(p, n) |-> pool[id].rep], OnTheWay(p, n))

Held(p, n) == Stored(p, n) + Sent(p, n)

Replication == INSTANCE Quota WITH
    Packets <- PktIDs,
    quota <- Replicas,
    created <- DOMAIN origin,
    held <- [p \in PktIDs |-> [n \in Nodes |-> Held(p, n)]]

\* Replicas are created by the source only, divided between two nodes, and
\* never made: no answer, broadcast or repeated request, no last replica that
\* changes hands and no change of the utilities can do so.
ImplementsQuota == Replication!Spec

\* Nothing is lost either, where no mechanism deletes packets.
NoneLost ==
    DelMech = "JUSTTTL" /\ BufferSize = 0 /\ TTL = 0 =>
        \A p \in DOMAIN origin :
            SumFunctionOnSet([n \in Nodes |-> Held(p, n)], Nodes) = Replicas

\* A node that has learned what another one is better for is still in the
\* exchange in which it did: it has made its offer, or has been asked for
\* packets.  So a last replica never goes to a node on what a different one
\* said, in spite of the answers that are empty and replace nothing.
Advised ==
    \A n \in Nodes : betterDests[n] # {} =>
        \E id \in DOMAIN pool :
            \/ pool[id].type = "SUMMARY" /\ pool[id].prev = n
            \/ pool[id].type = "REQUEST" /\ pool[id].next = n

\* Node b has what node a could share of it, and has received what a had
\* for it.
MeetingOver(a, b) ==
    \A p \in Alive(buffer'[a]) :
        IF origin[p].dst = b THEN p \in received' ELSE p \in buffer'[b] \/ reps'[a][p] = 1

\* Where no utility forbids it, the exchange of two nodes is not over before
\* all that can be sprayed is.
SprayCompletes ==
    [][ (RT \in {"SPRAYANDWAIT", "MSFSPRAYANDWAIT"} /\ BufferSize = 0
            /\ TopIs("TX") /\ evlist' = <<>> /\ ~halted')
          => LET pkt == pool[Top.id]
             IN MeetingOver(pkt.prev, pkt.next) /\ MeetingOver(pkt.next, pkt.prev)
      ]_swVars

\* No node has more replicas of a packet than were created, or less than none.
QuotaKept == \A n \in Nodes : \A p \in buffer[n] : reps[n][p] \in 0..Replicas
=============================================================================
