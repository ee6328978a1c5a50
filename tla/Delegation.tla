----------------------------- MODULE Delegation -----------------------------
(***************************************************************************)
(* Replication by utility: Delegation forwarding and Compare and Replicate *)
(* (routing/Delegation.cc, CnR.cc).  The exchange is that of Epidemic, but *)
(* a node answers a summary with its utility for each packet, and gets a   *)
(* replica only if that is above the sender's own utility (CnR), or above  *)
(* the highest one the sender has seen for the packet, which is kept with  *)
(* the packet and raised on both sides (Delegation).                       *)
(*                                                                         *)
(* Utilities are ranks: only their order decides.  They may become         *)
(* anything whenever the code brings them up to date, or when they change  *)
(* with time, and at no other moment.  (Where the two protocols have the   *)
(* same handler, the lines cited are those of Delegation.cc.)              *)
(***************************************************************************)
EXTENDS Exchange

CONSTANT
    MaxRank         \* bound: the highest utility

ASSUME DelegationAssumption ==
    /\ MaxRank \in Nat
    /\ \A s \in Configurations :
          /\ s.RT \in {"Delegation.LTS", "Delegation.Enc", "Delegation.Prophet",
                       "Delegation.Bet", "Delegation.Sim",
                       "CnR.LTS", "CnR.Enc", "CnR.Prophet", "CnR.Bet", "CnR.Sim"}
          /\ s.CC = "NOCC"

VARIABLES
    UUpdate,        \* the profile's "update": thresholds follow one's own utility
    util,           \* util[n][d]: the utility of n for destination d
    MaxUtil         \* MaxUtil[n][p]: PacketEntry::MaxUtil of p in n's buffer

utilVars == <<UUpdate, util>>
dgVars == <<vars, utilVars, MaxUtil>>

UType ==
    CASE RT \in {"Delegation.LTS", "CnR.LTS"} -> "LTS"
      [] RT \in {"Delegation.Enc", "CnR.Enc"} -> "Enc"
      [] RT \in {"Delegation.Prophet", "CnR.Prophet"} -> "Prophet"
      [] RT \in {"Delegation.Bet", "CnR.Bet"} -> "Bet"
      [] RT \in {"Delegation.Sim", "CnR.Sim"} -> "Sim"

isCnR == RT \in {"CnR.LTS", "CnR.Enc", "CnR.Prophet", "CnR.Bet", "CnR.Sim"}

\* The utility is computed from a contact graph (class Adjacency).
fromGraph == UType \in {"Bet", "Sim"}

Destinations == {f[2] : f \in Flows}

Ranks == 0..MaxRank

\* What the utilities of node n may be: Enc and Bet are the same for all
\* destinations, and nobody asks for one's utility for oneself.
Utilities(n) ==
    IF UType \in {"Enc", "Bet"} THEN {[d \in Destinations |-> r] : r \in Ranks}
    ELSE {u \in [Destinations -> Ranks] : n \in Destinations => u[n] = 0}

DGInit ==
    /\ Init
    /\ UUpdate \in IF isCnR THEN {FALSE} ELSE BOOLEAN
    /\ util = [n \in Nodes |-> [d \in Destinations |-> 0]]
    /\ MaxUtil = [n \in Nodes |-> <<>>]

\* Node n brings its utilities up to date.
Revise(n) == \E u \in Utilities(n) : util' = [util EXCEPT ![n] = u]

\* The packets that remain in the buffers keep their thresholds.
KeepMax == MaxUtil' = [n \in Nodes |-> [p \in buffer'[n] |-> MaxUtil[n][p]]]

\* They do, but those of node n that f has a value for get that.  (CnR never
\* reads them.)
SetMaxUtil(n, f) ==
    IF isCnR THEN MaxUtil' = [k \in Nodes |-> [p \in buffer'[k] |-> 0]]
    ELSE MaxUtil' = [k \in Nodes |-> [p \in buffer'[k] |->
             IF k = n /\ p \in DOMAIN f THEN f[p] ELSE MaxUtil[k][p]]]

-----------------------------------------------------------------------------
(* Contacts.                                                               *)

\* Contact: the graph changes, but its metrics are not computed yet.
DGContactUp ==
    /\ ContactUp
    /\ IF fromGraph THEN UNCHANGED util ELSE Revise(Top.a)
    /\ KeepMax
    /\ UNCHANGED UUpdate

\* The utility of n for node m, when no packet may be for m as well.
UtilityFor(n, m) ==
    IF m \in Destinations THEN {util'[n][m]}
    ELSE IF UType \in {"Enc", "Bet"} THEN {util'[n][d] : d \in Destinations}
    ELSE Ranks

\* UpdateThresholdDD and -DI: no threshold is below the utility u of n for m,
\* which it has lost contact to.  If utilities do not depend on destinations
\* that is for all packets; with Sim it is so too, although they do.
Update(n, m, u) ==
    LET concerned == {p \in buffer'[n] : UType \in {"LTS", "Prophet"} => origin[p].dst = m}
    IN  SetMaxUtil(n, [p \in concerned |-> IF u > MaxUtil[n][p] THEN u ELSE MaxUtil[n][p]])

\* ContactRemoved
DGContactDown ==
    /\ TopIs("DOWN")
    /\ Disconnect(Top.a, Top.b)
    /\ evlist' = Tail(evlist)
    /\ IF fromGraph THEN UNCHANGED util ELSE Revise(Top.a)
    /\ IF UUpdate
       THEN /\ buffer' = [buffer EXCEPT ![Top.a] = Alive(@)]
            /\ \E u \in UtilityFor(Top.a, Top.b) : Update(Top.a, Top.b, u)
       ELSE UNCHANGED buffer /\ KeepMax
    /\ UNCHANGED <<now, origin, pool, variousIDs, dmVars, statVars, halted, UUpdate>>

-----------------------------------------------------------------------------
(* Before the summary.                                                     *)

ReceptionRequestContacts(n, id, pkt, rest) ==
    /\ pkt.type = "REQUEST_CONTACTS"
    /\ Send(<<Reply(IF fromGraph THEN "CONTACTS" ELSE "DEST_PREDICT", n, pkt.prev, {})>>,
            {id}, rest)
    /\ UNCHANGED <<buffer, dmVars, statVars, halted, util>>

\* ReceptionContacts and ReceptionDPT, the only places where a graph is
\* turned into metrics and a table meets another one.
ReceptionContacts(n, id, pkt, rest) ==
    /\ pkt.type \in {"CONTACTS", "DEST_PREDICT"}
    /\ Revise(n)
    /\ Send(<<Control("SUMMARY", n, pkt.prev, NotDestinedTo(buffer[n], pkt.prev))>>, {id}, rest)
    /\ buffer' = [buffer EXCEPT ![n] = Alive(@)]
    /\ UNCHANGED <<dmVars, statVars, halted>>

-----------------------------------------------------------------------------
(* Summary, request and data.                                              *)

\* A variant that offers to take packets it stores already.
RequestedOwned(ids, live) == [ids |-> ids, owned |-> {}]

\* What is asked for: with Delegation everything that is offered, marked if
\* it is stored already.
Requested(ids, live) ==
    IF isCnR THEN [ids |-> ids \ live, owned |-> {}]
    ELSE [ids |-> ids, owned |-> ids \cap live]

ReceptionSummaryUtils(n, id, pkt, rest) ==
    LET live == IF pkt.ids = {} THEN buffer[n] ELSE Alive(buffer[n])
        req == Requested(pkt.ids, live)
    IN  /\ pkt.type = "SUMMARY"
        /\ buffer' = [buffer EXCEPT ![n] = live]
        /\ Send(<<Reply("REQUEST_PKTS_UTILS", n, pkt.prev,
                        [ids |-> req.ids, owned |-> req.owned,
                         utils |-> [p \in req.ids |-> util[n][origin[p].dst]]])>>, {id}, rest)
        /\ UNCHANGED <<dmVars, statVars, halted, util>>

\* What the other node's utility is compared with.
Threshold(n, p) == IF isCnR THEN util[n][origin[p].dst] ELSE MaxUtil[n][p]

\* A variant that compares with the threshold and leaves it as it is.
RaisedNot(low, utils) == <<>>

\* The new thresholds of the packets the other node has a higher utility for.
Raised(low, utils) == [p \in low |-> utils[p]]

\* getPacketsLowUtil: the thresholds rise with packets the other node has, too.
\* CnR looks every packet up, which must be there.
ReceptionRequestUtils(n, id, pkt, rest) ==
    LET body == pkt.body
        live == IF isCnR /\ body.ids = {} THEN buffer[n] ELSE Alive(buffer[n])
        low == {p \in body.ids \cap live : body.utils[p] > Threshold(n, p)}
    IN  /\ pkt.type = "REQUEST_PKTS_UTILS"
        /\ UNCHANGED util
        /\ IF isCnR => body.ids \subseteq live
           THEN /\ \E order \in Orders(low \ body.owned) :
                      Send(DataFor(n, pkt.prev, order, 1), {id}, rest)
                /\ buffer' = [buffer EXCEPT ![n] = live]
                /\ SetMaxUtil(n, Raised(low, body.utils))
                /\ UNCHANGED <<dmVars, statVars, halted>>
           ELSE Exit /\ UNCHANGED MaxUtil

\* ReceptionData, for a packet to be stored and carried on.
Relay(n, id, pkt, rest, p) ==
    /\ pkt.next = n
    /\ origin[p].dst # n
    /\ IF p \in Alive(buffer[n]) THEN Exit /\ KeepMax
       ELSE /\ \E b \in Added(buffer[n], p) : buffer' = [buffer EXCEPT ![n] = b]
            /\ SetMaxUtil(n, [q \in {p} |-> util[n][origin[p].dst]])
            /\ Access(id, rest)
            /\ UNCHANGED <<dmVars, statVars, halted>>

ReceptionData(n, id, pkt, rest) ==
    /\ pkt.type = "DATA"
    /\ UNCHANGED util
    /\ \/ Overhear(n, id, pkt, rest) /\ KeepMax
       \/ \E p \in pkt.ids : Deliver(n, id, pkt, rest, p) /\ KeepMax
       \/ \E p \in pkt.ids : Relay(n, id, pkt, rest, p)

recv(n, id, pkt, rest) ==
    \/ ReceptionData(n, id, pkt, rest)
    \/ ReceptionRequestUtils(n, id, pkt, rest)
    \/ /\ \/ ReceptionRequestContacts(n, id, pkt, rest)
          \/ ReceptionContacts(n, id, pkt, rest)
          \/ ReceptionSummaryUtils(n, id, pkt, rest)
       /\ KeepMax
    \/ /\ \/ ReceptionDirectSummary(n, id, pkt, rest)
          \/ ReceptionDirectRequest(n, id, pkt, rest)
          \/ ReceptionAntipacket(n, id, pkt, rest)
          \/ ReceptionAntipacketResponse(n, id, pkt, rest)
       /\ KeepMax /\ UNCHANGED util

Receive ==
    /\ TopIs("TX")
    /\ UNCHANGED <<netVars, UUpdate>>
    /\ \E r \in Top.rcv :
          /\ NextReceiver(r)
          /\ IF r \notin conn[Top.a] THEN Discard(r) /\ UNCHANGED <<util, MaxUtil>>
             ELSE IF Top.id \notin DOMAIN pool THEN Exit /\ UNCHANGED <<util, MaxUtil>>
             ELSE recv(r, Top.id, pool[Top.id], RestAfter(r))

\* The source's threshold is its utility; with the utilities from a graph an
\* "else" is missing and it is 0.
Originate ==
    /\ RecvFromApp
    /\ SetMaxUtil(Top.a, [q \in {Len(origin) + 1} |-> IF fromGraph THEN 0 ELSE util[Top.a][Top.b]])
    /\ UNCHANGED utilVars

DGStep == DGContactUp \/ DGContactDown \/ Originate \/ Receive

\* Some utilities change with time.
DGEnvironment ==
    /\ Environment
    /\ IF now' > now /\ UType \in {"LTS", "Prophet"}
       THEN util' \in {u \in [Nodes -> [Destinations -> Ranks]] : \A n \in Nodes : u[n] \in Utilities(n)} ELSE UNCHANGED util
    /\ UNCHANGED <<UUpdate, MaxUtil>>

DGNext == (DGEnvironment \/ DGStep) /\ UNCHANGED Set

DGSpec == DGInit /\ [][DGNext]_dgVars

\* The loop runs on as long as there are events of the current instant.
DGFairSpec == DGSpec /\ WF_dgVars(DGStep /\ UNCHANGED Set)

-----------------------------------------------------------------------------
Answer(types, bodies) == [type : types, prev : Nodes, next : Nodes, body : bodies]

\* The values of the variables; every packet in a buffer, and no other, has a
\* threshold.
DGTypeOK ==
    /\ CommonTypeOK
    /\ \A id \in DOMAIN pool :
          \/ pool[id] \in Message
          \/ pool[id] \in Answer({"CONTACTS", "DEST_PREDICT"}, {{}})
          \/ \E ids \in SUBSET PktIDs :
                pool[id] \in Answer({"REQUEST_PKTS_UTILS"},
                    [ids : {ids}, owned : SUBSET ids, utils : [ids -> Ranks]])
    /\ UUpdate \in BOOLEAN
    /\ \A n \in Nodes : util[n] \in Utilities(n)
    /\ DOMAIN MaxUtil = Nodes
    /\ \A n \in Nodes : MaxUtil[n] \in [buffer[n] -> Ranks]

\* A replica on its way to be carried on goes to a node whose utility is above
\* the sender's (CnR), or to one that has just set the threshold the sender
\* will go by from now on: what was compared is what holds when the replica
\* arrives, whatever is updated in the three messages that lead to it.
Uphill ==
    \A id \in DOMAIN pool : pool[id].type = "DATA" =>
        LET n == pool[id].prev
            m == pool[id].next
        IN  \A p \in pool[id].ids :
               LET d == origin[p].dst
               IN  d # m =>
                     IF isCnR THEN util[m][d] > util[n][d]
                     ELSE p \in buffer[n] /\ MaxUtil[n][p] = util[m][d]
=============================================================================
