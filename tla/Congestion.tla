----------------------------- MODULE Congestion -----------------------------
(***************************************************************************)
(* Congestion control (congestion-control/*.cc, and its part of class      *)
(* Routing).  Before it hands over packets to be carried on, a node asks   *)
(* the other one for the size and the length of its buffer; the answer is  *)
(* kept by the node, outside of any message, until the mechanism has       *)
(* decided which packets may go.                                           *)
(***************************************************************************)
EXTENDS Exchange, FiniteSetsExt

VARIABLE
    information     \* CongestionControl::information of each node, {} for NULL

ccVars == <<vars, information>>

CCInit == Init /\ information = [n \in Nodes |-> {}]

-----------------------------------------------------------------------------
\* BSA advertises a share of its buffer that changes with the drops recorded:
\* above 0.4, four fifths of the 0.5 down to which it is reduced, and below
\* 0.91, a step past the 0.9 up to which it is raised.
AdvertisedSizes ==
    IF CongestionControl = "BSA" THEN (4 * BufferSize) \div 10..(91 * BufferSize) \div 100
    ELSE {BufferSize}

\* The length counts packets whose time is over, if any are left.
ReceptionBufferReq(n, id, pkt, rest) ==
    /\ pkt.type = "REQUEST_BUFFER_INFO"
    /\ \E size \in AdvertisedSizes :
          Send(<<Reply("BUFFER_INFO", n, pkt.prev,
                       [size |-> size, length |-> Cardinality(buffer[n])])>>, {id}, rest)
    /\ UNCHANGED <<buffer, dmVars, statVars, halted, information>>

\* addBufferInfo, and the exchange of the protocol goes on.
ReceptionBufferRsp(n, id, pkt, rest) ==
    /\ pkt.type = "BUFFER_INFO"
    /\ information' = [information EXCEPT ![n] =
          {[recID |-> pkt.prev, size |-> pkt.body.size, length |-> pkt.body.length]}]
    /\ Send(AfterDirectTransfers(n, pkt.prev, buffer[n]), {id}, rest)
    /\ UNCHANGED <<buffer, dmVars, statVars, halted>>

-----------------------------------------------------------------------------
\* A variant that takes one packet more than there is room for.
remainingStorageAbove(i) == IF i.length <= i.size THEN i.size + 1 - i.length ELSE 0

\* The storage that remains with the receiver.
remainingStorage(i) == IF i.length < i.size THEN i.size - i.length ELSE 0

OfSize(S, k) == kSubset(Min({Cardinality(S), k}), S)

\* FairRoute lets packets go while the receiver has not more than the sender:
\* how many, of any number.
fairPackets(i, length) ==
    Min({k \in 0..length + 1 :
            k > length \/ Min({i.length + k, i.size}) > length - k})

\* filterPackets: what may be left of the scheduled packets out.  The last
\* packets of the list, in any order of it, go; with CACC those with the
\* highest gain; ACC may refuse any by its growth and lifetime rules; FairRoute
\* also lets go the packets for whose destination the sender has no utility.
filterPackets(n, out, useless) ==
    IF out = {} \/ ~needsBufferInformation THEN {out}
    ELSE UNION {CASE CongestionControl = "ACC" ->
                        UNION {kSubset(k, out) : k \in 0..Min({Cardinality(out), remainingStorage(i)})}
                  [] CongestionControl = "FAIRROUTE" ->
                        {S \cup useless :
                            S \in OfSize(out, fairPackets(i, Cardinality(buffer[n])))}
                  [] OTHER -> OfSize(out, remainingStorage(i))
                : i \in information[n]}

\* No mechanism decides without information, and FairRoute takes no packet
\* whose receiver is not better.
Undecided(n, out, notBetter) ==
    \/ out # {} /\ needsBufferInformation /\ information[n] = {}
    \/ CongestionControl = "FAIRROUTE" /\ notBetter # {}

\* A variant that keeps the information.
ForwardRemembering(n, m, out, useless, notBetter, id, rest) ==
    IF Undecided(n, out, notBetter) THEN Exit /\ UNCHANGED information
    ELSE /\ \E sent \in filterPackets(n, out, useless) :
               /\ \E order \in Orders(sent) : Send(DataFor(n, m, order, 1), {id}, rest)
               /\ buffer' = [buffer EXCEPT ![n] = Alive(@) \ sent]
         /\ UNCHANGED <<dmVars, statVars, halted, information>>

\* A variant that keeps the packets it sends.
ForwardKeeping(n, m, out, useless, notBetter, id, rest) ==
    IF Undecided(n, out, notBetter) THEN Exit /\ UNCHANGED information
    ELSE /\ \E sent \in filterPackets(n, out, useless) :
               \E order \in Orders(sent) : Send(DataFor(n, m, order, 1), {id}, rest)
         /\ buffer' = [buffer EXCEPT ![n] = Alive(@)]
         /\ information' = [information EXCEPT ![n] = {}]
         /\ UNCHANGED <<dmVars, statVars, halted>>

\* Node n schedules packets out for m, sends those that congestion control
\* lets through and removes them from its buffer.
Forward(n, m, out, useless, notBetter, id, rest) ==
    IF Undecided(n, out, notBetter) THEN Exit /\ UNCHANGED information
    ELSE /\ \E sent \in filterPackets(n, out, useless) :
               /\ \E order \in Orders(sent) : Send(DataFor(n, m, order, 1), {id}, rest)
               /\ buffer' = [buffer EXCEPT ![n] = Alive(@) \ sent]
         /\ information' = [information EXCEPT ![n] = {}]
         /\ UNCHANGED <<dmVars, statVars, halted>>
=============================================================================
