----------------------------- MODULE Simulator ------------------------------
(***************************************************************************)
(* The main loop of the simulator (core/Simulator.cc) with its event list, *)
(* its connection map (core/ConnectionMap.cc), the ideal MAC layer         *)
(* (core/MAC.cc) and the two ways of loading a contact trace: completely   *)
(* before the run, or piece by piece, each piece ending in a CheckPoint    *)
(* event that loads the next one.                                          *)
(*                                                                         *)
(* What a node does when an event reaches it is left open: it may send     *)
(* packets, up to MaxSends in one exchange, to the other node or to every  *)
(* neighbour.  The routing modules fill this in; here the question is      *)
(* in which order events reach the nodes and whether the links they travel *)
(* on still exist.                                                         *)
(***************************************************************************)
EXTENDS EventChain, Integers, SequencesExt

CONSTANTS
    Nodes,          \* node identifiers, a finite subset of Nat
    Contacts,       \* possible lines of the trace: [a, b, begin, end]
    Lengths,        \* bound: the numbers of lines a trace may have
    Traffics,       \* possible traffic samples: sequences of [to, time]
    Splits,         \* values of the -SPLIT option; -1 is NOTSET
    MaxSends        \* bound: packets sent after one contact or app event

NOTSET == -1

APPLICATION == -1

\* A contact is between two nodes and does not end before it begins; -SPLIT
\* takes a positive number.
ASSUME SimulatorAssumption ==
    /\ IsFiniteSet(Nodes) /\ Nodes \subseteq Nat
    /\ Contacts \subseteq [a : Nodes, b : Nodes, begin : Nat, end : Nat]
    /\ \A c \in Contacts : c.a # c.b /\ c.begin <= c.end
    /\ Lengths \subseteq Nat
    /\ Traffics \subseteq Seq([to : Nodes, time : Nat])
    /\ Splits \subseteq {NOTSET} \cup (Nat \ {0})
    /\ MaxSends \in Nat

\* The traces of the repository are sorted by the begin of their contacts.
Traces ==
    {t \in UNION {[1..n -> Contacts] : n \in Lengths} :
        \A i, j \in DOMAIN t : i < j => t[i].begin <= t[j].begin}

VARIABLES
    trace,              \* the contact file
    traffic,            \* what TrafficGen inserted
    Split,              \* Settings::SplitValue
    pc,                 \* "load", then "run", or "abort" after abort()
    SimList,            \* the event list
    CurrentTime,
    N,                  \* ConnectionMap: N[n] are the neighbours of n
    CurrentReadBlock,
    sends,              \* packets sent since the last contact or app event
    handled             \* history: contact and app events in their order

vars == <<trace, traffic, Split, pc, SimList, CurrentTime, N,
          CurrentReadBlock, sends, handled>>

-----------------------------------------------------------------------------
\* Event::EventID and the two node fields of an event.
Up(t, a, b) == [id |-> "ContactUp", time |-> t, a |-> a, b |-> b]
Down(t, a, b) == [id |-> "ContactDown", time |-> t, a |-> a, b |-> b]
Transmission(t, a, b) == [id |-> "Transmission", time |-> t, a |-> a, b |-> b]
CheckPoint(t) == [id |-> "CheckPoint", time |-> t, a |-> 0, b |-> 0]

\* A variant that inserts the beginning of a contact before its end.
LineEventsUpFirst(c) ==
    << Up(c.begin, c.a, c.b), Down(c.end, c.a, c.b),
       Up(c.begin, c.b, c.a), Down(c.end, c.b, c.a) >>

\* The events of one line of the trace in the order of their insertion.
LineEvents(c) ==
    << Down(c.end, c.a, c.b), Up(c.begin, c.a, c.b),
       Down(c.end, c.b, c.a), Up(c.begin, c.b, c.a) >>

InsertAll(list, events) == FoldLeft(Insertion, list, events)

\* Lines first..last of a trace t loaded into a list.
Loaded(list, t, first, last) ==
    FoldLeft(LAMBDA l, c : InsertAll(l, LineEvents(c)), list, SubSeq(t, first, last))

AppEvents(s) ==
    [i \in 1..Len(s) |-> Transmission(s[i].time, APPLICATION, s[i].to)]

Lines == Len(trace)

ReadBlockSize == (Lines - (Lines % Split)) \div Split

\* A variant in which the last block is as long as the others.
StopLineEven(block) == block * ReadBlockSize

\* A variant that reads the last line of a block again with the next block.
StartLineAgain(block) ==
    IF block = 1 \/ ReadBlockSize = 0 THEN 1 ELSE (block - 1) * ReadBlockSize

\* The first line of a block, and the last: the end of the file for the
\* last block, whatever the division left over.
StartLine(block) == (block - 1) * ReadBlockSize + 1

StopLine(block) == IF block = Split THEN Lines ELSE block * ReadBlockSize

-----------------------------------------------------------------------------
\* LoadTraffic comes first in performSimulation.
Init ==
    /\ trace \in Traces
    /\ traffic \in Traffics
    /\ Split \in Splits
    /\ pc = "load"
    /\ SimList = InsertAll(<<>>, AppEvents(traffic))
    /\ CurrentTime = 0
    /\ N = [n \in Nodes |-> {}]
    /\ CurrentReadBlock = 0
    /\ sends = 0
    /\ handled = <<>>

LoadCompleteContacts ==
    /\ pc = "load"
    /\ Split \in {NOTSET, 1}
    /\ pc' = "run"
    /\ SimList' = Loaded(SimList, trace, 1, Lines)
    /\ UNCHANGED <<trace, traffic, Split, CurrentTime, N, CurrentReadBlock,
                   sends, handled>>

\* A variant whose checkpoint lies behind the events of its instant.
CheckPointLast(list, t) ==
    Linked(list, CHOOSE k \in 1..(Len(list) + 1) : IsPlaceAfterTies(k, list, t),
           CheckPoint(t))

\* The checkpoint takes the begin of the first line not yet read.
WithCheckPoint(list, t) == Insertion(list, CheckPoint(t))

\* LoadPartialContacts on a list: the next block and, unless it is the last
\* one, the checkpoint.  abort() when StartLine is not before the last line.
LoadPartialContacts(list) ==
    LET block == CurrentReadBlock + 1
        first == StartLine(block)
        last == StopLine(block)
        read == Loaded(list, trace, first, last)
    IN  /\ CurrentReadBlock' = block
        /\ IF first >= Lines
           THEN pc' = "abort" /\ SimList' = list
           ELSE /\ pc' = "run"
                /\ SimList' = IF block < Split
                              THEN WithCheckPoint(read, trace[last + 1].begin)
                              ELSE read

LoadFirstBlock ==
    /\ pc = "load"
    /\ Split \notin {NOTSET, 1}
    /\ LoadPartialContacts(SimList)
    /\ UNCHANGED <<trace, traffic, Split, CurrentTime, N, sends, handled>>

-----------------------------------------------------------------------------
\* The loop of startSimulation takes the top event.
Top == Head(SimList)

TopIs(id) ==
    /\ pc = "run"
    /\ SimList # <<>>
    /\ Top.id = id
    /\ CurrentTime' = Top.time

\* ConnectionMap, always called for both directions.
Connected(a, b) ==
    [n \in Nodes |-> IF a # b /\ n \in {a, b} THEN N[n] \cup ({a, b} \ {n}) ELSE N[n]]
Disconnected(a, b) ==
    [n \in Nodes |-> IF n \in {a, b} THEN N[n] \ ({a, b} \ {n}) ELSE N[n]]

AreConnected(a, b) == b \in N[a]

\* A variant with a transmission delay, as sketched at the end of MAC.cc.
SendPktDelayed(list, n, to, t) == Insertion(list, Transmission(t + 1, n, to))

\* ConnectionMap::GetN lists neighbours in the order of their identifiers.
InOrder(S) ==
    CHOOSE f \in [1..Cardinality(S) -> S] : \A i, j \in DOMAIN f : i < j => f[i] < f[j]

\* BroadcastPkt over the links of map m: a transmission at time t to every
\* neighbour.
BroadcastPkt(list, m, n, t) ==
    InsertAll(list, [i \in 1..Cardinality(m[n]) |-> Transmission(t, n, InOrder(m[n])[i])])

\* SendPkt: to one node, connected or not.
SendPkt(list, n, to, t) == Insertion(list, Transmission(t, n, to))

\* A handler of node n sends a packet: to the node it met or heard, or to all
\* neighbours by map m.
Answer(list, n, peer, m, kind) ==
    IF kind = "unicast" THEN SendPkt(list, n, peer, Top.time)
    ELSE BroadcastPkt(list, m, n, Top.time)

\* It sends one after the other, as SendDirectPackets does.
Answers(list, n, peer, m, kinds) ==
    FoldLeft(LAMBDA l, kind : Answer(l, n, peer, m, kind), list, kinds)

\* There is nobody to be answered for a packet of the application.
Kinds(peer) == IF peer = APPLICATION THEN {"broadcast"} ELSE {"unicast", "broadcast"}

\* What node n may do with the event on top: send any packets, or none.
React(n, peer, m, used) ==
    \E k \in 0..(MaxSends - used) : \E kinds \in [1..k -> Kinds(peer)] :
        /\ SimList' = Answers(Tail(SimList), n, peer, m, kinds)
        /\ sends' = used + k

ContactUp ==
    /\ TopIs("ContactUp")
    /\ N' = Connected(Top.a, Top.b)
    /\ React(Top.a, Top.b, N', 0)
    /\ handled' = Append(handled, Top)
    /\ UNCHANGED <<trace, traffic, Split, pc, CurrentReadBlock>>

\* ContactRemoved of the protocols sends nothing.
ContactDown ==
    /\ TopIs("ContactDown")
    /\ N' = Disconnected(Top.a, Top.b)
    /\ SimList' = Tail(SimList)
    /\ sends' = 0
    /\ handled' = Append(handled, Top)
    /\ UNCHANGED <<trace, traffic, Split, pc, CurrentReadBlock>>

\* recvFromApp
ReceiveFromApp ==
    /\ TopIs("Transmission")
    /\ Top.a = APPLICATION
    /\ React(Top.b, APPLICATION, N, 0)
    /\ handled' = Append(handled, Top)
    /\ UNCHANGED <<trace, traffic, Split, pc, N, CurrentReadBlock>>

\* recv, if Check finds the two nodes still connected
Receive ==
    /\ TopIs("Transmission")
    /\ Top.a # APPLICATION
    /\ IF AreConnected(Top.a, Top.b) THEN React(Top.b, Top.a, N, sends)
       ELSE SimList' = Tail(SimList) /\ UNCHANGED sends
    /\ UNCHANGED <<trace, traffic, Split, pc, N, CurrentReadBlock, handled>>

ContinueLoading ==
    /\ TopIs("CheckPoint")
    /\ LoadPartialContacts(Tail(SimList))
    /\ UNCHANGED <<trace, traffic, Split, N, sends, handled>>

Next ==
    \/ LoadCompleteContacts
    \/ LoadFirstBlock
    \/ ContactUp
    \/ ContactDown
    \/ ReceiveFromApp
    \/ Receive
    \/ ContinueLoading

Spec == Init /\ [][Next]_vars

\* The loop has something to do: it is loading, or there are events.
Working == pc = "load" \/ (pc = "run" /\ SimList # <<>>)

\* And then it does it: this is WF_vars(Next), with ENABLED <<Next>>_vars
\* written out as Working.
FairSpec == Spec /\ ([]<>~Working \/ []<><<Next>>_vars)

-----------------------------------------------------------------------------
\* The values of the variables; no more contacts and packets are handled
\* than the trace and the traffic hold.
TypeOK ==
    /\ trace \in Traces
    /\ traffic \in Traffics
    /\ Split \in Splits
    /\ pc \in {"load", "run", "abort"}
    /\ \A i \in DOMAIN SimList :
          /\ SimList[i].id \in {"ContactUp", "ContactDown", "Transmission", "CheckPoint"}
          /\ SimList[i].time \in Nat
    /\ CurrentTime \in Nat
    /\ N \in [Nodes -> SUBSET Nodes]
    /\ CurrentReadBlock \in 0..(IF Split = NOTSET THEN 0 ELSE Split)
    /\ sends \in 0..MaxSends
    /\ Len(handled) <= 4 * Lines + Len(traffic)

\* The order of events does not depend on how the trace is loaded: what has
\* been handled is a beginning of what complete loading would put in order.
Complete == Loaded(InsertAll(<<>>, AppEvents(traffic)), trace, 1, Lines)

SameOrder == IsPrefix(handled, Complete)

\* Whatever a handler sends is received before the next contact, packet of
\* the application or checkpoint: exchanges run to completion one by one.
\* Nothing in transmission loses its link, so Check discards nothing.
RunToCompletion ==
    \A j \in DOMAIN SimList :
        SimList[j].id = "Transmission" /\ SimList[j].a # APPLICATION
            => /\ AreConnected(SimList[j].a, SimList[j].b)
               /\ \A i \in 1..j : SimList[i].id = "Transmission" /\ SimList[i].a # APPLICATION

\* Contacts of one pair that do not even touch.
Separate ==
    \A i, j \in DOMAIN trace :
        i < j /\ {trace[i].a, trace[i].b} = {trace[j].a, trace[j].b}
            => trace[i].end < trace[j].begin

\* A link exists only during a contact of the trace, in both directions, and
\* it does exist during one that no other contact of the pair touches.
LinksOfTrace ==
    /\ \A a, b \in Nodes :
          b \in N[a] =>
              /\ a \in N[b]
              /\ \E i \in DOMAIN trace :
                    /\ {trace[i].a, trace[i].b} = {a, b}
                    /\ trace[i].begin <= CurrentTime /\ CurrentTime <= trace[i].end
    /\ Separate /\ pc = "run" =>
          \A i \in DOMAIN trace :
              trace[i].begin < CurrentTime /\ CurrentTime < trace[i].end
                  => trace[i].b \in N[trace[i].a]

\* Every run comes to its end with all contacts and packets handled, unless
\* loading is aborted at a last block that has one line only.
Finishes ==
    <>( \/ Len(handled) = 4 * Lines + Len(traffic) /\ SimList = <<>>
        \/ pc = "abort" /\ CurrentReadBlock = Split /\ StartLine(Split) = Lines
        \/ pc = "abort" /\ Lines = 1 )
=============================================================================
