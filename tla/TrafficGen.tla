----------------------------- MODULE TrafficGen -----------------------------
(***************************************************************************)
(* The traffic generator (core/TrafficGen.cc).  From the presence file,    *)
(* which tells when a node has its first and its last contact, it makes a  *)
(* traffic sample before the simulation starts: packets, each with a time, *)
(* a source and a destination.  Each round of the generating loops is a    *)
(* step; rand() is a free choice.                                          *)
(*                                                                         *)
(* Times are doubles in the code.  Here they are multiples of 1/Second of  *)
(* a second, so that the conversions to int lose something.                *)
(***************************************************************************)
EXTENDS Integers, Sequences, FiniteSets

CONSTANTS
    Nodes,              \* node identifiers
    Second,             \* the resolution of the model
    Duration,           \* traceDuration
    PresenceFiles,      \* possible presence files: [Nodes -> lines], see Line
    TrafficFiles,       \* possible traffic files: sequences of samples
    TrafficTypes,       \* the values of -TRAFFIC_TYPE examined
    FlowGap,            \* time between the packets of a flow: 7200 s in the code
    Loads               \* NumPackets, by type

Times == 0..Duration

\* A line of the presence file: "-" for a node without contacts.
Line == {<<>>} \cup (Times \X Times)

Sample == [time : Nat, source : Nodes, dest : Nodes]

ASSUME TrafficAssumption ==
    /\ Nodes \subseteq Nat /\ IsFiniteSet(Nodes)
    /\ Second \in Nat \ {0}
    /\ Duration \in Nat /\ FlowGap \in Nat
    /\ PresenceFiles \subseteq [Nodes -> Line]
    /\ TrafficFiles \subseteq Seq(Sample)
    /\ TrafficTypes \subseteq {"UNIFORM", "BURST", "SAMPLE", "PREDEFINED"}
    /\ Loads \in [TrafficTypes -> Nat]

VARIABLES
    presence,       \* the presence file
    type,           \* the type of traffic
    pc,             \* "run", "done", or "trap" after a division by zero
    round,          \* rounds of the generating loop so far
    skipped,        \* pairs that have no time in common
    samples,        \* the Transmission events inserted, in their order
    totalStatPkts,
    PacketsFor      \* packets by destination

vars == <<presence, type, pc, round, skipped, samples, totalStatPkts, PacketsFor>>

Load == Loads[type]

-----------------------------------------------------------------------------
Later(s, t) == IF s > t THEN s ELSE t
Earlier(s, t) == IF s < t THEN s ELSE t

\* (int) of a time
Truncated(t) == (t \div Second) * Second

\* FillPresenceList reads 0 as 0.1 s (the shortest time here, if that is longer).
Presence(n, field) ==
    IF presence[n] = <<>> THEN -Second
    ELSE IF presence[n][field] = 0 THEN (Second + 9) \div 10
    ELSE presence[n][field]

inPresence(n) == Presence(n, 1)
outPresence(n) == Presence(n, 2)

SndPrdStart == Duration \div 5
SndPrdStop == (4 * Duration) \div 5

ActivePairs ==
    {p \in Nodes \X Nodes :
        p[1] # p[2] /\ \A i \in {1, 2} : inPresence(p[i]) > 0 /\ outPresence(p[i]) > 0}

\* getAllPresentNodes
Present(t) == {n \in Nodes : inPresence(n) <= t /\ outPresence(n) >= t}

Init ==
    /\ presence \in PresenceFiles
    /\ type \in TrafficTypes
    /\ pc = "run"
    /\ round = 0
    /\ skipped = 0
    /\ samples = <<>>
    /\ totalStatPkts = 0
    /\ PacketsFor = [n \in Nodes |-> 0]

-----------------------------------------------------------------------------
Count(s, n) == Cardinality({i \in DOMAIN s : s[i].dest = n})

\* InsertEvent for each of a sequence of new samples.
Insert(new) ==
    /\ samples' = samples \o new
    /\ PacketsFor' = [n \in Nodes |-> PacketsFor[n] + Count(new, n)]

Round(limit) ==
    /\ pc = "run"
    /\ round < limit
    /\ round' = round + 1
    /\ UNCHANGED <<presence, type>>

\* rand() modulo zero
Trap ==
    /\ pc' = "trap"
    /\ UNCHANGED <<skipped, samples, totalStatPkts, PacketsFor>>

\* A variant that forgets the pair.
SkipUncounted == UNCHANGED <<skipped, pc, samples, totalStatPkts, PacketsFor>>

Skip ==
    /\ skipped' = skipped + 1
    /\ UNCHANGED <<pc, samples, totalStatPkts, PacketsFor>>

\* A variant that takes the time one of the nodes is there.
CommonOutOfAny(p) == Earlier(Later(outPresence(p[1]), outPresence(p[2])), SndPrdStop)

\* The time both nodes of a pair are there, within the sending period.
CommonIn(p) == Later(Later(inPresence(p[1]), inPresence(p[2])), SndPrdStart)
CommonOut(p) == Earlier(Earlier(outPresence(p[1]), outPresence(p[2])), SndPrdStop)

ToSample(p, t) == [time |-> t, source |-> p[1], dest |-> p[2]]

One(p, t) == <<ToSample(p, t)>>

flowsize == 3

flows == Load \div (2 * flowsize)

\* Packets in both directions, at three times.
Flow(p, t) ==
    [i \in 1..(2 * flowsize) |->
        ToSample(IF i % 2 = 1 THEN p ELSE <<p[2], p[1]>>,
                 t + ((i - 1) \div 2) * FlowGap)]

Made(p, t) == IF type = "BURST" THEN Flow(p, t) ELSE One(p, t)

\* The choice of a pair and of a time insTime for it, of which Made(p, t)
\* are the samples; a pair with no time in common is skipped.
Choice ==
    \/ ActivePairs = {} /\ Trap
    \/ \E p \in ActivePairs :
          LET in == CommonIn(p)
              seconds == (CommonOut(p) - in) \div Second
          IN  \/ in >= CommonOut(p) /\ Skip
              \/ /\ in < CommonOut(p)
                 /\ seconds = 0
                 /\ Trap
              \/ /\ in < CommonOut(p)
                 /\ \E r \in 0..(seconds - 1) :
                       Insert(Made(p, r * Second + Truncated(in)))
                 /\ UNCHANGED <<pc, skipped, totalStatPkts>>

UniformTraffic ==
    /\ type = "UNIFORM"
    /\ Round(Load)
    /\ Choice

BurstTraffic ==
    /\ type = "BURST"
    /\ Round(flows)
    /\ Choice

\* The last entry of getAllPresentNodes' array, which is in ascending order.
Last(nodes) == {n \in nodes : \A m \in nodes : m <= n}

\* A variant whose receiver is drawn like its sender, from all nodes.
ReceiversOfAll(nodes, s) ==
    UNION {IF q = s THEN Last(nodes) ELSE {q} : q \in nodes}

\* The receiver is drawn from all nodes but the last; it is the last one if
\* the sender is drawn again.
Receivers(nodes, s) ==
    UNION {IF q = s THEN Last(nodes) ELSE {q} : q \in nodes \ Last(nodes)}

InPeriod(t) == SndPrdStart <= t /\ t <= SndPrdStop

\* Only packets of the sending period count.
Counted(t) == IF InPeriod(t) THEN totalStatPkts + 1 ELSE totalStatPkts

SampleTraffic ==
    /\ type = "SAMPLE"
    /\ Round(Load)
    /\ \E r \in 0..(Duration \div Second) :
          LET t == r * Second
          IN  IF Cardinality(Present(t)) > 1
              THEN /\ \E s \in Present(t) : \E q \in Receivers(Present(t), s) :
                         Insert(One(<<s, q>>, t))
                   /\ totalStatPkts' = Counted(t)
              ELSE UNCHANGED <<samples, totalStatPkts, PacketsFor>>
    /\ UNCHANGED <<pc, skipped>>

PredefinedTraffic ==
    /\ type = "PREDEFINED"
    /\ pc = "run"
    /\ pc' = "done"
    /\ \E file \in TrafficFiles :
          /\ Insert(file)
          /\ totalStatPkts' = totalStatPkts + Len(file)
    /\ UNCHANGED <<presence, type, round, skipped>>

\* A variant that counts the packets asked for.
AfterLoopBlind ==
    IF type = "SAMPLE" THEN totalStatPkts ELSE Load

\* What is set when the loop is over.
AfterLoop ==
    IF type = "SAMPLE" THEN totalStatPkts ELSE Load - skipped

Return ==
    /\ pc = "run"
    /\ type # "PREDEFINED"
    /\ round = (IF type = "BURST" THEN flows ELSE Load)
    /\ pc' = "done"
    /\ totalStatPkts' = AfterLoop
    /\ UNCHANGED <<presence, type, round, skipped, samples, PacketsFor>>

Next == UniformTraffic \/ BurstTraffic \/ SampleTraffic \/ PredefinedTraffic \/ Return

Spec == Init /\ [][Next]_vars

-----------------------------------------------------------------------------
\* The values of the variables; a round of uniform traffic makes a packet or
\* is skipped.
TypeOK ==
    /\ presence \in PresenceFiles
    /\ type \in TrafficTypes
    /\ pc \in {"run", "done", "trap"}
    /\ round \in 0..Load
    /\ skipped \in 0..round
    /\ samples \in Seq(Sample)
    /\ type = "UNIFORM" /\ pc # "trap" => Len(samples) + skipped = round
    /\ totalStatPkts \in Nat
    /\ PacketsFor \in [Nodes -> Nat]

\* No node sends a packet to itself, although the receiver of a sample is
\* drawn without regard to the sender.
NoSelfTraffic ==
    type # "PREDEFINED" =>
        \A i \in DOMAIN samples : samples[i].source # samples[i].dest

\* "Both nodes should be present in the network in the generated time
\* instance": as the first packet of a flow tells for bursts.
BothPresent ==
    \A i \in DOMAIN samples :
        type \in {"UNIFORM", "SAMPLE"} \/ (type = "BURST" /\ i % (2 * flowsize) = 1)
            => {samples[i].source, samples[i].dest} \subseteq Present(samples[i].time)

\* The number of packets by which the results are divided is the number of
\* packets generated in the period that counts: for a predefined sample or a
\* uniform one all of them.  (For bursts it is not: skipped flows count as one
\* packet each.)  The nodes' shares are right as well.
CountRight ==
    /\ \A n \in Nodes : PacketsFor[n] = Count(samples, n)
    /\ pc = "done" =>
          CASE type = "SAMPLE" ->
                  totalStatPkts =
                      Cardinality({i \in DOMAIN samples : InPeriod(samples[i].time)})
            [] type \in {"UNIFORM", "PREDEFINED"} -> totalStatPkts = Len(samples)
            [] OTHER -> TRUE

\* "We will create less packets than NumPackets": a pair without a time in
\* common is skipped, and generation goes on.
NeverTraps == pc # "trap"
=============================================================================
