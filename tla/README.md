# Verification of the Adyton simulator

Adyton simulates routing in opportunistic networks: nodes that meet and part as a
contact trace tells, and that store, copy and forward packets while they are in
contact. This directory holds TLA+ models of the simulator's core and of most
of the protocols it simulates, TLC configurations that check them on small instances, and
TLAPS proofs for networks of any size. `PROJECT.json` lists components, runs, the
source lines behind every definition, hazards, findings and theorems; paths below
are relative to `src/src/` of the repository.

Contents: [the system](#1-the-system) · [modules](#2-modules-and-how-they-correspond-to-the-code) ·
[runs](#3-runs-what-is-checked-and-in-which-bounds) · [fairness](#4-fairness-and-deadlock) ·
[proofs](#5-proofs) · [findings](#6-findings) · [not modelled](#7-what-is-not-modelled-and-why) ·
[plan](#8-plan)

## 1. The system

The simulator is one thread: `Simulator::startSimulation` takes the first event from
the event list, sets the clock to its time and calls the node concerned, whose handler
runs to its end. There is no parallelism, yet nearly everything that is hard is a
matter of *order*: a handler puts new events into the same list, mostly at the current
instant; an exchange between two nodes is a chain of such events; several exchanges,
the ends of contacts and the packets of the application share an instant.

| component | state | operations | correct if |
|---|---|---|---|
| Event list (`core/EventList`) | linked list from `Top`, `NumberEvents`, `MinTime` | `InsertEvent`, `GetTop` | sorted by time; the clock never goes back; among equal times the last inserted comes first |
| Simulator (`core/Simulator`) | clock, the block of the trace being read | main loop, complete or partial loading of contacts, `Check` | the order of events does not depend on how the trace is loaded; every event is handled; no event is discarded |
| Connection map (`core/ConnectionMap`) | neighbours of each node | `SetConnection`, `UnSetConnection`, `AreConnected` | a link exists during the contacts of the trace only, in both directions |
| MAC (`core/MAC`) | – | `BroadcastPkt`, `SendPkt` | what is sent is received while the link lasts |
| Packet pool (`core/PacketPool`, `core/Packet`) | packets by identifier, access counters | `AddPacket`, `GetPacket`, `ErasePacket`, `AccessPkt` | a packet stays until its last receiver has read it, and no longer |
| Packet buffer (`core/PacketBuffer`) | list of entries, counters, records of changes | add, remove, purge of what has expired, clean, getters | never above its size, no packet twice, records that account for all changes |
| Dropping policies (`dropping-policies/`) | – | which packet a full buffer loses | what the policy's name says |
| Scheduling policies (`scheduling-policies/`) | – | order of outgoing packets | refuses a packet that is not stored |
| Deletion mechanisms (`deletion-mechanisms/`) | what each node knows to be delivered; `God`'s list | `setAsDelivered`, `isDelivered`, vaccine exchange, `CleanBuffer` | no duplicate reaches a destination; nobody carries what it knows to be delivered; what nodes believe delivered is |
| Routing base class (`routing/Routing`) | – | direct packets, direct summaries and requests, antipackets | an exchange gets to its end whatever the mechanism |
| Epidemic (`routing/Epidemic`) | – | `Contact`, `recv…`, `ReceptionSummary`, `…Request`, `…Data` | after a meeting each node has what the other has |
| Spraying protocols (`routing/SprayWait`, `LSFSpray`, `MSFSpray`, `ProphetSpray`, `LSFSprayFocus`, `EBR`) | replicas per stored packet; `betterDests`; encounter counts (`Enc`) | the same, dividing the replicas | replicas are never made, nor lost on the way |
| Replication by utility (`routing/Delegation`, `CnR`) | utilities; a threshold per stored packet (`PacketEntry::MaxUtil`) | the exchange with utilities in the answer to the summary | replicas go to better carriers only, by the values that hold when they arrive; no replica to who has one |
| Single-copy protocols (`routing/Direct`, `Prophet`, `SimBet`, `BubbleRap`) | delivery predictabilities (`DPT`), contact graphs (`Adjacency`), local communities | exchange of utilities, then hand-over of the only copy | one copy, in one place; it moves to a better carrier only |
| Congestion control (`congestion-control/`) | `information`: what the other node told of its buffer | `REQUEST_BUFFER_INFO`, `addBufferInfo`, `filterPackets` | no drop at the receiver; nothing is decided on another node's answer |
| Traffic generator (`core/TrafficGen`) | presence of nodes, samples, counts | uniform, burst, sample, predefined traffic | both ends present, none to itself, right counts |
| Statistics, `God` | receptions, global views | `pktRec`, `AddDelivered` | a duplicate is told from a first reception |
| further protocols, utilities, coding | see `PROJECT.json` | – | sections 7 and 8 |

**How they interact.** `TrafficGen` and the contact trace fill the event list before the
run (or a checkpoint event at a time, with `-SPLIT`). A contact event changes the
connection map and calls `Node::ConUpdate`, which calls the routing protocol's
`Contact`. The protocol reads its buffer and its deletion mechanism, adds packets to
the pool and gives them to the MAC, which inserts one transmission event per receiver
*at the current time*: on top of the list. When such an event comes up, `Check`
compares it with the connection map, and `Node::recv` calls the protocol again with
the identifier of a packet in the pool. Data packets are broadcast to all neighbours,
who all access them and of whom one is the next hop; the last access deletes the packet.

**What is hard**, and is listed line by line under `hazards` in `PROJECT.json`:

* the order of events of one instant: last in, first out, so that whatever a handler
  sends comes before all that waits, in the reverse order of sending;
* state read when a message is sent and used when it comes back: a summary lists
  packets that meanwhile expire, are dropped from a full buffer, are delivered, or
  arrive by the other direction of the same exchange; several `exit(1)` of the code
  take for granted that this makes no harm;
* contacts that overlap, touch at an instant, or begin on a link that exists;
* loading the trace in pieces, each inserted by a checkpoint event in the middle of
  the run;
* knowledge that runs ahead of the facts: a packet is set as delivered when it is
  *sent* to its destination;
* replicas, and single copies: a packet divided or removed on sending and stored on
  reception, by different handlers and one event apart;
* utilities that the exchange changes while it compares them, and answers kept outside
  of any message (`information`, `betterDests`) until a later one reads them;
* numbers: truncation of times to integers, a difference of unsigned values, the last
  block of a trace, counts that are kept beside what they count.

## 2. Modules and how they correspond to the code

```
 EventChain ──┬── EventList ───────── implements ── EventQueue
              └── Simulator                            (abstract)
 Routing ── Exchange ──┬── Epidemic
                       ├── Delegation
                       ├── SprayWait ─ implements ── Quota (abstract)
                       └── Congestion ──┬── Forwarding ─ implements ── Custody (abstract)
                             Adjacency ─┘
 PacketBuffer (the list behind Routing's sets)      TrafficGen
```

**EventChain, EventList, EventQueue.** `EventChain` has the walk and the linking of
`InsertEvent` as operators on a sequence. `EventList` makes a state machine of them:
`Insert(t)` is `InsertEvent` (never before the clock, as all callers do), `GetTop` is
`GetTop`; `Top`, `NumberEvents` and the clock keep the code's names, and a history
field numbers the insertions. `EventQueue` says what users rely on: a set of pending
events of which the earliest is handed out, the youngest of its instant first.

**Simulator.** `startSimulation` from loading to the end: `LoadCompleteContacts` and
`LoadPartialContacts` (`LoadFirstBlock`, `ContinueLoading` for a checkpoint event), and
one action per kind of event (`ContactUp`, `ContactDown`, `ReceiveFromApp`, `Receive`).
A trace line becomes two events up and two events down. What a node does is left open:
it may broadcast, or answer with several packets in one handler
(`Answers`, as `SendDirectPackets` does), up to a bound on all packets, through the MAC. This module answers the question
the protocol modules build on: do exchanges run to completion before the next contact
event of the list, in the same order for every `-SPLIT`, and over links that exist? It includes
the links: they come up with the first line of a pair and go down with the last event of any.

**Routing.** The network as the protocols see it and class `Routing`. Because of the
answer above, the events of the current instant are a stack, `evlist`; the environment
(`BeginContact`, `EndContact`, `TouchContact`, `Generate`, `Tick`) acts when it is empty.
`pool`, `conn`, `buffer`, `delivered`, `god`, `received` and `duplicates` are the state
of packet pool, connection map, buffers, deletion mechanisms, `God` and `Statistics`.
The protocol is a setting, `RT`; `AfterDirectTransfers` is the virtual function with which
each protocol's exchange begins. `Send` is the end of a handler that sends packets and erases the one it answers,
`Access` the end of one that reads a data packet. `halted` is an `exit(1)` of a handler.
A broadcast, in the code a run of adjacent events, is one entry with the set of receivers
still to come. The settings (`Set`: protocol, deletion mechanism, congestion control, buffer size, time to live,
replicas) are a variable chosen in `Init` that no action changes, so that one run covers
several; the theorems hold for every set of them.

Two data structures are abstracted. A buffer is the set of its packets; *which* packet a
full buffer drops is a free choice of `Added`, which includes the choice of each
dropping policy. The order in which packets leave is a free choice of `Orders`, which
includes the order of each scheduling policy. What is proved or checked holds for
all of them. Purging of expired packets is not abstracted: every access of the code that
purges does so in the model (`Alive`); a handler that finds nothing to look up makes no
access and purges nothing, in the code as in the model (the test for an empty summary).

**Exchange, Epidemic.** `routing/Epidemic.cc` and the spraying protocols share their
exchange word for word: `Exchange` has it, with the properties all such protocols should
have. `Epidemic` adds `ReceptionRequest`, `Relay` and `recv`, each handler whole.

**SprayWait, Quota.** Six spraying protocols as cases of `RT`. `SprayWait` keeps `reps`, the
replicas of each buffer entry. What the variants add to the exchange is there message by
message (`UTIL_DEST`, `AVAIL_DEST`, `REQUEST_CONTACTS`, `DEST_PREDICT`, the requests of EBR); what
their utilities say of a destination is a free choice, so the results hold for every
metric and every history of contacts. For EBR the encounter values are told apart from
zero, which is all that the division by their sum depends on; the share is any number the floor can
give. `Quota` is what quota-based replication promises whatever the messages: replicas
are created at the source, any part of them is handed from one node to another, or they are lost. The
refinement counts the replicas in a buffer together with those in transmission to that node.

**Delegation.** Delegation forwarding and Compare and Replicate, as cases of `RT` that name the
protocol and the utility. `util` has the utilities as ranks, which only their order matters of: they may
become anything whenever a handler of the code brings them up to date (`Revise`: the beginning and the end of a
contact, the answer with contacts or predictabilities) or when they change with time, and at no other
moment; those that do not depend on the destination are the same for all. `MaxUtil` is the threshold
stored with each entry: set by the source, raised with the other node's utility on sending, set by the receiver,
and raised at the end of a contact under the profile's `update` (`UUpdate`).

**Forwarding, Congestion, Adjacency, Custody.** The single-copy protocols as cases of `RT`.
PRoPHET's predictabilities are ranks: the update raises what each version of the table may
raise, ageing lowers all alike, and only comparisons decide. SimBet's utilities are not abstracted:
`Adjacency` has the contact graph of a node with similarity and ego betweenness as
exact fractions. Bubble Rap's communities grow in any way, its ranks are free. `Congestion` puts the
exchange of buffer information in front and filters what is handed over; sizes that
mechanisms compute from rates are free within their bounds. `Custody` is the promise: one
custodian at a time, its source first, and custody that has ended does not come back.

**PacketBuffer.** The list behind those sets: entries in order of arrival,
`addPkt` with its dropping policy (all eight), expiry on access, `removePkt`, `CleanBuffer`, the
records for congestion control and two functions that read them. Positions matter
here: they decide what the policies drop.

**TrafficGen.** Each round of a generating loop is a step, `rand()` is a free choice, and
time has a resolution finer than a second so that `(int)` truncates something.

The MC modules hold nothing but the values of constants. Definitions whose comment
calls them *a variant* are not used by any specification: they are plausible errors,
which `PROJECT.json` pairs with the property that tells each from the code.

## 3. Runs: what is checked, and in which bounds

| run | shows | bounds, and why they are enough | states |
|---|---|---|---|
| `event_list` | the abstract queue is implemented: by time, last in first out among equal times | 3 instants, `MaxEvents` = 5 insertions: three events of one instant, and insertions before, between and behind others. The proofs remove the bound | small |
| `simulator` | the same order of events for every `-SPLIT` (`SameOrder`); what is sent is received before the next contact event, on a link that exists (`RunToCompletion`); links exist during the contacts of the trace only, and do (`LinksOfTrace`); all events are handled (`Finishes`) | traces of 1 to 3 lines (`Lengths`) out of 7 contacts that overlap, repeat, touch and last zero time; splits into none, 2, 3 and 4 pieces, so that blocks are of one line, uneven, and more than lines; `MaxSends` = 3: two packets in one handler and an answer to one of them, or three answers in a row | 0.12 million |
| `epidemic` | exchanges complete (`MeetingCompletes`); no message is lost (`LinksLive`); the pool is exact; no handler exits; no duplicates; vaccinated nodes carry nothing delivered (`Immunity`); what is believed delivered is (`Truthful`) | 3 nodes, all of which meet in both orders of a trace line, 2 packets between any of them, no limits, one instant (`MaxTime` = 0: without expiry time has no effect). Copies take two ways, a broadcast has a bystander, two packets cross | 1.1 million |
| `delegation` | Delegation and Compare and Replicate: replicas go uphill (`Uphill`), no handler exits, nothing expired is sent (`NothingStale`), every exchange ends (`Drains`) | a chain of 3 nodes, 2 packets from end to end, `MaxRank` = 1: the node in the middle may be better or not, and change at every update; buffers of one packet, TTL 1 with `MaxTime` = 2, so that a packet can expire or be dropped in the middle of an exchange; five configurations with all kinds of utility and all deletion mechanisms | 0.76 million |
| `spray_wait` | all six spraying protocols: replicas are never made (`ImplementsQuota`), none is lost where nothing deletes (`NoneLost`), what one neighbour advised is forgotten before the next (`Advised`), what can be sprayed is (`SprayCompletes`) | one packet for a node its source never meets, up to 5 replicas: odd and even shares, wait phase at once and after two hops; mechanisms that clean and that do not; TTL 1; EBR with `EncWindow` longer than the trace, see `ebr` | 0.82 million |
| `forwarding` | all four single-copy protocols: one copy in one place (`ImplementsCustody`), not lost (`NoneLost`), upward only (`Upward`), no handler exits; congestion control does not use an answer twice (`Informed`) and avoids drops (`AvoidsOverflow`) | 3 nodes of which two pairs meet, 2 packets to the third node, so that each carrier may have its own packet as well; `MaxRank` = 2, two instants, buffers of 1 and 2 with each mechanism that cuts to the storage remaining | 0.84 million |
| `packet_buffer` | the buffer under every policy: `WithinSize`, `RecordsAddUp`, `DropsByName`; no packet twice (`TypeOK`) | sizes 2 and 3, TTL 0, 1, 2, 3 packets, `MaxAdditions` = 4, `MaxTime` = 2: drops with ties in age, expiry before a drop, re-insertion of a dropped packet | 0.3 million |
| `traffic` | all kinds of traffic: `NoSelfTraffic`, `BothPresent`, `CountRight` | 4 nodes with late, early, missing and momentary presence, half seconds | 11 thousand |
| `buffer_source`, `buffer_growth`, `ebr`, `traffic_trap` | one disagreement each, section 6 | – | – |

`ULong` = 65536 stands for 2^64 in `getProjNetGrowth`: any value above the counts shows
the same. `variousIDs`, which the code increments for ever, starts over with every group of events,
when no packet is left that could be mistaken: this keeps the state space finite
and loses nothing, since `PoolExact` shows the pool to be empty then.

`EncWindow` is the length of the window in which `Enc` counts encounters. While it lasts the
value in use is the running count, which the contact itself has just raised: no sum is
zero, and the run of the spraying protocols includes EBR. Once it is over the value
is the last window's, which can be 0 on both sides: that is run `ebr`.

Properties are stated where they can fail. Each is paired in `PROJECT.json` with a
mutant of the code that breaks it within the same bounds: inserting behind equal times,
erasing a packet or not, omitting a purge, accepting every summary, spraying the
last replica, and so on.

## 4. Fairness and deadlock

`DGFairSpec` of `Delegation` is weak fairness of `DGStep`, a round of the main loop. The code
justifies it: the loop of `startSimulation` runs on as long as there are events. Nothing
is assumed of the environment, so `Drains` says that every exchange ends, not that
another begins. `FairSpec` of `Simulator` is weak fairness of `Next`, with its
enabledness written out as `Working` (the `ENABLED` of insertions into long lists is slow to
evaluate): loading goes on, and while there are events they are handled.

Deadlock is not checked: the simulation ends when its events do, and the bounds end it as well. That
it ends *only* then is `Finishes`, and that the exchange always goes on is `Drains` and
`NoError`.

## 5. Proofs

TLC checks instances; the theorems hold for every value of the constants. The
assumptions are those the modules name: identifiers are natural numbers, the sets of
nodes finite, a contact has two different ends (`RoutingAssumption`); times are natural
numbers (`EventListAssumption`), so are the capacity of a buffer, the time to live and the numbers of packets (`BufferAssumption`); contacts are between two nodes and do not end before they begin, and `-SPLIT` takes a positive number, as the
command line checks (`SimulatorAssumption`); presence lies within the trace, and traffic files are sequences of
samples (`TrafficAssumption`).

**Lists_proofs** – the two lists of the code on which the other models rest as sets or as a stack: the event list and a
node's packet buffer.

*Events*: `ListTypeCorrect`, `AlwaysOrdered` (the list is sorted, the youngest of an instant first; no run of its own, as
an unsorted list would break the refinement), `ClockNeverBack`, `Refinement`.
The inductive invariant (`ListInv`) adds to `ListTypeOK` and `Ordered` that nothing pending is overdue
(otherwise retrieving could move the clock back) and that ranks are distinct and at most
`inserted` (otherwise an insertion could not be told from the events already there). The
lemmas `LinkedType` and `LinkedSet` say what linking at a place does to a sequence. For
the refinement, linking adds one element to the abstract set, and the head of an
ordered list is the event that precedes all others.

*Packets*: `BufferTypeCorrect` (`TypeOK`, with it that no packet is stored twice), `NeverOverfull` (`WithinSize`), `RecordsAgree`
(`RecordsAddUp`) and `DropsAsNamed` (`DropsByName`), for every policy, capacity, time to live and number of packets. The invariant
(`BufferInv`) adds that the list is in the order of arrival, which is what lets a policy find the oldest
packet at one end; that `PacketNum` is the length of the list; that the records are in the order of their time; and the balance behind
`RecordsAddUp`: of each packet, what is stored and what the records count as gone make up what was put in. A list is filtered by
the increasing enumeration of a set of positions: `InOrderExists` and `InOrderOnto` say that there is one
and that it misses no position, by induction on the least and the largest number of a finite set, and `KeptFacts` what remains of
a buffer. `TallyConcat`, `TimelyConcat` and `BatchConcat` say what appending records does to sums and order.

**Simulator_proofs** – all safety properties of the main loop, for every trace, traffic and number of pieces: `TypeCorrect` (`TypeOK`),
`ExchangesComplete` (`RunToCompletion`), `OrderKept` (`SameOrder`) and `LinksFollowTrace` (`LinksOfTrace`), in three invariants, each with the
one before it as a premise.

*The list* (`IInv`): it begins with the transmissions in progress, all over links that are up, and is in order,
so that what is sent at the current instant gets in front of everything else; the links are
symmetric, so that an answer has a link. What is loaded could get in front of a transmission, but a checkpoint is handled only
when none is left. `Progress` counts: what has been handled, is in the list or remains to be read never exceeds what trace and traffic
have, for which no line may be read twice; there is at most one checkpoint, before the last block (`BlockFacts`: the blocks
lie one behind the other, and the line behind a block exists). `InsertAllSteps` and `LoadedSteps` take `FoldLeft` apart into single
insertions, by induction on the positions. This is what justifies the stack of `Routing`.

*The order* (`OInv`): `SameOrder` looks at what has been handled only. The invariant adds what is still to come: put what is in the list, transmissions
and checkpoint left out, behind what has been handled, load the lines not yet read into that, and the complete order comes out. An event moves from the list to
what has been handled without changing it. Loading a block is the hard step, for a block is loaded into the rest of the list while complete loading inserts into all
of it: `LoadedBehind` (what is loaded goes behind events that are earlier, and leaves them alone) with `LoadedInTwo`. It applies because the
checkpoint has the time of the first line not yet read and goes in front of what is as late, so everything handled before it is earlier than every line to come. The traces have to be sorted, as `Traces` says.

*The links* (`LInv`): a link comes down when the end of its contact is handled, so that end has to be in the list (`WillEnd`), and for that it has to be
behind the beginning (`OfTrace`): it is, since it is inserted first and the beginning goes in front of whatever is not earlier, of the end at the same
instant as well. That a contact does not end before it begins is needed here: the end would be handled first, and the link stay. For the other direction the invariant says of every contact that it is still to begin, is a link, is over (`Noticed`), or is behind the checkpoint;
that contacts of a pair do not touch is needed where the end of another one of them is handled.

**Exchange_proofs** – the lemmas about class `Routing` that hold for whatever protocol runs on it: the
network invariant `IInv` and what the handlers of the base class do to it. `LinksLive` is not inductive. A
handler answers to the previous hop of the packet it has received, so links have to be symmetric, the sender of a
transmission has to be the previous hop, and a control packet's receiver its next hop; the end of a
contact takes a link away, so no transmission may lie below a contact event on the
stack; the access counter has to be the number of receivers left. These are the parts of
`IInv` (`NetOK`, `DataOK`, `AppOK`, `StackOK`). The proofs rest on two lemmas about the stack:
`SendStack` (a handler that sends packets over existing links keeps it well-formed) and
`AccessStack` (so does the reading of a data packet, whether or not it is the last). `SendView` and
`AccessView` say what a handler leaves on the stack, `DirectPacketsSent` is the part all mechanisms share.

Its section on the conversation has what the exchange of `Exchange` guarantees for Epidemic routing, for Spray and Wait and its MSF
variant, and for the two protocols of `Delegation`, which wrap messages about utilities round it. Most of the properties
are about what a message says and what has changed by the time it is read. The
invariant, `Conversation`, says what each message
still guarantees while it is in transmission. `OneControl`: at most one packet that is
not data is on its way, on top of the stack. `Exchanging`: all that is on its way belongs to
the exchange of one pair; what a summary offers is stored and alive, what a request asks for is stored by one node
and welcome to the other (`ControlRight`), and a data packet on its way is alive, the only one of its
original and welcome to its receiver until it has read it (`DataRight`). `StoredOK`: nobody carries what it is vaccinated
against, every reception is known to the mechanism, and whatever is believed delivered
is received or on its way to its destination (`Arriving`), which is how knowledge that
runs ahead of the facts stays true. There is one lemma per handler (`SummaryHeard`, …),
which includes that its `exit(1)` is out of reach.

The last section says how far an exchange has come, for the protocols without utilities (`Flooding`) and for
whatever packets `W` each node keeps to itself. Whatever else the node *n* that began it stores alive (`Due`), the other one, *m*, has (`Served`), or it is on its way
to *m* (`Inbound`), or the control packet under way is still to settle it (`Pending`, `Owed`). Nothing of that may be taken back meanwhile: *n* keeps a copy
of what it sends on, and what it is about to forget *m* does not store either (`Backed`). In the second direction the first stays settled (`Over`) while *n* receives
from *m*. It needs a stack on which only the messages of one exchange lie above the contacts of an instant (`Stacked`, `Underway`), and `Conversation`.

**Epidemic_proofs** – `TypeCorrect`, `NothingLost` (`LinksLive`), `PoolNeverLeaks`
(`PoolExact`), `OneExchange` (`Conversation`), `NeverAborts`, `NeverTwice`, `AlwaysImmune`, `AlwaysTruthful`, `NeverStale`: the safety
properties of Epidemic routing for any number of nodes, packets, buffer size, time to live and deletion
mechanism, overlapping contacts included (TLC checks `NothingStale` for `Delegation`, the others for `Epidemic`).

`MeetingsComplete` (`MeetingCompletes`): where buffers are unlimited, a node that has answered the second summary of a contact
stores whatever the other one stored alive, unless it is vaccinated. The property compares two nodes many messages apart; its
invariant `MeetInv` is that of the last section of `Exchange_proofs`, with nothing kept back.

**Delegation_proofs** – Delegation Forwarding and Compare and Replicate: `NothingLost`, `OneExchange`, `NeverAborts`, `NeverStale`,
`DeliveredOnce` as for Epidemic routing, and what is their own: `TypeCorrect` (`DGTypeOK`) and `AlwaysUphill` (`Uphill`:
a replica goes to a node of a higher utility than the sender, or that has raised the sender's threshold). Compare and Replicate has
the first, Delegation the second: of Delegation it says that the threshold is the receiver's utility when the replica arrives, and it is in the configurations of
Compare and Replicate that the direction of the comparison shows. `Uphill` is
not inductive, for the utilities are compared in a handler and the packet read several messages later. The invariant `Ranked` (theorem
`OneOrder`) adds that all utilities and thresholds are values of one order (`UtilOK`, `MaxOK`), that each message names two different nodes, the ends of its link
(`Addressed`), and that an answer carries what the tables of its sender still say (`Told`); it holds because tables change at
contacts only, when the stack is empty of messages.

**Forwarding_proofs** – all four single-copy protocols with every congestion control, in five layers,
each an invariant that the next one takes for granted. `IInv` (`Invariance`) is the network invariant with the messages that
utilities and congestion control add. `Stored` (`OnePlace`) says that a packet is in one buffer or in one
transmission, never in both: from it and from the effect of each handler on places, `SingleCopy` derives the
refinement of `Custody` (a step moves the one copy of some packets from a node to another, ends the custody of some, or creates
one), and `NothingLost` says that where nothing is deleted every packet not received is in a place.
`Talk` (`Talking`) says what each message still guarantees: the utilities it carries are those of the tables, a
request names packets that are stored and alive, `information` is about the partner of the exchange and is
forgotten with it. From it follow `NothingEnds` (`NoError`: also the two `exit(1)` of `FairRoute`, which computes the utilities
again), `UphillOnly` (`Upward`) and `ForgottenInTime` (`Informed`). `Settled` (`RoomForAll`) counts: the packets in
transmission to a node fit into what is left of its buffer, although that was asked for several messages ago; hence
`NoOverflow` (`AvoidsOverflow`). `Typed` (`WellTyped`) is what `TypeCorrect` (`FWTypeOK`) needs: each message has the form its reader
takes it to have (`Worded`), and what a node keeps of others is in range (`Tables`); so SimBet's
betweenness, in the model a natural number of fractions with a common denominator, never divides by zero.

**SprayWait_proofs** – all six spraying protocols: `TypeCorrect` (`SWTypeOK`), `QuotaBased` (the refinement
`ImplementsQuota`), `NothingLost` (`NoneLost`) and `AdviceForgotten` (`Advised`: what another node is better for, LSF Spray and
Focus keep outside of the messages, `betterDests`; replicas are handed over on the advice of the node that asks, or of nobody, because only one
message of such an exchange is under way at a time and the request that ends it clears the variable). A node *holds* the replicas in its buffer and those in transmission to it. Every
handler, the summary of LSF Spray and Focus and the division of replicas included, does one of two things to the
replicas of a packet: nodes keep what they have or lose all of it (`Less`), or one node hands a part
of its own to another (`Passed`); an origination makes them at the source (`Made`). Each maps to a step of `Quota`. The
invariant `SInv` adds to the network invariant what replicas are (`StockOK`), what the exchange values say
(`UtilOK`, `FlowOK`) and `Conversation` of these protocols: what a request names, the node that asks neither stores nor is sent
otherwise (`Carried`), and of each packet no more is sent than there is (`Divided`). Another section of `Exchange_proofs` has what that needs of sums over finite sets, and `FWTypeOK` of products; the
library defines them by recursion on `CHOOSE`: that a fold does not depend on the order, by induction over sets of numbers and over subsets with their least elements.
The hypothesis `WithinWindow` – where EBR is among the configurations, the trace ends within the first
window of its encounter values – is needed: after that the code divides 0 by 0, which is a finding (run `ebr`). The other protocols are not restricted.

Spray and Wait and its MSF variant (`Unaided`) let no utility decide what they offer, and their exchange is that of the flooding protocols. `UnaidedSafe` carries over what
holds of Epidemic's (`NoError`, `NoDuplicates`, `Immunity`, `Truthful`, `NothingStale`), and `SprayingCompletes` (`SprayCompletes`) that it
leaves nothing out but packets in their wait phase. Those are what a node keeps to itself (`Waiting`), and a node keeps more as it shares: the invariant
(`UnaidedInv`) is kept because a single replica stays one where it is (`WaitKept`), and the more a node keeps, the less it owes (`LessOwed`).

**TrafficGen_proofs** – `TypeCorrect`, `NoSelf` (pairs of
different nodes are drawn, or the receiver is shifted past the sender), `CountsAgree` (`CountRight`: the counter that a
round raises, and the packets that it skips, whatever the rounds so far), and `AlwaysPresent` (`BothPresent`), with the hypothesis
`WholeSeconds`: contacts begin at whole seconds and the period of traffic not before the first second. Without it the theorem is false, for the
code truncates the times it draws between, and the first of them may lie a fraction of a second before the contact. Traces have times in
whole seconds; in the run's traces, of half seconds, contacts begin at whole ones.

**Model-checked only.** Liveness (`Finishes`, `Drains`), everything with fairness, and `ENABLED` are beyond the
prover. (Folds and enumerations are within reach: a set of numbers has a least element, a finite one a
largest.) All state invariants, all
refinements and all action properties of the passing runs are proved.

## 6. Findings

Each is the counterexample of a run of its own; `PROJECT.json` quotes the lines.

* `buffer_source` – *Drop Oldest* and *Drop Youngest – Avoid Source Packets* compare
  relayed packets with the front packet, whatever it is; a source packet is dropped
  although a relayed one is stored (`dropping-policies/DropOldestASP.cc:59`,
  `DropYoungestASP.cc:59`). The two that go by position keep the promise (`DropsByName`).
* `buffer_growth` – the projected net growth of a buffer that shrank is a difference of two
  `unsigned long`, close to 2^64 (`core/PacketBuffer.cc:1133`), which
  `congestion-control/ACC.cc:155` adds to a buffer length.
* `ebr` – when two nodes meet whose encounter values are both 0, the share of the replicas is
  0/0; its floor, converted to `int`, is the least integer on the usual targets, is sent as a number of
  replicas and subtracted from the sender's (`routing/EBR.cc:367`; the values are 0 at the first
  meeting of two nodes after the first window, `data-structures/Enc.cc:75`).
* `traffic_trap` – nodes that have less than a second in common pass the check of
  `core/TrafficGen.cc` and lead to `rand()%0` (`:339`) instead of a skipped packet.

Seen while modelling, without a run of their own:

* a trace whose last block is one line is aborted although the line exists
  (`core/Simulator.cc:447`, `>=` where `:446` asks whether it exists; the model aborts there as the code does, and
  `Finishes` says that it does so in that case only);
* the number of burst packets reported, by which results are divided, is not the number made
  (`core/TrafficGen.cc:478`; `CountRight` is stated for the other kinds);
* `removePkt` uses an iterator from before a purge (`core/PacketBuffer.cc:525`; no caller
  reaches it), and `getAvailSpace` counts expired packets (`:3037`);
* truncation can move a packet to before the sending period (`core/TrafficGen.cc:339` against
  the comment at `:225`);
* `congestion-control/BSA.cc:75` does not end with an interval of 0;
* `data-structures/Enc.cc:99`: `LastUpdated` is never written, so that after the first window every
  contact starts a new one;
* `routing/Delegation.cc:961-967`: an `else` is missing before the last of a chain of cases (compare
  `:1049-1062`), which sets the source's threshold to 0 for two of the utilities (so it does in `Originate`);
* `routing/Delegation.cc:307`: with the utility *Sim* the end of a contact raises every threshold by the
  similarity with the node that left (`getSim(NID)` in a loop over `i`; so it does in `Update`);
* `MSFSpray` offers every packet: its metric is never compared.

## 7. What is not modelled, and why

* *SimBetTS, the thresholds of several values that Delegation keeps for it and for SimBet, the replicating
  modes of Bubble Rap*: section 8. The handlers of RSPM messages in Delegation and CnR are dead code.
* *Optimal*: an oracle that floods copies to find the best delivery times, a tool for
  comparison with its own bookkeeping of delays.
* *Network coding* (`core/PacketPool`'s encoded packets, `data-structures/Coding`):
  algebra over GF(2) on packet contents.
* *The values of utilities, centrality and community detection* beyond `Adjacency`: real-valued
  averages that are inputs to decisions. They are free choices where a protocol
  reads them, so what is checked holds for all of them, but nothing is said of the values.
* *The order of single scheduling policies; gains and rates of ACC, BSA, CACC; the custody transfer
  of CACC*: free choices as well, the last left out.
* *Settings, user interaction*: straight-line parsing before the run. What it
  guarantees of the values is in the assumptions.
* *Results, statistics other than receptions*: written, never read by the simulation.
* *Sizes, hop counts and real-time delays of packets*: the MAC is ideal and no property refers
  to them; hop counts appear in `PacketBuffer`, where a policy reads whether they are 0.
* *Trace preparation (`utils/`), vendored libraries (`ext/`)*: not part of the simulator.

## 8. Plan

Modelled first were the parts that every simulation goes through, then the protocols by
what they share: flooding, replication by utility, quotas, single copies, congestion control. What is left, in order:

1. **SimBetTS and the replicating Bubble Rap** as further values of `RT` in
   `Forwarding` and `SprayWait`: replicas shared out by utility.
2. **Optimal** as a third user of `Exchange`; coding depots.
3. **Scheduling policies** and the getters of `PacketBuffer` behind them.
