---------------------------- MODULE PacketBuffer ----------------------------
(***************************************************************************)
(* The buffer of a node with its native packets (core/PacketBuffer.cc) and *)
(* the eight dropping policies (dropping-policies/), with the records that *)
(* congestion control reads.  The buffer is a list: the order of arrival   *)
(* decides what the policies drop.  Routing models it as a set, where what *)
(* is dropped is a free choice.                                            *)
(***************************************************************************)
EXTENDS Integers, Sequences, FiniteSets, SequencesExt

CONSTANTS
    Configurations,     \* the settings examined
    ULong,              \* the values of an unsigned long: 2^64 in the code
    MaxTime,            \* bound: the clock
    MaxPackets,         \* bound: packets created
    MaxAdditions        \* bound: calls of addPkt that add a packet

Policies == {"DF", "DT", "DO", "DY", "DF_ASP", "DT_ASP", "DO_ASP", "DY_ASP"}

\* Cleaned: a deletion mechanism cleans the buffer.
Settings ==
    [DropPol : Policies, BufferSize : Nat, TTL : Nat,
     bufferRecording : BOOLEAN, Cleaned : BOOLEAN]

ASSUME BufferAssumption ==
    /\ Configurations \subseteq Settings
    /\ ULong \in Nat \ {0}
    /\ MaxTime \in Nat /\ MaxPackets \in Nat /\ MaxAdditions \in Nat

VARIABLES
    Entries,            \* the list of PacketEntry
    PacketNum,
    Records,            \* the list of PacketRecord
    numPacketDrops,
    added,              \* packets added so far
    creation,           \* creation[p]: the creation time of packet p
    now,                \* the time God tells
    Set                 \* the settings, from the beginning on

vars == <<Entries, PacketNum, Records, numPacketDrops, added, creation, now, Set>>

DropPol == Set.DropPol
BufferSize == Set.BufferSize
TTL == Set.TTL

Entry == [pktID : Nat, CreationTime : Nat, InsTime : Nat, Hops : Nat]

\* What a record is of: the three flags of PacketRecord, all unset if removed.
Kinds == {"inserted", "dropped", "dead", "removed"}

Record == [time : Nat, RTTL : Int, of : Kinds]

Init ==
    /\ Set \in Configurations
    /\ Entries = <<>> /\ PacketNum = 0
    /\ Records = <<>> /\ numPacketDrops = 0
    /\ added = 0 /\ creation = <<>> /\ now = 0

-----------------------------------------------------------------------------
\* What each policy drops from list b: a position.

Relayed(b) == {i \in DOMAIN b : b[i].Hops > 0}

\* Of the positions in I, the first one of an oldest packet.
Oldest(b, I) ==
    CHOOSE i \in I : \A j \in I :
        \/ b[i].CreationTime < b[j].CreationTime
        \/ b[i].CreationTime = b[j].CreationTime /\ i <= j

\* The last one of a youngest packet.
Youngest(b, I) ==
    CHOOSE i \in I : \A j \in I :
        \/ b[i].CreationTime > b[j].CreationTime
        \/ b[i].CreationTime = b[j].CreationTime /\ i >= j

Foremost(b, I) == CHOOSE i \in I : \A j \in I : i <= j
Hindmost(b, I) == CHOOSE i \in I : \A j \in I : i >= j

\* Avoid source packets: choose among I, if there are any.
Preferred(b, I) == IF I # {} THEN I ELSE DOMAIN b

\* The first candidate is the front packet, with its creation time, be it
\* relayed or not: only a packet that is older can replace it.
OlderThanFront(b) == {i \in Relayed(b) : b[i].CreationTime < b[1].CreationTime}
NotOlderThanFront(b) == {i \in Relayed(b) : b[i].CreationTime >= b[1].CreationTime}

\* A variant that takes the first packet of the right kind by its position.
DropAnySource(b) ==
    CASE DropPol = "DF_ASP" -> Foremost(b, DOMAIN b)
      [] DropPol = "DT_ASP" -> Hindmost(b, DOMAIN b)
      [] OTHER -> 1

\* Drop
Drop(b) ==
    CASE DropPol = "DF" -> Foremost(b, DOMAIN b)
      [] DropPol = "DT" -> Hindmost(b, DOMAIN b)
      [] DropPol = "DO" -> Oldest(b, DOMAIN b)
      [] DropPol = "DY" -> Youngest(b, DOMAIN b)
      [] DropPol = "DF_ASP" -> Foremost(b, Preferred(b, Relayed(b)))
      [] DropPol = "DT_ASP" -> Hindmost(b, Preferred(b, Relayed(b)))
      [] DropPol = "DO_ASP" -> Oldest(b, Preferred(b, OlderThanFront(b)))
      [] DropPol = "DY_ASP" -> Youngest(b, Preferred(b, NotOlderThanFront(b)))

-----------------------------------------------------------------------------
IDs(b) == {b[i].pktID : i \in DOMAIN b}

\* The remaining time to live of a packet created at t: -1 without a limit.
RTTL(t) == IF TTL = 0 THEN -1 ELSE TTL - (now - t)

IsAlive(e) == TTL = 0 \/ now - e.CreationTime <= TTL

\* The positions in I in ascending order, and what list b has there: the walk
\* along the list that unlinks every entry but those in I.
InOrder(I) ==
    CHOOSE f \in [1..Cardinality(I) -> I] : \A i, j \in DOMAIN f : i < j => f[i] < f[j]

Kept(b, I) == [k \in 1..Cardinality(I) |-> b[InOrder(I)[k]]]

\* DropDeadPackets: the entries, and the records, that it leaves.
Alive == Kept(Entries, {i \in DOMAIN Entries : IsAlive(Entries[i])})

Recorded(of, rttl) ==
    IF Set.bufferRecording THEN <<[time |-> now, RTTL |-> rttl, of |-> of]>> ELSE <<>>

Deaths ==
    IF Set.bufferRecording
    THEN [i \in 1..(Len(Entries) - Len(Alive)) |-> [time |-> now, RTTL |-> 0, of |-> "dead"]]
    ELSE <<>>

\* A variant that finds the buffer full too late.
isFullAbove(b) == BufferSize > 0 /\ Len(b) > BufferSize

isFull(b) == BufferSize > 0 /\ Len(b) = BufferSize

\* Every look-up and getter begins with DropDeadPackets.
Access ==
    /\ Alive # Entries
    /\ Entries' = Alive
    /\ Records' = Records \o Deaths
    /\ PacketNum' = PacketNum - (Len(Entries) - Len(Alive))
    /\ UNCHANGED <<numPacketDrops, added, creation, now, Set>>

\* A variant without the look-up of the packet.
ExistsNot(p) == FALSE

\* The packet is in the buffer already.
Exists(p) == p \in IDs(Alive)

\* The second half of addPkt: the new entry goes to the end of the list.
Added(e) ==
    LET full == isFull(Alive)
        victim == Drop(Alive)
        room == IF full THEN RemoveAt(Alive, victim) ELSE Alive
    IN  /\ Entries' = Append(room, e)
        /\ PacketNum' = PacketNum - (Len(Entries) - Len(room)) + 1
        /\ numPacketDrops' = numPacketDrops + (IF full THEN 1 ELSE 0)
        /\ Records' = Records \o Deaths
              \o (IF full THEN Recorded("dropped", RTTL(Alive[victim].CreationTime)) ELSE <<>>)
              \o Recorded("inserted", RTTL(e.CreationTime))

\* A packet that exists is refused, after the purge: see Access.
addPkt(p, ct, hops) ==
    /\ added < MaxAdditions
    /\ ~Exists(p)
    /\ added' = added + 1
    /\ Added([pktID |-> p, CreationTime |-> ct, InsTime |-> now, Hops |-> hops])
    /\ UNCHANGED <<now, Set>>

\* The node's own packet, and the packet of another node, which may have been
\* here before; a packet that is received has not expired.
Originate ==
    /\ Len(creation) < MaxPackets
    /\ creation' = Append(creation, now)
    /\ addPkt(Len(creation'), now, 0)

Relay ==
    \/ \E p \in DOMAIN creation :
          /\ RTTL(creation[p]) >= 0 \/ TTL = 0
          /\ creation' = creation
          /\ addPkt(p, creation[p], 1)
    \/ \E ct \in 0..now :
          /\ RTTL(ct) >= 0 \/ TTL = 0
          /\ Len(creation) < MaxPackets
          /\ creation' = Append(creation, ct)
          /\ addPkt(Len(creation'), ct, 1)

\* Its callers have looked the packet up at the same time.
removePkt ==
    \E i \in DOMAIN Entries :
        /\ Alive = Entries
        /\ Records' = Records \o Recorded("removed", RTTL(Entries[i].CreationTime))
        /\ Entries' = RemoveAt(Entries, i)
        /\ PacketNum' = PacketNum - 1
        /\ UNCHANGED <<numPacketDrops, added, creation, now, Set>>

\* CleanBuffer of the deletion mechanisms, which leaves no record.
CleanBuffer ==
    \E ps \in SUBSET IDs(Entries) :
        /\ Set.Cleaned
        /\ ps # {}
        /\ Entries' = Kept(Entries, {i \in DOMAIN Entries : Entries[i].pktID \notin ps})
        /\ PacketNum' = PacketNum - Cardinality({i \in DOMAIN Entries : Entries[i].pktID \in ps})
        /\ UNCHANGED <<Records, numPacketDrops, added, creation, now, Set>>

Tick ==
    /\ now < MaxTime
    /\ now' = now + 1
    /\ UNCHANGED <<Entries, PacketNum, Records, numPacketDrops, added, creation, Set>>

Next == Access \/ Originate \/ Relay \/ removePkt \/ CleanBuffer \/ Tick

Spec == Init /\ [][Next]_vars

-----------------------------------------------------------------------------
\* The readers of the records go through them from the last one to the first,
\* and stop at the first one that is before their interval.

\* The positions reached when reading stops at records that satisfy Stop.
ReadUntil(Stop(_)) ==
    {i \in DOMAIN Records : \A j \in i..Len(Records) : ~Stop(Records[j])}

\* A variant that stops at the first record outside the interval.
DropsReadShort(start, end) ==
    Cardinality({i \in ReadUntil(LAMBDA r : r.time \notin start..(end - 1)) :
        Records[i].of = "dropped"})

\* getNumPacketDrops, with the interval from start until before end
getNumPacketDrops(start, end) ==
    Cardinality({i \in ReadUntil(LAMBDA r : r.time < start) :
        /\ Records[i].time \in start..(end - 1)
        /\ Records[i].of = "dropped"})

\* getProjNetGrowth: a difference of two unsigned long
getProjNetGrowth(interval) ==
    LET read == ReadUntil(LAMBDA r : r.time < now - interval /\ r.RTTL # -1)
        Read(of) == Cardinality({i \in read : Records[i].of = of})
    IN  IF interval > 0 THEN (Read("inserted") - Read("removed")) % ULong ELSE 0

-----------------------------------------------------------------------------
\* The values of the variables; no packet has two entries.
TypeOK ==
    /\ Entries \in Seq(Entry)
    /\ Records \in Seq(Record)
    /\ PacketNum = Len(Entries)
    /\ Cardinality(IDs(Entries)) = Len(Entries)
    /\ numPacketDrops \in Nat /\ added \in Nat /\ now \in Nat
    /\ creation \in Seq(Nat)
    /\ Set \in Configurations

\* isFull compares with =, which is enough: a buffer never holds more packets
\* than its size, whatever is added, purged, removed and cleaned in between.
WithinSize == BufferSize > 0 => Len(Entries) <= BufferSize

\* The records account for every change of the buffer, except those that
\* CleanBuffer makes; and what is read from them adds up: the drops of two
\* adjacent intervals to those of the whole, those of all time to the counter.
RecordsAddUp ==
    LET Count(of) == Cardinality({i \in DOMAIN Records : Records[i].of = of})
    IN  Set.bufferRecording =>
            /\ Set.Cleaned \/ Len(Entries) = Count("inserted") - Count("dropped")
                                                - Count("dead") - Count("removed")
            /\ getNumPacketDrops(0, now + 1) = numPacketDrops
            /\ \A s, m, e \in 0..(now + 1) : s <= m /\ m <= e =>
                  getNumPacketDrops(s, m) + getNumPacketDrops(m, e) = getNumPacketDrops(s, e)

\* The position, in the purged list, of what an addition drops.
Dropped(i) ==
    /\ numPacketDrops' > numPacketDrops
    /\ Alive[i].pktID \notin IDs(Entries')

\* A source packet is dropped only if the buffer has no other.
SparesSource ==
    \A i \in DOMAIN Alive : Dropped(i) /\ Alive[i].Hops = 0 => Relayed(Alive) = {}

\* What is dropped is what the name of the policy says: the packet that has
\* been there longest, or shortest; the oldest one, or the youngest; and a
\* source packet only for want of others, where the policy goes by position,
DropsByName ==
    [][ /\ \A i \in DOMAIN Alive : Dropped(i) =>
             \A j \in DOMAIN Alive :
                 /\ DropPol = "DF" => Alive[i].InsTime <= Alive[j].InsTime
                 /\ DropPol = "DT" => Alive[i].InsTime >= Alive[j].InsTime
                 /\ DropPol = "DO" => Alive[i].CreationTime <= Alive[j].CreationTime
                 /\ DropPol = "DY" => Alive[i].CreationTime >= Alive[j].CreationTime
        /\ DropPol \in {"DF_ASP", "DT_ASP"} => SparesSource ]_vars

\* but not where it goes by age, although the names promise it.
AvoidsSource == [][(DropPol \in {"DO_ASP", "DY_ASP"}) => SparesSource]_vars

\* The growth that congestion control reads is that of the records in the
\* interval, which may be negative.
GrowthIsNet ==
    \A interval \in 1..TTL :
        LET Recent(of) == Cardinality({i \in DOMAIN Records :
                Records[i].time >= now - interval /\ Records[i].of = of})
        IN  getProjNetGrowth(interval) = Recent("inserted") - Recent("removed")
=============================================================================
