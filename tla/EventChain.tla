----------------------------- MODULE EventChain -----------------------------
(***************************************************************************)
(* The walk and the linking of EventList::InsertEvent (core/EventList.cc)  *)
(* as operators on a chain of events, a sequence of records with a field   *)
(* "time".  EventList makes a state machine of them; Simulator inserts     *)
(* whole blocks of events with them.                                       *)
(***************************************************************************)
EXTENDS Naturals, Sequences

\* A walk that stops only at a later event: equal times become first in,
\* first out.  (Variants of this kind are what the runs must tell from the
\* code; no specification uses them.)
IsPlaceAfterTies(k, list, t) ==
    /\ \A i \in 1..(k - 1) : list[i].time <= t
    /\ k <= Len(list) => list[k].time > t

\* A walk that is not made: every event is linked in at the head.
IsPlaceFirst(k, list, t) == k = 1

\* The runner's loop stops at place k: every event before it is earlier than
\* t, and the one there, if any, is not.
IsPlace(k, list, t) ==
    /\ \A i \in 1..(k - 1) : list[i].time < t
    /\ k <= Len(list) => list[k].time >= t

\* The list with e linked in at place k.
Linked(list, k, e) ==
    SubSeq(list, 1, k - 1) \o <<e>> \o SubSeq(list, k, Len(list))

\* The chain after InsertEvent(e).
Insertion(list, e) ==
    Linked(list, CHOOSE k \in 1..(Len(list) + 1) : IsPlace(k, list, e.time), e)
=============================================================================
