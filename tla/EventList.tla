----------------------------- MODULE EventList ------------------------------
(***************************************************************************)
(* The simulator's event list (core/EventList.cc): a linked list of events *)
(* kept in the order of their times.  InsertEvent walks from Top to the    *)
(* first event whose time is not smaller and links the new event in front  *)
(* of it; GetTop unlinks the head.  Simulator::startSimulation sets the    *)
(* clock to the time of the event it retrieves and, while it handles it,   *)
(* inserts events at that time (transmissions) or later (contacts of the   *)
(* next trace block).                                                      *)
(*                                                                         *)
(* Here an event is its time; "no" is a history field, the rank of the     *)
(* event in the order of insertion, which no action reads.                 *)
(***************************************************************************)
EXTENDS EventChain

CONSTANTS
    Times,          \* simulation times
    MaxEvents       \* bound: events inserted in one behaviour

ASSUME EventListAssumption ==
    /\ Times \subseteq Nat
    /\ MaxEvents \in Nat \ {0}

VARIABLES
    Top,            \* the chain of events starting at EventList::Top
    NumberEvents,   \* EventList::NumberEvents
    current,        \* the event retrieved last; current.time is MinTime
    inserted        \* history: number of calls of InsertEvent

listVars == <<Top, NumberEvents, current, inserted>>

Event == [time : Times, no : 1..MaxEvents]

Start == [time |-> 0, no |-> 0]

ListInit ==
    /\ Top = <<>>
    /\ NumberEvents = 0
    /\ current = Start
    /\ inserted = 0

-----------------------------------------------------------------------------
\* A variant that counts only after the early return for an empty list.
InsertEventUncounted(e) ==
    /\ NumberEvents' = IF Top = <<>> THEN NumberEvents ELSE NumberEvents + 1
    /\ \E k \in 1..(Len(Top) + 1) :
          /\ IsPlace(k, Top, e.time)
          /\ Top' = Linked(Top, k, e)

InsertEvent(e) ==
    /\ NumberEvents' = NumberEvents + 1
    /\ \E k \in 1..(Len(Top) + 1) :
          /\ IsPlace(k, Top, e.time)
          /\ Top' = Linked(Top, k, e)

\* What every caller of InsertEvent does: the time is not in the past.
Insert(t) ==
    /\ inserted < MaxEvents
    /\ t >= current.time
    /\ inserted' = inserted + 1
    /\ InsertEvent([time |-> t, no |-> inserted + 1])
    /\ UNCHANGED current

GetTop ==
    /\ Top # <<>>
    /\ current' = Head(Top)
    /\ Top' = Tail(Top)
    /\ NumberEvents' = NumberEvents - 1
    /\ UNCHANGED inserted

ListNext == GetTop \/ \E t \in Times : Insert(t)

ListSpec == ListInit /\ [][ListNext]_listVars

-----------------------------------------------------------------------------
\* The values the variables take; NumberEvents counts the chain.
ListTypeOK ==
    /\ Top \in Seq(Event)
    /\ NumberEvents = Len(Top)
    /\ current \in Event \cup {Start}
    /\ inserted \in 0..MaxEvents

\* The list is in the order the simulation needs: by time, and among the
\* events of one instant the one inserted last comes first, so that what a
\* handler sends is received before anything else happens.
Ordered ==
    \A i, j \in 1..Len(Top) :
        i < j => \/ Top[i].time < Top[j].time
                 \/ Top[i].time = Top[j].time /\ Top[i].no > Top[j].no

\* The clock of the simulation never goes back.
ClockMonotone == [][current'.time >= current.time]_listVars

\* The chain of events implements the abstract queue.
Queue == INSTANCE EventQueue WITH pending <- {Top[i] : i \in 1..Len(Top)}

\* Every insertion and retrieval of the list is one of the abstract queue:
\* GetTop hands out the earliest event, the youngest of its instant.
ImplementsQueue == Queue!Spec
=============================================================================
