----------------------------- MODULE EventQueue -----------------------------
(***************************************************************************)
(* What the simulator's event list promises its users.  Pending events are *)
(* a set; no insertion takes place in the past; the event handed out is    *)
(* the one with the smallest time, and among the events of one instant the *)
(* one inserted last.                                                      *)
(***************************************************************************)
EXTENDS Naturals

CONSTANTS
    Times,          \* simulation times (a subset of Nat)
    MaxEvents       \* bound: events inserted in one behaviour

VARIABLES
    pending,        \* events inserted and not yet handed out
    current,        \* the event handed out last
    inserted        \* number of events inserted so far

vars == <<pending, current, inserted>>

\* An event of the queue: its time and its rank in the order of insertion.
Event == [time : Times, no : 1..MaxEvents]

\* Before the first event is handed out the clock shows 0.
Start == [time |-> 0, no |-> 0]

Init ==
    /\ pending = {}
    /\ current = Start
    /\ inserted = 0

Insert(t) ==
    /\ inserted < MaxEvents
    /\ t >= current.time
    /\ inserted' = inserted + 1
    /\ pending' = pending \cup {[time |-> t, no |-> inserted + 1]}
    /\ UNCHANGED current

\* e precedes f: earlier, or at the same instant and inserted later.
Precedes(e, f) == e.time < f.time \/ (e.time = f.time /\ e.no > f.no)

Retrieve(e) ==
    /\ \A f \in pending \ {e} : Precedes(e, f)
    /\ pending' = pending \ {e}
    /\ current' = e
    /\ UNCHANGED inserted

Next ==
    \/ \E t \in Times : Insert(t)
    \/ \E e \in pending : Retrieve(e)

Spec == Init /\ [][Next]_vars
=============================================================================
