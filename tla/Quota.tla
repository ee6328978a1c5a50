------------------------------- MODULE Quota --------------------------------
(***************************************************************************)
(* What quota-based replication promises, whatever messages carry it out:  *)
(* a packet is created with a number of replicas at its source, a holder   *)
(* may hand some of them to one other node, and replicas may be lost; none *)
(* is ever made.                                                           *)
(***************************************************************************)
EXTENDS Naturals, FiniteSets

CONSTANTS
    Nodes,
    Packets

VARIABLES
    quota,          \* replicas of a new packet
    created,        \* packets created so far
    held            \* held[p][n]: the replicas of packet p in the care of n

vars == <<quota, created, held>>

None == [n \in Nodes |-> 0]

Init ==
    /\ quota \in Nat
    /\ created = {}
    /\ held = [p \in Packets |-> None]

\* The changes of the holdings h of one packet to k.
Created(h, k, src) == h = None /\ k = [h EXCEPT ![src] = quota]

Handed(h, k) ==
    \E n, m \in Nodes : \E part \in 1..h[n] :
        n # m /\ k = [h EXCEPT ![n] = @ - part, ![m] = @ + part]

Lost(h, k) == \A n \in Nodes : k[n] \in {h[n], 0}

\* A packet is created; the buffer of its source may lose another one.
Create(p) ==
    /\ p \notin created
    /\ created' = created \cup {p}
    /\ \E src \in Nodes : Created(held[p], held'[p], src)
    /\ \A q \in Packets \ {p} : Lost(held[q], held'[q])

\* Any number of packets are handed on or lost.
Hand ==
    /\ created' = created
    /\ \A q \in Packets : Handed(held[q], held'[q]) \/ Lost(held[q], held'[q])

Next == (Hand \/ \E p \in Packets : Create(p)) /\ UNCHANGED quota

Spec == Init /\ [][Next]_vars
=============================================================================
