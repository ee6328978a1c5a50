------------------------------ MODULE Custody -------------------------------
(***************************************************************************)
(* What single-copy forwarding promises, whatever the nodes tell each      *)
(* other: a packet has one custodian at a time, its source first; custody  *)
(* passes from node to node until it ends, at the destination or because   *)
(* the packet is dropped, and then it has ended for good.                  *)
(***************************************************************************)
EXTENDS FiniteSets

CONSTANTS
    Nodes,
    Packets

VARIABLES
    created,        \* packets created so far
    custodian       \* custodian[p]: the node that has packet p, in a set

vars == <<created, custodian>>

Init ==
    /\ created = {}
    /\ custodian = [p \in Packets |-> {}]

\* What a step may do to the custody of a packet.
Kept(c, d) == d = c

Passed(c, d) == c # {} /\ \E n \in Nodes : d = {n}

Ended(c, d) == d = {}

Create(p) ==
    /\ p \notin created
    /\ created' = created \cup {p}
    /\ \E src \in Nodes : custodian'[p] = {src}
    /\ \A q \in Packets \ {p} :
          Kept(custodian[q], custodian'[q]) \/ Ended(custodian[q], custodian'[q])

Hand ==
    /\ created' = created
    /\ \A q \in Packets :
          \/ Kept(custodian[q], custodian'[q])
          \/ Passed(custodian[q], custodian'[q])
          \/ Ended(custodian[q], custodian'[q])

Next == Hand \/ \E p \in Packets : Create(p)

Spec == Init /\ [][Next]_vars
=============================================================================
