---------------------------- MODULE MCForwarding ----------------------------
(***************************************************************************)
(* Single-copy forwarding with three nodes and two packets.                *)
(***************************************************************************)
EXTENDS Forwarding

MCNodes == 0..2

\* Two nodes meet and have packets for a third one, which meets one of them.
MCEncounters == {<<0, 1>>, <<1, 2>>}

MCFlows == {<<0, 2>>, <<1, 2>>}

Config(rt, cc, size, ttl) ==
    [RT |-> rt, DM |-> "JUSTTTL", CC |-> cc,
     BufferSize |-> size, TTL |-> ttl, Replicas |-> 1]

\* A node with its own packet and room for one cannot take another.
MCConfigurations ==
    {Config(rt, "NOCC", 0, 0) : rt \in {"DIRECT", "PROPHET", "SIMBET", "BUBBLERAP"}} \cup
    {Config("PROPHET", cc, 1, 0) : cc \in {"AVOIDOVERFLOW", "ACC", "CACC"}} \cup
    {Config("PROPHET", cc, 2, 0) : cc \in {"FAIRROUTE", "BSA"}} \cup
    {Config("SIMBET", "FAIRROUTE", 2, 0), Config("SIMBET", "AVOIDOVERFLOW", 1, 1)}
=============================================================================
