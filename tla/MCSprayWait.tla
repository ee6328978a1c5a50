---------------------------- MODULE MCSprayWait -----------------------------
(***************************************************************************)
(* Spraying with four nodes and one packet of up to five replicas.        *)
(***************************************************************************)
EXTENDS SprayWait

MCNodes == 0..3

\* The packet is for a node that its source never meets.
MCFlows == {<<0, 3>>}

\* Nodes 1 and 2 lie between 0 and 3, and meet.
Diamond == {<<0, 1>>, <<0, 2>>, <<1, 2>>, <<1, 3>>, <<2, 3>>}

Config(rt, dm, ttl, r) ==
    [RT |-> rt, DM |-> dm, CC |-> "NOCC", BufferSize |-> 0, TTL |-> ttl, Replicas |-> r]

Variants ==
    {"LSFSPRAYANDWAIT", "MSFSPRAYANDWAIT", "PROPHETSPRAY", "LSFSPRAYFOCUS", "EBR"}

MCConfigurations ==
    {Config("SPRAYANDWAIT", "JUSTTTL", 0, r) : r \in {0, 1, 2, 4}} \cup
    {Config("SPRAYANDWAIT", "VACCINE", 0, 3), Config("SPRAYANDWAIT", "NODUPS", 0, 5),
     Config("SPRAYANDWAIT", "CATACLYSM", 0, 3), Config("SPRAYANDWAIT", "KEEPREP", 1, 2)} \cup
    {Config(rt, "JUSTTTL", 0, 2) : rt \in Variants}

\* Encounter-Based Routing alone.
EBRConfigurations == {Config("EBR", "JUSTTTL", 0, 2)}
=============================================================================
