---------------------------- MODULE MCDelegation ----------------------------
(***************************************************************************)
(* Delegation forwarding, and Compare and Replicate, on a chain of three   *)
(* nodes with packets from one end to the other: the node in the middle    *)
(* may become a better or a worse carrier at any time.                     *)
(***************************************************************************)
EXTENDS Delegation

MCNodes == 0..2

MCEncounters == {<<0, 1>>, <<2, 1>>}

MCFlows == {<<0, 2>>}

Config(rt, dm, size, ttl) ==
    [RT |-> rt, DM |-> dm, CC |-> "NOCC",
     BufferSize |-> size, TTL |-> ttl, Replicas |-> 1]

\* Each utility and each mechanism; buffers for one packet, packets that live
\* for one instant, or both.
MCConfigurations ==
    {Config("Delegation.LTS", "VACCINE", 0, 1), Config("Delegation.Enc", "KEEPREP", 1, 0),
     Config("Delegation.Sim", "NODUPS", 1, 1), Config("CnR.Prophet", "JUSTTTL", 1, 1),
     Config("CnR.Bet", "CATACLYSM", 0, 1)}
=============================================================================
