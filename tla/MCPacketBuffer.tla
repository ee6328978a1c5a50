--------------------------- MODULE MCPacketBuffer ---------------------------
(***************************************************************************)
(* One buffer of two packets or without a limit, under every policy, with  *)
(* packets that expire or do not.                                          *)
(***************************************************************************)
EXTENDS PacketBuffer

Config(policy, size, ttl, recording, cleaned) ==
    [DropPol |-> policy, BufferSize |-> size, TTL |-> ttl,
     bufferRecording |-> recording, Cleaned |-> cleaned]

MCConfigurations ==
    {Config(policy, 2, 0, FALSE, FALSE) : policy \in Policies} \cup
    {Config("DF", 2, 1, TRUE, FALSE), Config("DO_ASP", 2, 0, TRUE, FALSE),
     Config("DY", 2, 2, FALSE, TRUE), Config("DT_ASP", 3, 2, TRUE, TRUE)}

\* Where the avoidance of source packets goes by age
ByAge == {Config(policy, 2, 0, FALSE, FALSE) : policy \in {"DO_ASP", "DY_ASP"}}

\* Where congestion control reads the records
Recording == {Config("DF", 0, 2, TRUE, FALSE)}
=============================================================================
