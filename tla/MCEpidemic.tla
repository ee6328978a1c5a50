----------------------------- MODULE MCEpidemic -----------------------------
(***************************************************************************)
(* Epidemic routing with three nodes, so that copies of a packet travel by *)
(* different ways and a broadcast has a bystander.                         *)
(***************************************************************************)
EXTENDS Epidemic

MCNodes == 0..2

\* Everybody meets everybody, listed in either order in the trace.
AllPairs == {c \in MCNodes \X MCNodes : c[1] # c[2]}

Config(dm, size, ttl) ==
    [RT |-> "EPIDEMIC", DM |-> dm, CC |-> "NOCC",
     BufferSize |-> size, TTL |-> ttl, Replicas |-> 1]

\* The mechanisms that keep a node from receiving a packet twice.
Unlimited == {Config(dm, 0, 0) : dm \in {"NODUPS", "VACCINE", "CATACLYSM"}}
=============================================================================
