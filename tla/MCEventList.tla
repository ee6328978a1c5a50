---------------------------- MODULE MCEventList -----------------------------
(***************************************************************************)
(* EventList with three instants and five insertions, enough for three     *)
(* events of one instant and for an insertion before, between and behind   *)
(* events of other instants.                                               *)
(***************************************************************************)
EXTENDS EventList

MCTimes == 0..2
=============================================================================
