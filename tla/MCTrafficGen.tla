---------------------------- MODULE MCTrafficGen ----------------------------
(***************************************************************************)
(* Traffic among four nodes, times in halves of a second.  The trace takes *)
(* 12.5 s, so the sending period is the time from 2.5 s to 10 s.           *)
(***************************************************************************)
EXTENDS TrafficGen, TLC

MCNodes == 0..3

File(a, b, c, d) == 0 :> a @@ 1 :> b @@ 2 :> c @@ 3 :> d

\* Two nodes that have less than a second in common with the sending period.
ShortPresence == { File(<<0, 6>>, <<2, 25>>, <<>>, <<>>) }

\* Whole seconds: a node from the beginning to the end, one that comes late,
\* one that leaves early, and one that is never there or for an instant; and a
\* network of one node only.
MCPresenceFiles ==
    { File(<<0, 25>>, <<6, 25>>, <<2, 16>>, <<>>),
      File(<<4, 10>>, <<12, 24>>, <<2, 24>>, <<0, 0>>),
      File(<<>>, <<>>, <<0, 25>>, <<>>) } \cup ShortPresence

MCTrafficFiles ==
    { << [time |-> 4, source |-> 0, dest |-> 2], [time |-> 4, source |-> 2, dest |-> 1] >> }

MCLoads == "UNIFORM" :> 2 @@ "SAMPLE" :> 2 @@ "BURST" :> 12 @@ "PREDEFINED" :> 2
UniformLoad == "UNIFORM" :> 1

AllTypes == {"UNIFORM", "BURST", "SAMPLE", "PREDEFINED"}
Uniform == {"UNIFORM"}
=============================================================================
