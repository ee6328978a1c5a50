---------------------------- MODULE MCSimulator -----------------------------
(***************************************************************************)
(* Three nodes, contacts of two overlapping pairs that last, touch and     *)
(* begin together, and packets that arrive with a contact and during one.  *)
(***************************************************************************)
EXTENDS Simulator

MCNodes == 0..2

Line(a, b, begin, end) == [a |-> a, b |-> b, begin |-> begin, end |-> end]

MCContacts ==
    { Line(0, 1, 0, 2), Line(0, 1, 1, 1), Line(0, 1, 2, 3), Line(2, 1, 0, 1),
      Line(2, 1, 1, 3), Line(2, 1, 2, 2), Line(1, 0, 3, 3) }

MCTraffics == { <<>>, << [to |-> 1, time |-> 1], [to |-> 0, time |-> 3] >> }

MCLengths == 1..3

\* Values of -SPLIT for up to three lines: whole, in two pieces of one and
\* two lines, line by line, and in more pieces than there are lines.
MCSplits == {-1, 2, 3, 4}
=============================================================================
