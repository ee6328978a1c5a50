----------------------------- MODULE Adjacency ------------------------------
(***************************************************************************)
(* The contact graph a node keeps, and the social metrics it derives from  *)
(* it (data-structures/Adjacency.cc), with the aggregation that never      *)
(* forgets a contact.  A graph g maps each node to the nodes it is known   *)
(* to have met; only what its owner met itself, or was told of by nodes it *)
(* met, is in it.                                                          *)
(***************************************************************************)
EXTENDS Naturals, FiniteSets, FiniteSetsExt

NoContacts(nodes) == [x \in nodes |-> {}]

\* GrowingTimeWindow::Connect
SetConnection(g, x, y) ==
    [z \in DOMAIN g |-> IF z = x THEN g[z] \cup {y}
                        ELSE IF z = y THEN g[z] \cup {x} ELSE g[z]]

\* SetConnection(x, y) for all y in ys.
SetConnections(g, x, ys) ==
    [z \in DOMAIN g |-> (IF z = x THEN g[z] \cup ys ELSE g[z])
                            \cup (IF z \in ys THEN {x} ELSE {})]

\* The contacts that node n, whose graph this is, has in common with d.
CalculateSimilarity(g, n, d) == IF d = n THEN 0 ELSE Cardinality(g[n] \cap g[d])

\* A number that all numbers of nodes divide: fractions are counted in it.
Whole(nodes) == ProductSet(1..Cardinality(nodes))

\* For each two contacts of n that have not met, the share that n has in the
\* paths of two hops between them.
UpdateBetweenness(g, n) ==
    MapThenSumSet(
        LAMBDA pair : LET paths == Cardinality({x \in DOMAIN g : pair \subseteq g[x]})
                      IN  Whole(DOMAIN g) \div paths,
        {pair \in kSubset(2, g[n]) : \A x \in pair : pair \cap g[x] = {}})

\* UpdateAll
Metrics(g, n) ==
    [sim |-> [d \in DOMAIN g |-> CalculateSimilarity(g, n, d)],
     bet |-> UpdateBetweenness(g, n)]

NoMetrics(nodes) == [sim |-> [d \in nodes |-> 0], bet |-> 0]
=============================================================================
