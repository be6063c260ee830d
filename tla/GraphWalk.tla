----------------------------- MODULE GraphWalk -----------------------------
(***************************************************************************)
(* search_v4_graph: the walk of a search from its seeds, hop by hop, two   *)
(* queries each, while the worker adds and removes assertions.             *)
(*                                                                         *)
(* An assertion joins two entities for ever; those with a literal are no   *)
(* edges.  Scores are left out: a cut of the seeds, of the frontier and of *)
(* the hits may keep any of them.                                          *)
(***************************************************************************)
EXTENDS Naturals, SequencesExt

CONSTANTS Entity, Assertion, SubjectOf, ObjectOf,
          Weak,                   \* assertions of a confidence below 0.15
          Scope,                  \* what a search may see: [seeds, entities, facts]
          MaxHops,                \* 3
          MaxSeeds,               \* _MAX_V4_GRAPH_SEEDS
          MaxFrontier,            \* _MAX_FRONTIER_NODES
          MinRows, MaxRows,       \* 200 and 5000, of a query
          MaxFanout,              \* twice _MAX_FANOUT_PER_NODE
          Limit,                  \* of the hits
          MaxChanges, MaxWalks    \* bounds

VARIABLES graph,                  \* assertions stored
          walk, changes, walks
vars == <<graph, walk, changes, walks>>

NoWalk == [hop |-> 0, back |-> FALSE, scope |-> [seeds |-> {}, entities |-> {}, facts |-> {}],
           from |-> {}, last |-> {}, paths |-> {}, hits |-> {}, wide |-> FALSE, steady |-> FALSE]
Init == graph = {} /\ walk = NoWalk /\ changes = 0 /\ walks = 0

\* The worker, between any two queries.
Change(a) == /\ changes < MaxChanges
             /\ changes' = changes + 1
             /\ graph' = (graph \ {a}) \cup ({a} \ graph)
             /\ walk' = [walk EXCEPT !.steady = FALSE]
             /\ UNCHANGED walks

-----------------------------------------------------------------------------
\* Any n of a set, or all of it: the best by a score, or a LIMIT without an order.
Cut(set, n) == {s \in SUBSET set : Cardinality(s) = Min({n, Cardinality(set)})}

\* The first seeds; those outside the scope are left out, and nothing is walked without.
Start(scope) ==
    /\ walk.hop = 0 /\ walks < MaxWalks
    /\ \E asked \in Cut(scope.seeds, MaxSeeds) :
          LET seeds == asked \cap scope.entities
          IN  /\ seeds # {} /\ scope.facts # {}
              /\ walk' = [NoWalk EXCEPT !.hop = 1, !.scope = scope, !.from = seeds,
                            !.steady = TRUE, !.wide = (asked = scope.seeds),
                            !.last = {[ents |-> <<e>>, facts |-> << >>] : e \in seeds}]
    /\ walks' = walks + 1
    /\ UNCHANGED <<graph, changes>>

\* _step_expand: assertions whose subject is in the frontier, then those whose
\* object is; an entity does not lead to itself.
Source(a) == IF walk.back THEN ObjectOf[a] ELSE SubjectOf[a]
Target(a) == IF walk.back THEN SubjectOf[a] ELSE ObjectOf[a]
Rows == {a \in graph : Source(a) \in walk.from /\ Source(a) # Target(a)}
\* The limit of a query, which counts rows outside the scope as well.
RowLimit == Min({MaxRows, Max({MinRows, MaxFanout * Cardinality(walk.from)})})

GrownOfNewFact(p, a, f) == a \notin Range(p.facts)
\* A path does not come back to one of its entities or assertions.
Grown(p, a, f) == f \notin Range(p.ents) /\ a \notin Range(p.facts)
\* Rows of the scope that are not too weak.
Usable == walk.scope.facts \ Weak
\* Each of them is added to each path that ends at its source.
Extended(p, rows) == {[ents |-> Append(p.ents, Target(a)), facts |-> Append(p.facts, a)] :
    a \in {r \in rows \cap Usable : /\ Source(r) = Last(p.ents) /\ Source(r) \in walk.from
                                    /\ Target(r) \in walk.scope.entities
                                    /\ Grown(p, r, Target(r))}}
Found(rows) == walk.paths \cup UNION {Extended(p, rows) : p \in walk.last}
Forward == /\ walk.hop \in 1..MaxHops /\ ~walk.back
           /\ \E rows \in Cut(Rows, RowLimit) :
                 walk' = [walk EXCEPT !.paths = Found(rows), !.back = TRUE,
                                        !.wide = @ /\ rows = Rows]
           /\ UNCHANGED <<graph, changes, walks>>
\* The second query of the hop; the best ends are the next frontier.
Backward ==
    /\ walk.hop \in 1..MaxHops /\ walk.back
    /\ \E rows \in Cut(Rows, RowLimit) :
          LET new == {p \in Found(rows) : Len(p.facts) = walk.hop}
              ends == {Last(p.ents) : p \in new}
          IN  \E front \in Cut(ends, MaxFrontier) :
                 walk' = [walk EXCEPT !.paths = Found(rows), !.back = FALSE, !.hop = @ + 1,
                            !.last = new, !.from = front,
                            !.wide = @ /\ rows = Rows /\ front = ends]
    /\ UNCHANGED <<graph, changes, walks>>

\* Paths are grouped by the entity they lead to; weak targets and those beyond
\* the limit are left out, each of the others keeps all its paths.
Targets == {Last(p.ents) : p \in walk.paths}
Return == /\ walk.hop = MaxHops + 1
          /\ \E kept \in {s \in SUBSET Targets : Cardinality(s) <= Limit} :
                walk' = [walk EXCEPT !.hop = @ + 1,
                           !.hits = {p \in walk.paths : Last(p.ents) \in kept}]
          /\ UNCHANGED <<graph, changes, walks>>
\* The search has the answer; or a timeout, or an error of the engine, was raised.
Finish == /\ walk.hop > 0
          /\ walk' = NoWalk
          /\ UNCHANGED <<graph, changes, walks>>

Next == \/ \E a \in Assertion : Change(a)
        \/ \E scope \in Scope : Start(scope)
        \/ Forward \/ Backward \/ Return \/ Finish
Spec == Init /\ [][Next]_vars

-----------------------------------------------------------------------------
TypeOK == /\ graph \subseteq Assertion
          /\ walk.hop \in 0..(MaxHops + 2)
          /\ walk.hits \subseteq walk.paths

\* Chains of assertions that visit no entity and no assertion twice.
Joined(a, e, f) == {SubjectOf[a], ObjectOf[a]} = {e, f}
Chains(n, as, es) == {p \in [ents : [1..(n + 1) -> es], facts : [1..n -> as]] :
    /\ \A i \in 1..n : Joined(p.facts[i], p.ents[i], p.ents[i + 1])
    /\ IsInjective(p.ents) /\ IsInjective(p.facts)
    /\ p.ents[1] \in walk.scope.seeds}
\* However the worker and the walk interleave, what it returns are chains of the
\* search's own assertions and entities from a seed, none of them weak; and it has
\* found every such chain there is, unless the graph changed meanwhile or the seeds,
\* the rows of a query or a frontier were cut.
PathsAreChains == walk.hop > MaxHops =>
    LET every(as) == UNION {Chains(n, as, walk.scope.entities) : n \in 1..MaxHops}
    IN  /\ walk.paths \subseteq every(Usable)
        /\ walk.steady /\ walk.wide => every(graph \cap Usable) \subseteq walk.paths
=============================================================================
