---------------------------- MODULE MCComponents ----------------------------
(***************************************************************************)
(* Small instances of Components: the values of the constants that a       *)
(* configuration cannot write down.                                        *)
(***************************************************************************)
EXTENDS Components

CONSTANTS c1, c2, d, x, y, z, w, auto, plain,   \* contents, a revision, texts, settings
          n1, n2, n3, u1, u2,                   \* entities, vectors and memories
          a1, a2, b1                            \* assertions

\* Two settings of the chunker cut two contents into chunks, some of them alike.
Plans == [c \in {c1, c2} |-> [m \in {auto, plain} |->
            CASE c = c1 -> IF m = auto THEN <<x, y>> ELSE <<w>>
              [] c = c2 -> IF m = auto THEN <<x, z>> ELSE <<w, y>>]]
Sents == [rev: {d}, num: 1..2, sup: {None, c1}, ord: {1}, text: {x}, last: {TRUE}]
         \cup [rev: {d}, num: 1..2, sup: {None, c1}, ord: {2}, text: {y}, last: {FALSE}]
Ranks == [e \in {n1, n2, u1, u2} |-> CASE e = n1 -> 1 [] e = u1 -> 2 [] e = n2 -> 3 [] e = u2 -> 4]
\* Another agent, "b", has nothing; two of the assertions are of one chunk.
Agents == [a \in {a1, a2, w, b1} |-> "a"]
Topics == [a \in {a1, a2, w, b1} |-> IF a = a2 THEN "t" ELSE "s"]
Chunks == [a \in {a1, a2, w, b1} |-> IF a \in {a1, a2} THEN "c" ELSE "d"]
Scopes == {[agent |-> "a", past |-> FALSE], [agent |-> "a", past |-> TRUE],
           [agent |-> "b", past |-> FALSE]}
Paths == {<<a1>>, <<w, a1>>}
\* Three records of one tenant; the third does not fit in beside another.
Tenants == [r \in 1..3 |-> "a"]
Sizes == [r \in 1..3 |-> r]
\* A projection with an object, and one whose object is a literal.
Subjects == [a \in {a1, b1} |-> n1]
Objects == [a \in {a1, b1} |-> IF a = a1 THEN n2 ELSE None]
\* A triangle of entities, one side of it twice, once weakly; a search may lack a seed,
\* an entity or an assertion, or have more seeds than it uses.
Tails == [a \in {a1, a2, b1, w} |-> IF a \in {a1, b1} THEN n1 ELSE n3]
Heads == [a \in {a1, a2, b1, w} |-> IF a = b1 THEN n3 ELSE n2]
WalkScopes == {[seeds |-> {n1}, entities |-> {n1, n2, n3}, facts |-> {a1, a2, b1, w}],
               [seeds |-> {n1, n3}, entities |-> {n1, n2, n3}, facts |-> {a1, a2}],
               [seeds |-> {n1, n3}, entities |-> {n1, n2}, facts |-> {a1, a2, b1}],
               [seeds |-> {n1, n2, n3}, entities |-> {n1, n2, n3}, facts |-> {a1, b1}]}
=============================================================================
