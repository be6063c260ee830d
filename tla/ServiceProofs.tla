-------------------------- MODULE ServiceProofs --------------------------
(***************************************************************************)
(* What is proved of the components of Components that answer callers: the *)
(* walk of a search and the gateway.                                       *)
(*                                                                         *)
(* A walk: first the rows a chain is made of, then chains that grow and    *)
(* shrink by a link, then the walk, hop by hop, against them.              *)
(*                                                                         *)
(* The gateway: nearly every transaction of a call is a step of its own,   *)
(* so the invariant says, for each place an actor can be at, what it may   *)
(* still rely on: Placed.  The steps of others leave it true because of    *)
(* what no step takes back: Grows.                                         *)
(***************************************************************************)
EXTENDS ComponentProofs

-----------------------------------------------------------------------------
(* The walk of a search (GraphWalk). *)

\* A row is a sequence of n elements of X.
IsRow(f, n, X) == f \in [1..n -> X]

\* As many elements, the same number.
LEMMA Same == ASSUME NEW m \in Nat, NEW n \in Nat, 1..m = 1..n PROVE m = n
  <1>1. CASE m < n
    <2>1. n \in 1..n
      BY <1>1
    <2> QED BY <1>1, <2>1
  <1>2. CASE n < m
    <2>1. m \in 1..m
      BY SMTT(60), <1>2
    <2> QED BY <1>2, <2>1
  <1> QED BY <1>1, <1>2

\* A row is a sequence.
LEMMA RowIsSeq ==
  ASSUME NEW X, NEW n \in Nat, NEW f, IsRow(f, n, X)
  PROVE  f \in Seq(X) /\ Len(f) = n
  <1>1. f \in Seq(X)
    BY SeqDef DEF IsRow
  <1>2. DOMAIN f = 1..Len(f) /\ Len(f) \in Nat
    BY <1>1, LenProperties
  <1>3. DOMAIN f = 1..n
    BY DEF IsRow
  <1> QED BY <1>1, <1>2, <1>3, Same

\* g is f with x behind it.
Grew(g, f, x, n, X) == /\ IsRow(g, n + 1, X) /\ g[n + 1] = x
                       /\ \A i \in 1..n : g[i] = f[i]
(* An element appended. *)
LEMMA OneMore ==
  ASSUME NEW X, NEW n \in Nat, NEW f, IsRow(f, n, X), NEW x \in X
  PROVE  Grew(Append(f, x), f, x, n, X)
  <1>1. f \in Seq(X) /\ Len(f) = n
    BY RowIsSeq
  <1>2. /\ Append(f, x) \in Seq(X) /\ Len(Append(f, x)) = n + 1
        /\ \A i \in 1..n : Append(f, x)[i] = f[i]
        /\ Append(f, x)[n + 1] = x
    BY <1>1, AppendProperties
  <1>3. Append(f, x) \in [1..Len(Append(f, x)) -> X]
    BY <1>2, LenProperties
  <1> QED BY <1>2, <1>3 DEF IsRow, Grew

\* Two rows that grew alike are the same.
LEMMA GrewAlike ==
  ASSUME NEW X, NEW n \in Nat, NEW f, NEW x, NEW g, NEW h, Grew(g, f, x, n, X), Grew(h, f, x, n, X)
  PROVE  g = h
  BY DEF Grew, IsRow

\* The chains of the property: entities x joined by assertions y, from the seeds ss.
OneToOne(f) == \A i, j \in DOMAIN f : f[i] = f[j] => i = j
Links(a, e, f) == {EdgeFrom[a], EdgeTo[a]} = {e, f}
IsChain(x, y, n, as, es, ss) ==
    /\ IsRow(x, n + 1, es) /\ IsRow(y, n, as)
    /\ \A i \in 1..n : Links(y[i], x[i], x[i + 1])
    /\ OneToOne(x) /\ OneToOne(y) /\ x[1] \in ss
Absent(f, z) == \A i \in DOMAIN f : f[i] # z

(* A new element keeps a row without repeats. *)
LEMMA OneToOneGrows ==
  ASSUME NEW X, NEW n \in Nat, NEW f, IsRow(f, n, X), OneToOne(f), NEW z, Absent(f, z),
         NEW g, Grew(g, f, z, n, X)
  PROVE  OneToOne(g)
  <1> SUFFICES ASSUME NEW i \in 1..(n + 1), NEW j \in 1..(n + 1), g[i] = g[j] PROVE i = j
    BY DEF OneToOne, Grew, IsRow
  <1>1. DOMAIN f = 1..n
    BY DEF IsRow
  <1>2. CASE i \in 1..n /\ j \in 1..n
    <2>1. f[i] = f[j]
      BY <1>2 DEF Grew
    <2> QED BY <1>1, <1>2, <2>1 DEF OneToOne
  <1>3. CASE i \in 1..n /\ j = n + 1
    <2>1. f[i] = z
      BY <1>3 DEF Grew
    <2> QED BY <1>1, <1>3, <2>1 DEF Absent
  <1>4. CASE j \in 1..n /\ i = n + 1
    <2>1. f[j] = z
      BY <1>4 DEF Grew
    <2> QED BY <1>1, <1>4, <2>1 DEF Absent
  <1>5. CASE i = n + 1 /\ j = n + 1
    BY <1>5
  <1> QED BY <1>2, <1>3, <1>4, <1>5

\* A chain with a link more is a chain.
LEMMA Longer ==
  ASSUME NEW n \in Nat, NEW as, NEW es, NEW ss, NEW x, NEW y, IsChain(x, y, n, as, es, ss),
         NEW a, NEW f, Links(a, x[n + 1], f), Absent(x, f), Absent(y, a),
         NEW xx, Grew(xx, x, f, n + 1, es), NEW yy, Grew(yy, y, a, n, as)
  PROVE  IsChain(xx, yy, n + 1, as, es, ss)
  <1>1. n + 1 \in Nat /\ IsRow(x, n + 1, es) /\ IsRow(y, n, as) /\ OneToOne(x) /\ OneToOne(y)
    BY DEF IsChain
  <1>2. IsRow(xx, n + 1 + 1, es) /\ IsRow(yy, n + 1, as)
    BY DEF Grew
  <1>3. OneToOne(xx)
    BY Zenon, <1>1, OneToOneGrows
  <1>4. OneToOne(yy)
    BY Zenon, <1>1, OneToOneGrows
  <1>5. ASSUME NEW i \in 1..(n + 1) PROVE Links(yy[i], xx[i], xx[i + 1])
    <2>1. CASE i \in 1..n
      <3>1. Links(y[i], x[i], x[i + 1])
        BY <2>1 DEF IsChain
      <3>2. i \in 1..(n + 1) /\ i + 1 \in 1..(n + 1)
        BY <2>1
      <3>3. yy[i] = y[i]
        BY <2>1 DEF Grew
      <3>4. xx[i] = x[i] /\ xx[i + 1] = x[i + 1]
        BY <3>2 DEF Grew
      <3> QED BY <3>1, <3>3, <3>4
    <2>2. CASE i = n + 1
      <3>1. n + 1 \in 1..(n + 1)
        OBVIOUS
      <3>2. yy[n + 1] = a /\ xx[n + 1] = x[n + 1] /\ xx[n + 1 + 1] = f
        BY <3>1 DEF Grew
      <3> QED BY <2>2, <3>2
    <2> QED BY <2>1, <2>2
  <1>6. xx[1] \in ss
    <2>1. 1 \in 1..(n + 1)
      OBVIOUS
    <2>2. xx[1] = x[1]
      BY <2>1 DEF Grew
    <2> QED BY <2>2 DEF IsChain
  <1> QED BY <1>2, <1>3, <1>4, <1>5, <1>6 DEF IsChain

\* The first n elements of a row.
LEMMA FirstOnes ==
  ASSUME NEW X, NEW n \in Nat, NEW g, IsRow(g, n + 1, X)
  PROVE  \E f : IsRow(f, n, X) /\ Grew(g, f, g[n + 1], n, X)
  <1>1. PICK f : f = [i \in 1..n |-> g[i]]
    OBVIOUS
  <1>2. \A i \in 1..n : g[i] \in X
    <2>1. 1..n \subseteq 1..(n + 1)
      OBVIOUS
    <2> QED BY <2>1 DEF IsRow
  <1>3. IsRow(f, n, X)
    BY <1>1, <1>2 DEF IsRow
  <1>4. \A i \in 1..n : g[i] = f[i]
    BY <1>1
  <1> QED BY <1>3, <1>4 DEF Grew

(* A row without repeats has none before its last element either. *)
LEMMA OneToOneBefore ==
  ASSUME NEW X, NEW n \in Nat, NEW f, IsRow(f, n, X), NEW z, NEW g, Grew(g, f, z, n, X), OneToOne(g)
  PROVE  OneToOne(f) /\ Absent(f, z)
  <1>1. DOMAIN f = 1..n /\ DOMAIN g = 1..(n + 1) /\ 1..n \subseteq 1..(n + 1)
    BY DEF IsRow, Grew
  <1>2. ASSUME NEW i \in 1..n, NEW j \in 1..n, f[i] = f[j] PROVE i = j
    <2>1. g[i] = g[j]
      BY <1>2 DEF Grew
    <2> QED BY <1>1, <2>1 DEF OneToOne
  <1>3. ASSUME NEW i \in 1..n, f[i] = z PROVE FALSE
    <2>1. g[i] = g[n + 1]
      BY <1>3 DEF Grew
    <2>2. i = n + 1
      BY <1>1, <2>1 DEF OneToOne
    <2> QED BY <2>2
  <1> QED BY <1>1, <1>2, <1>3 DEF OneToOne, Absent

\* And a chain without its last link is one.
LEMMA Shorter ==
  ASSUME NEW n \in Nat, NEW as, NEW es, NEW ss, NEW xx, NEW yy, IsChain(xx, yy, n + 1, as, es, ss)
  PROVE  \E x, y : /\ IsChain(x, y, n, as, es, ss)
                   /\ Grew(xx, x, xx[n + 1 + 1], n + 1, es) /\ Grew(yy, y, yy[n + 1], n, as)
                   /\ Links(yy[n + 1], x[n + 1], xx[n + 1 + 1])
                   /\ Absent(x, xx[n + 1 + 1]) /\ Absent(y, yy[n + 1])
  <1>0. n + 1 \in Nat
    OBVIOUS
  <1>1. IsRow(xx, n + 1 + 1, es) /\ IsRow(yy, n + 1, as) /\ OneToOne(xx) /\ OneToOne(yy)
    BY Zenon DEF IsChain
  <1>2. PICK x : IsRow(x, n + 1, es) /\ Grew(xx, x, xx[n + 1 + 1], n + 1, es)
    BY Zenon, <1>0, <1>1, FirstOnes
  <1>3. PICK y : IsRow(y, n, as) /\ Grew(yy, y, yy[n + 1], n, as)
    BY Zenon, <1>0, <1>1, FirstOnes
  <1>4. OneToOne(x) /\ Absent(x, xx[n + 1 + 1])
    BY Zenon, <1>0, <1>1, <1>2, OneToOneBefore
  <1>5. OneToOne(y) /\ Absent(y, yy[n + 1])
    BY Zenon, <1>1, <1>3, OneToOneBefore
  <1>6. \A i \in 1..(n + 1) : xx[i] = x[i]
    BY <1>2 DEF Grew
  <1>7. \A i \in 1..n : yy[i] = y[i]
    BY <1>3 DEF Grew
  <1>8. ASSUME NEW i \in 1..n PROVE Links(y[i], x[i], x[i + 1])
    <2>1. i \in 1..(n + 1) /\ i + 1 \in 1..(n + 1)
      OBVIOUS
    <2>2. Links(yy[i], xx[i], xx[i + 1])
      BY <2>1 DEF IsChain
    <2> QED BY <1>6, <1>7, <2>1, <2>2
  <1>9. Links(yy[n + 1], x[n + 1], xx[n + 1 + 1])
    <2>1. n + 1 \in 1..(n + 1)
      OBVIOUS
    <2>2. Links(yy[n + 1], xx[n + 1], xx[n + 1 + 1])
      BY <2>1 DEF IsChain
    <2> QED BY <1>6, <2>1, <2>2
  <1>10. x[1] \in ss
    <2>1. 1 \in 1..(n + 1)
      OBVIOUS
    <2> QED BY <1>6, <2>1 DEF IsChain
  <1>11. IsChain(x, y, n, as, es, ss)
    BY <1>2, <1>3, <1>4, <1>5, <1>8, <1>10 DEF IsChain
  <1> QED BY <1>2, <1>3, <1>4, <1>5, <1>9, <1>11

\* A path of the walk as a chain: its two rows.
IsPath(p, n, as, sc) == /\ p = [ents |-> p.ents, facts |-> p.facts]
                        /\ IsChain(p.ents, p.facts, n, as, sc.entities, sc.seeds)
Added(p, a, f) == [ents |-> Append(p.ents, f), facts |-> Append(p.facts, a)]

(* A record of two fields. *)
LEMMA PairOfRows ==
  ASSUME NEW X, NEW Y, NEW p
  PROVE  p \in [ents: X, facts: Y] <=> /\ p = [ents |-> p.ents, facts |-> p.facts]
                                       /\ p.ents \in X /\ p.facts \in Y
  OBVIOUS

(* The chains of the property are the paths of the lemmas. *)
LEMMA PathIs ==
  ASSUME NEW n \in Nat, NEW as, NEW p
  PROVE  p \in Walk!Chains(n, as, kWalk.scope.entities) <=> IsPath(p, n, as, kWalk.scope)
  <1> DEFINE es == kWalk.scope.entities
             Good == /\ \A i \in 1..n : Walk!Joined(p.facts[i], p.ents[i], p.ents[i + 1])
                     /\ Walk!IsInjective(p.ents) /\ Walk!IsInjective(p.facts)
                     /\ p.ents[1] \in kWalk.scope.seeds
  <1>1. p \in [ents: [1..(n + 1) -> es], facts: [1..n -> as]] <=>
           /\ p = [ents |-> p.ents, facts |-> p.facts]
           /\ IsRow(p.ents, n + 1, es) /\ IsRow(p.facts, n, as)
    BY Zenon, PairOfRows DEF IsRow
  <1>2. p \in Walk!Chains(n, as, es) <=> p \in [ents: [1..(n + 1) -> es], facts: [1..n -> as]] /\ Good
    BY Zenon DEF Walk!Chains
  <1>3. \A g : Walk!IsInjective(g) <=> OneToOne(g)
    BY Zenon DEF Walk!IsInjective, OneToOne
  <1>4. \A a, e, f : Walk!Joined(a, e, f) <=> Links(a, e, f)
    BY Zenon DEF Walk!Joined, Links
  <1>5. Good <=> /\ \A i \in 1..n : Links(p.facts[i], p.ents[i], p.ents[i + 1])
                 /\ OneToOne(p.ents) /\ OneToOne(p.facts)
                 /\ p.ents[1] \in kWalk.scope.seeds
    BY Zenon, <1>3, <1>4
  <1> HIDE DEF Good
  <1> QED BY Zenon, <1>1, <1>2, <1>5 DEF IsPath, IsChain

\* Where a path ends, and what is not on it.
LEMMA PathEnds ==
  ASSUME NEW n \in Nat, NEW as, NEW sc, NEW p, IsPath(p, n, as, sc)
  PROVE  /\ Len(p.facts) = n
         /\ Walk!Last(p.ents) = p.ents[n + 1]
         /\ Walk!Last(p.ents) \in sc.entities
         /\ \A a, f : Walk!Grown(p, a, f) <=> Absent(p.ents, f) /\ Absent(p.facts, a)
  <1>0. n + 1 \in Nat /\ n + 1 \in 1..(n + 1)
    OBVIOUS
  <1>1. IsRow(p.ents, n + 1, sc.entities) /\ IsRow(p.facts, n, as)
    BY Zenon DEF IsPath, IsChain
  <1>2. Len(p.ents) = n + 1
    BY Zenon, <1>0, <1>1, RowIsSeq
  <1>3. Len(p.facts) = n
    BY Zenon, <1>1, RowIsSeq
  <1>4. Walk!Last(p.ents) = p.ents[n + 1]
    BY <1>2 DEF Walk!Last
  <1>5. p.ents[n + 1] \in sc.entities
    BY <1>0, <1>1 DEF IsRow
  <1>6. \A a, f : Walk!Grown(p, a, f) <=> Absent(p.ents, f) /\ Absent(p.facts, a)
    BY Zenon DEF Walk!Grown, Walk!Range, Absent
  <1> QED BY <1>3, <1>4, <1>5, <1>6

(* A path grows by a link that the walk may take (kuzu_provider.py:1330-1400). *)
LEMMA PathGrows ==
  ASSUME NEW n \in Nat, NEW as, NEW sc, NEW p, IsPath(p, n, as, sc), NEW a \in as, NEW f \in sc.entities,
         Links(a, Walk!Last(p.ents), f), Walk!Grown(p, a, f)
  PROVE  IsPath(Added(p, a, f), n + 1, as, sc) /\ Walk!Last(Added(p, a, f).ents) = f
  <1>0. n + 1 \in Nat
    OBVIOUS
  <1>1. PICK x, y : x = p.ents /\ y = p.facts
    OBVIOUS
  <1>2. PICK xx, yy : xx = Append(x, f) /\ yy = Append(y, a)
    OBVIOUS
  <1>3. IsChain(x, y, n, as, sc.entities, sc.seeds) /\ IsRow(x, n + 1, sc.entities) /\ IsRow(y, n, as)
    BY Zenon, <1>1 DEF IsPath, IsChain
  <1>4. Links(a, x[n + 1], f) /\ Absent(x, f) /\ Absent(y, a)
    BY Zenon, <1>1, PathEnds
  <1>5. Grew(xx, x, f, n + 1, sc.entities)
    BY Zenon, <1>0, <1>2, <1>3, OneMore
  <1>6. Grew(yy, y, a, n, as)
    BY Zenon, <1>2, <1>3, OneMore
  <1>7. IsChain(xx, yy, n + 1, as, sc.entities, sc.seeds)
    BY Zenon, <1>3, <1>4, <1>5, <1>6, Longer
  <1>8. PICK q : q = [ents |-> xx, facts |-> yy]
    OBVIOUS
  <1>9. q = Added(p, a, f)
    BY Zenon, <1>1, <1>2, <1>8 DEF Added
  <1>10. q.ents = xx /\ q.facts = yy
    BY <1>8
  <1>11. IsPath(q, n + 1, as, sc)
    BY <1>7, <1>8, <1>10 DEF IsPath
  <1>12. Walk!Last(q.ents) = xx[n + 1 + 1]
    BY <1>0, <1>10, <1>11, PathEnds
  <1>13. xx[n + 1 + 1] = f
    BY <1>5 DEF Grew
  <1> QED BY <1>9, <1>11, <1>12, <1>13

Splits(q, n, as, sc) == \E p, a, f :
    /\ IsPath(p, n, as, sc) /\ a \in as /\ f \in sc.entities
    /\ q = Added(p, a, f)
    /\ Links(a, Walk!Last(p.ents), f) /\ Walk!Grown(p, a, f) /\ f # Walk!Last(p.ents)
(* Every longer path is one that grew by such a link. *)
LEMMA PathShrinks ==
  ASSUME NEW n \in Nat, NEW as, NEW sc, NEW q, IsPath(q, n + 1, as, sc)
  PROVE  Splits(q, n, as, sc)
  <1>0. n + 1 \in Nat /\ n + 1 \in 1..(n + 1) /\ n + 1 + 1 \in 1..(n + 1 + 1)
    OBVIOUS
  <1>1. PICK xx, yy : xx = q.ents /\ yy = q.facts
    OBVIOUS
  <1>2. PICK a, f : a = yy[n + 1] /\ f = xx[n + 1 + 1]
    OBVIOUS
  <1>3. /\ IsChain(xx, yy, n + 1, as, sc.entities, sc.seeds)
        /\ IsRow(xx, n + 1 + 1, sc.entities) /\ IsRow(yy, n + 1, as)
    BY Zenon, <1>1 DEF IsPath, IsChain
  <1>4. a \in as /\ f \in sc.entities
    BY <1>0, <1>2, <1>3 DEF IsRow
  <1>5. PICK x, y : /\ IsChain(x, y, n, as, sc.entities, sc.seeds)
                    /\ Grew(xx, x, f, n + 1, sc.entities) /\ Grew(yy, y, a, n, as)
                    /\ Links(a, x[n + 1], f) /\ Absent(x, f) /\ Absent(y, a)
    BY Zenon, <1>2, <1>3, Shorter
  <1>6. IsRow(x, n + 1, sc.entities) /\ IsRow(y, n, as)
    BY Zenon, <1>5 DEF IsChain
  <1>7. Grew(Append(x, f), x, f, n + 1, sc.entities)
    BY Zenon, <1>0, <1>4, <1>6, OneMore
  <1>8. Grew(Append(y, a), y, a, n, as)
    BY Zenon, <1>4, <1>6, OneMore
  <1>9. xx = Append(x, f)
    BY Zenon, <1>0, <1>5, <1>7, GrewAlike
  <1>10. yy = Append(y, a)
    BY Zenon, <1>5, <1>8, GrewAlike
  <1>11. PICK p : p = [ents |-> x, facts |-> y]
    OBVIOUS
  <1>12. p.ents = x /\ p.facts = y
    BY <1>11
  <1>13. IsPath(p, n, as, sc)
    BY <1>5, <1>11, <1>12 DEF IsPath
  <1>14. q = Added(p, a, f)
    <2>1. q = [ents |-> xx, facts |-> yy]
      BY Zenon, <1>1 DEF IsPath
    <2> QED BY <1>9, <1>10, <1>12, <2>1 DEF Added
  <1>15. Walk!Last(p.ents) = x[n + 1] /\ Walk!Grown(p, a, f)
    BY Zenon, <1>5, <1>12, <1>13, PathEnds
  <1>16. f # x[n + 1]
    <2>1. n + 1 \in DOMAIN x
      BY <1>0, <1>6 DEF IsRow
    <2> QED BY <1>5, <2>1 DEF Absent
  <1> QED BY <1>4, <1>5, <1>13, <1>14, <1>15, <1>16 DEF Splits

\* The path that a seed begins.
SeedPath(e) == [ents |-> <<e>>, facts |-> << >>]
Seeded(p, sc) == \E e \in sc.seeds \cap sc.entities : p = SeedPath(e)
(* The paths without a link are the seeds in scope (kuzu_provider.py:1152-1175). *)
LEMMA PathStarts ==
  ASSUME NEW as, NEW sc, NEW p
  PROVE  IsPath(p, 0, as, sc) <=> Seeded(p, sc)
  <1>1. ASSUME NEW e \in sc.seeds \cap sc.entities, p = SeedPath(e) PROVE IsPath(p, 0, as, sc)
    <2>1. PICK x, y : x = <<e>> /\ y = << >>
      OBVIOUS
    <2>2. p = [ents |-> x, facts |-> y] /\ p.ents = x /\ p.facts = y
      BY <1>1, <2>1 DEF SeedPath
    <2>3. IsRow(x, 1, sc.entities) /\ OneToOne(x) /\ x[1] \in sc.seeds
      BY <2>1 DEF IsRow, OneToOne
    <2>4. IsRow(y, 0, as) /\ OneToOne(y)
      BY <2>1 DEF IsRow, OneToOne
    <2>5. IsRow(x, 0 + 1, sc.entities)
      BY <2>3
    <2>6. \A i \in 1..0 : Links(y[i], x[i], x[i + 1])
      OBVIOUS
    <2> QED BY <2>2, <2>3, <2>4, <2>5, <2>6 DEF IsPath, IsChain
  <1>2. ASSUME IsPath(p, 0, as, sc) PROVE \E e \in sc.seeds \cap sc.entities : p = SeedPath(e)
    <2>1. PICK x, y : x = p.ents /\ y = p.facts /\ p = [ents |-> x, facts |-> y]
      BY <1>2 DEF IsPath
    <2>2. IsRow(x, 0 + 1, sc.entities) /\ IsRow(y, 0, as) /\ x[1] \in sc.seeds
      BY Zenon, <1>2, <2>1 DEF IsPath, IsChain
    <2>3. x \in Seq(sc.entities) /\ Len(x) = 0 + 1
      <3>1. 0 + 1 \in Nat
        OBVIOUS
      <3> QED BY Zenon, <2>2, <3>1, RowIsSeq
    <2>4. y \in Seq(as) /\ Len(y) = 0
      <3>1. 0 \in Nat
        OBVIOUS
      <3> QED BY Zenon, <2>2, <3>1, RowIsSeq
    <2>5. x[1] \in sc.entities /\ x = <<x[1]>>
      BY <2>3
    <2>6. y = << >>
      BY <2>4
    <2> QED BY <2>1, <2>2, <2>5, <2>6 DEF SeedPath
  <1> QED BY Zenon, <1>1, <1>2 DEF Seeded

\* What a search may take: the assertions of its scope that are not too weak.
Facts(sc) == sc.facts \ Weak
\* The record of a walk.
WalkRow(w) == w \in [hop: {w.hop}, back: BOOLEAN, scope: {w.scope}, from: {w.from}, last: {w.last},
                     paths: {w.paths}, hits: {w.hits}, wide: BOOLEAN, steady: BOOLEAN]
\* A path in the making has as many links as hops are behind it; those that were
\* found have at most MaxHops.
Sound(w) ==
    /\ w.hop \in 0..(MaxHops + 2)
    /\ w.back => w.hop \in 1..MaxHops
    /\ w.hop \in 1..(MaxHops + 1) => \A p \in w.last : IsPath(p, w.hop - 1, Facts(w.scope), w.scope)
    /\ \A p \in w.paths : \E n \in 1..MaxHops : IsPath(p, n, Facts(w.scope), w.scope)
\* What a link forward adds to a path, which the first query of a hop finds.
Onward(w, as) == \A p \in w.last, a \in as, f \in w.scope.entities :
    /\ Walk!Last(p.ents) \in w.from /\ Walk!Last(p.ents) # f
    /\ EdgeFrom[a] = Walk!Last(p.ents) /\ EdgeTo[a] = f /\ Walk!Grown(p, a, f)
    => Added(p, a, f) \in w.paths
\* A walk over a graph that stays, with nothing cut, has every chain as long as the
\* hops behind it.
Complete(w, as) ==
    /\ w.hop \in 1..(MaxHops + 1) =>
          \A p : IsPath(p, w.hop - 1, as, w.scope) => p \in w.last /\ Walk!Last(p.ents) \in w.from
    /\ \A n \in 1..MaxHops : n < w.hop => \A p : IsPath(p, n, as, w.scope) => p \in w.paths
    /\ w.back => Onward(w, as)
WalkOK(w, g) == /\ WalkRow(w) /\ Sound(w)
                /\ w.steady /\ w.wide /\ w.hop > 0 => Complete(w, g \cap Facts(w.scope))
WalkInv == WalkOK(kWalk, kGraph)

(* Between two searches there is nothing to keep (kuzu_provider.py:1126-1140). *)
LEMMA NoWalkOK == ASSUME NEW g PROVE WalkOK(Walk!NoWalk, g)
  BY ComponentsAssumption DEF WalkOK, WalkRow, Sound, Walk!NoWalk

\* One row of a query: a leads from e to f.
Leads(a, e, f) == e # f /\ Walk!Source(a) = e /\ Walk!Target(a) = f
\* A row a of a query leads on from the end of path p.
Follows(p, a) == /\ Walk!Source(a) = Walk!Last(p.ents) /\ Walk!Source(a) \in kWalk.from
                 /\ Walk!Target(a) \in kWalk.scope.entities /\ Walk!Grown(p, a, Walk!Target(a))
(* What one row of a query adds to a path (kuzu_provider.py:1330-1400). *)
LEMMA ExtendedHas ==
  ASSUME NEW rows, NEW p, NEW a, a \in rows, a \in Facts(kWalk.scope), Follows(p, a)
  PROVE  Added(p, a, Walk!Target(a)) \in Walk!Extended(p, rows)
  <1>1. a \in rows \cap Walk!Usable
    BY Zenon DEF Walk!Usable, Facts
  <1> QED BY Zenon, <1>1 DEF Walk!Extended, Added, Follows
Adds(rows, p, q) == \E a \in rows : /\ a \in Facts(kWalk.scope) /\ Follows(p, a)
                                     /\ q = Added(p, a, Walk!Target(a))
(* Nothing else is added (kuzu_provider.py:1330-1400). *)
LEMMA ExtendedOnly ==
  ASSUME NEW rows, NEW p, NEW q \in Walk!Extended(p, rows)
  PROVE  Adds(rows, p, q)
  <1>1. PICK a \in rows \cap Walk!Usable : Follows(p, a) /\ q = Added(p, a, Walk!Target(a))
    BY Zenon DEF Walk!Extended, Added, Follows
  <1>2. a \in rows /\ a \in Facts(kWalk.scope)
    BY Zenon, <1>1 DEF Walk!Usable, Facts
  <1> QED BY Zenon, <1>1, <1>2 DEF Adds

(* The rows of a query (kuzu_provider.py:1598-1642). *)
LEMMA RowLeads ==
  ASSUME NEW rows, rows \in Walk!Cut(Walk!Rows, Walk!RowLimit), NEW a \in rows
  PROVE  a \in kGraph /\ Leads(a, Walk!Source(a), Walk!Target(a))
  BY DEF Walk!Cut, Walk!Rows, Leads

(* A link is found from either end, each by one of the two queries of a hop
   (kuzu_provider.py:1598-1642). *)
LEMMA LeadsLinks ==
  ASSUME NEW a, NEW e, NEW f
  PROVE  /\ Leads(a, e, f) => Links(a, e, f)
         /\ e # f /\ Links(a, e, f) => \/ EdgeFrom[a] = e /\ EdgeTo[a] = f
                                       \/ EdgeTo[a] = e /\ EdgeFrom[a] = f
  BY DEF Leads, Walk!Source, Walk!Target, Links

\* What a query finds are chains with one more link.
LEMMA FoundPaths ==
  ASSUME WalkInv, kWalk.hop \in 1..MaxHops, NEW rows \in Walk!Cut(Walk!Rows, Walk!RowLimit),
         NEW q \in Walk!Found(rows)
  PROVE  q \in kWalk.paths \/ IsPath(q, kWalk.hop, Facts(kWalk.scope), kWalk.scope)
  <1>1. PICK n : n = kWalk.hop - 1 /\ n \in Nat /\ n + 1 = kWalk.hop
    BY ComponentsAssumption
  <1>2. \A p \in kWalk.last : IsPath(p, n, Facts(kWalk.scope), kWalk.scope)
    BY <1>1, ComponentsAssumption DEF WalkInv, WalkOK, Sound
  <1>3. ASSUME NEW p \in kWalk.last, q \in Walk!Extended(p, rows)
        PROVE  IsPath(q, n + 1, Facts(kWalk.scope), kWalk.scope)
    <2>0. Adds(rows, p, q)
      BY <1>3, ExtendedOnly
    <2>1. PICK a \in rows : /\ a \in Facts(kWalk.scope) /\ Follows(p, a)
                           /\ q = Added(p, a, Walk!Target(a))
      BY Zenon, <2>0 DEF Adds
    <2>2. PICK f : f = Walk!Target(a)
      OBVIOUS
    <2>3. f \in kWalk.scope.entities /\ Walk!Grown(p, a, f) /\ Walk!Source(a) = Walk!Last(p.ents)
      BY Zenon, <2>1, <2>2 DEF Follows
    <2>4. Leads(a, Walk!Source(a), f)
      BY Zenon, <2>1, <2>2, RowLeads
    <2>5. Links(a, Walk!Last(p.ents), f)
      <3>1. Leads(a, Walk!Last(p.ents), f)
        BY Zenon, <2>3, <2>4
      <3> QED BY Zenon, <3>1, LeadsLinks
    <2> QED BY Zenon, <1>1, <1>2, <2>1, <2>2, <2>3, <2>5, PathGrows
  <1>4. q \in kWalk.paths \/ \E p \in kWalk.last : q \in Walk!Extended(p, rows)
    BY Zenon DEF Walk!Found
  <1> QED BY Zenon, <1>1, <1>3, <1>4

\* Every chain with one more link is found, half of them by the first query.
LEMMA ChainsFound ==
  ASSUME WalkInv, kWalk.hop \in 1..MaxHops, kWalk.back, Complete(kWalk, kGraph \cap Facts(kWalk.scope)),
         NEW q, IsPath(q, kWalk.hop, kGraph \cap Facts(kWalk.scope), kWalk.scope)
  PROVE  q \in Walk!Found(Walk!Rows)
  <1>1. PICK n : n = kWalk.hop - 1 /\ n \in Nat /\ n + 1 = kWalk.hop
    BY ComponentsAssumption
  <1>2. PICK as : as = kGraph \cap Facts(kWalk.scope)
    OBVIOUS
  <1>3. IsPath(q, n + 1, as, kWalk.scope)
    BY <1>1, <1>2
  <1>4. PICK p, a, f : /\ IsPath(p, n, as, kWalk.scope) /\ a \in as /\ f \in kWalk.scope.entities
                       /\ q = Added(p, a, f)
                       /\ Links(a, Walk!Last(p.ents), f) /\ Walk!Grown(p, a, f) /\ f # Walk!Last(p.ents)
    <2>1. Splits(q, n, as, kWalk.scope)
      BY Zenon, <1>1, <1>3, PathShrinks
    <2> QED BY Zenon, <2>1 DEF Splits
  <1>5. p \in kWalk.last /\ Walk!Last(p.ents) \in kWalk.from
    BY <1>1, <1>2, <1>4, ComponentsAssumption DEF Complete
  <1>6. CASE EdgeFrom[a] = Walk!Last(p.ents) /\ EdgeTo[a] = f
    <2>1. q \in kWalk.paths
      BY <1>2, <1>4, <1>5, <1>6 DEF Complete, Onward
    <2> QED BY Zenon, <2>1 DEF Walk!Found
  <1>7. CASE EdgeTo[a] = Walk!Last(p.ents) /\ EdgeFrom[a] = f
    <2>1. Walk!Source(a) = Walk!Last(p.ents) /\ Walk!Target(a) = f
      BY <1>7 DEF Walk!Source, Walk!Target
    <2>2. a \in Walk!Rows /\ a \in Facts(kWalk.scope)
      BY <1>2, <1>4, <1>5, <2>1 DEF Walk!Rows
    <2>3. q \in Walk!Extended(p, Walk!Rows)
      <3>1. Follows(p, a)
        BY Zenon, <1>4, <1>5, <2>1 DEF Follows
      <3> QED BY Zenon, <1>4, <2>1, <2>2, <3>1, ExtendedHas
    <2> QED BY Zenon, <1>5, <2>3 DEF Walk!Found
  <1> QED BY <1>4, <1>6, <1>7, LeadsLinks

\* What both queries of a hop find are chains of its length or shorter ones.
LEMMA FoundSound ==
  ASSUME WalkInv, kWalk.hop \in 1..MaxHops, NEW rows \in Walk!Cut(Walk!Rows, Walk!RowLimit),
         NEW q \in Walk!Found(rows)
  PROVE  \E n \in 1..MaxHops : IsPath(q, n, Facts(kWalk.scope), kWalk.scope)
  BY FoundPaths DEF WalkInv, WalkOK, Sound

(* The first query of a hop (kuzu_provider.py:1216-1292). *)
LEMMA ForwardStep == ASSUME WalkInv, Walk!Forward PROVE WalkInv'
  <1>1. kWalk.hop \in 1..MaxHops /\ ~kWalk.back /\ kGraph' = kGraph
    BY DEF Walk!Forward
  <1>0. PICK rows \in Walk!Cut(Walk!Rows, Walk!RowLimit) :
           kWalk' = [kWalk EXCEPT !.paths = Walk!Found(rows), !.back = TRUE,
                                    !.wide = kWalk.wide /\ rows = Walk!Rows]
    BY DEF Walk!Forward
  <1>2. PICK w : w = kWalk'
    OBVIOUS
  <1>3. /\ WalkRow(w) /\ w.hop = kWalk.hop /\ w.scope = kWalk.scope /\ w.last = kWalk.last
        /\ w.from = kWalk.from /\ w.paths = Walk!Found(rows) /\ w.back
        /\ w.wide = (kWalk.wide /\ rows = Walk!Rows) /\ w.steady = kWalk.steady
    BY <1>0, <1>2 DEF WalkInv, WalkOK, WalkRow
  <1>4. Sound(w)
    <2>1. \A p \in w.paths : \E n \in 1..MaxHops : IsPath(p, n, Facts(w.scope), w.scope)
      BY <1>1, <1>3, FoundSound
    <2> QED BY <1>1, <1>3, <2>1 DEF WalkInv, WalkOK, Sound
  <1>5. ASSUME w.steady, w.wide, w.hop > 0 PROVE Complete(w, kGraph \cap Facts(w.scope))
    <2>1. PICK as : as = kGraph \cap Facts(kWalk.scope)
      OBVIOUS
    <2>2. Complete(kWalk, as) /\ rows = Walk!Rows
      <3>1. kWalk.steady /\ kWalk.wide /\ rows = Walk!Rows
        BY Zenon, <1>3, <1>5
      <3> QED BY <1>3, <1>5, <2>1, <3>1 DEF WalkInv, WalkOK
    <2>3. ASSUME NEW p \in w.last, NEW a \in as, NEW f \in w.scope.entities,
                 Walk!Last(p.ents) \in w.from, Walk!Last(p.ents) # f,
                 EdgeFrom[a] = Walk!Last(p.ents), EdgeTo[a] = f, Walk!Grown(p, a, f)
          PROVE  Added(p, a, f) \in w.paths
      <3>1. Walk!Source(a) = Walk!Last(p.ents) /\ Walk!Target(a) = f
        BY <1>1, <2>3 DEF Walk!Source, Walk!Target
      <3>2. a \in rows /\ a \in Facts(kWalk.scope)
        BY <1>3, <2>1, <2>2, <2>3, <3>1 DEF Walk!Rows
      <3>3. Added(p, a, f) \in Walk!Extended(p, rows)
        <4>1. Follows(p, a)
          BY Zenon, <1>3, <2>3, <3>1 DEF Follows
        <4> QED BY Zenon, <3>1, <3>2, <4>1, ExtendedHas
      <3> QED BY Zenon, <1>3, <2>3, <3>3 DEF Walk!Found
    <2>4. kWalk.paths \subseteq w.paths
      BY <1>3 DEF Walk!Found
    <2>5. Onward(w, as)
      BY <2>3 DEF Onward
    <2> QED BY <1>3, <2>1, <2>2, <2>4, <2>5 DEF Complete
  <1>6. WalkOK(w, kGraph)
    BY <1>3, <1>4, <1>5 DEF WalkOK
  <1> QED BY <1>1, <1>2, <1>6 DEF WalkInv

(* The second query of a hop, and the next frontier (kuzu_provider.py:1292-1316,
   1401-1503). *)
LEMMA BackwardStep == ASSUME WalkInv, Walk!Backward PROVE WalkInv'
  <1>1. kWalk.hop \in 1..MaxHops /\ kWalk.back /\ kGraph' = kGraph
    BY DEF Walk!Backward
  <1>0. PICK rows \in Walk!Cut(Walk!Rows, Walk!RowLimit) :
           LET new == {p \in Walk!Found(rows) : Len(p.facts) = kWalk.hop}
               ends == {Walk!Last(p.ents) : p \in new}
           IN  \E front \in Walk!Cut(ends, MaxFrontier) :
                  kWalk' = [kWalk EXCEPT !.paths = Walk!Found(rows), !.back = FALSE,
                              !.hop = kWalk.hop + 1, !.last = new, !.from = front,
                              !.wide = kWalk.wide /\ rows = Walk!Rows /\ front = ends]
    BY Zenon DEF Walk!Backward
  <1>2. PICK new : new = {p \in Walk!Found(rows) : Len(p.facts) = kWalk.hop}
    OBVIOUS
  <1>3. PICK ends : ends = {Walk!Last(p.ents) : p \in new}
    OBVIOUS
  <1>4. PICK front :
           kWalk' = [kWalk EXCEPT !.paths = Walk!Found(rows), !.back = FALSE,
                       !.hop = kWalk.hop + 1, !.last = new, !.from = front,
                       !.wide = kWalk.wide /\ rows = Walk!Rows /\ front = ends]
    BY <1>0, <1>2, <1>3
  <1>5. PICK w : w = kWalk'
    OBVIOUS
  <1>6. /\ WalkRow(w) /\ w.hop = kWalk.hop + 1 /\ w.scope = kWalk.scope /\ w.last = new
        /\ w.from = front /\ w.paths = Walk!Found(rows) /\ ~w.back
        /\ w.wide = (kWalk.wide /\ rows = Walk!Rows /\ front = ends) /\ w.steady = kWalk.steady
    BY <1>4, <1>5 DEF WalkInv, WalkOK, WalkRow
  <1>7. PICK h : h = kWalk.hop /\ h \in Nat /\ w.hop - 1 = h /\ w.hop \in 1..(MaxHops + 1)
    BY <1>1, <1>6, ComponentsAssumption
  <1>8. ASSUME NEW p \in new PROVE IsPath(p, h, Facts(w.scope), w.scope)
    <2>1. p \in Walk!Found(rows) /\ Len(p.facts) = h
      BY <1>2, <1>7
    <2>2. CASE p \in kWalk.paths
      <3>1. PICK n \in 1..MaxHops : IsPath(p, n, Facts(kWalk.scope), kWalk.scope)
        BY <2>2 DEF WalkInv, WalkOK, Sound
      <3>2. n \in Nat
        BY ComponentsAssumption
      <3>3. n = h
        BY <2>1, <3>1, <3>2, PathEnds
      <3> QED BY <1>6, <3>1, <3>3
    <2> QED BY <1>1, <1>6, <1>7, <2>1, <2>2, FoundPaths
  <1>9. Sound(w)
    <2>1. \A p \in w.paths : \E n \in 1..MaxHops : IsPath(p, n, Facts(w.scope), w.scope)
      BY <1>1, <1>6, FoundSound
    <2>2. \A p \in w.last : IsPath(p, w.hop - 1, Facts(w.scope), w.scope)
      BY <1>6, <1>7, <1>8
    <2>3. w.hop \in 0..(MaxHops + 2)
      BY <1>7, ComponentsAssumption
    <2> QED BY <1>6, <2>1, <2>2, <2>3 DEF Sound
  <1>10. ASSUME w.steady, w.wide, w.hop > 0 PROVE Complete(w, kGraph \cap Facts(w.scope))
    <2>1. PICK as : as = kGraph \cap Facts(kWalk.scope)
      OBVIOUS
    <2>2. Complete(kWalk, as) /\ front = ends /\ rows = Walk!Rows
      <3>1. kWalk.steady /\ kWalk.wide /\ front = ends /\ rows = Walk!Rows
        BY Zenon, <1>6, <1>10
      <3>2. kWalk.hop > 0
        BY <1>1, ComponentsAssumption
      <3> QED BY <2>1, <3>1, <3>2 DEF WalkInv, WalkOK
    <2>3. ASSUME NEW p, IsPath(p, h, as, w.scope) PROVE p \in Walk!Found(rows) /\ p \in new
      <3>1. p \in Walk!Found(rows)
        <4>1. IsPath(p, kWalk.hop, kGraph \cap Facts(kWalk.scope), kWalk.scope)
          BY Zenon, <1>6, <1>7, <2>1, <2>3
        <4>2. Complete(kWalk, kGraph \cap Facts(kWalk.scope))
          BY Zenon, <2>1, <2>2
        <4>3. p \in Walk!Found(Walk!Rows)
          BY Zenon, <1>1, <4>1, <4>2, ChainsFound
        <4> QED BY Zenon, <2>2, <4>3
      <3>2. Len(p.facts) = h
        BY ZenonT(60), <1>7, <2>3, PathEnds
      <3> QED BY <1>2, <1>7, <3>1, <3>2
    <2>4. ASSUME NEW p, IsPath(p, w.hop - 1, as, w.scope) PROVE p \in w.last /\ Walk!Last(p.ents) \in w.from
      <3>1. p \in new
        BY <1>7, <2>3, <2>4
      <3> QED BY <1>3, <1>6, <2>2, <3>1
    <2>5. ASSUME NEW n \in 1..MaxHops, n < w.hop, NEW p, IsPath(p, n, as, w.scope) PROVE p \in w.paths
      <3>1. CASE n = h
        BY <1>6, <2>3, <2>5, <3>1
      <3>2. CASE n # h
        <4>1. n < kWalk.hop
          BY <1>6, <1>7, <2>5, <3>2, ComponentsAssumption
        <4>2. p \in kWalk.paths
          BY <1>6, <2>2, <2>5, <4>1 DEF Complete
        <4> QED BY <1>6, <4>2 DEF Walk!Found
      <3> QED BY <3>1, <3>2
    <2> QED BY <1>6, <2>1, <2>4, <2>5 DEF Complete
  <1>11. WalkOK(w, kGraph)
    BY <1>6, <1>9, <1>10 DEF WalkOK
  <1> QED BY <1>1, <1>5, <1>11 DEF WalkInv

(* A search starts from its seeds in scope (kuzu_provider.py:1152-1205). *)
LEMMA StartStep == ASSUME WalkInv, NEW scope \in WalkScope, Walk!Start(scope) PROVE WalkInv'
  <1>1. PICK w : w = kWalk'
    OBVIOUS
  <1>0. PICK asked \in Walk!Cut(scope.seeds, MaxSeeds) :
           LET seeds == asked \cap scope.entities
           IN  kWalk' = [Walk!NoWalk EXCEPT !.hop = 1, !.scope = scope, !.from = seeds,
                           !.steady = TRUE, !.wide = (asked = scope.seeds),
                           !.last = {[ents |-> <<e>>, facts |-> << >>] : e \in seeds}]
    BY Zenon DEF Walk!Start
  <1>2. PICK seeds : seeds = asked \cap scope.entities
    OBVIOUS
  <1>3. /\ WalkRow(w) /\ w.hop = 1 /\ ~w.back /\ w.scope = scope /\ w.from = seeds /\ w.paths = {}
        /\ w.last = {SeedPath(e) : e \in seeds} /\ w.wide = (asked = scope.seeds)
    BY <1>0, <1>1, <1>2 DEF Walk!NoWalk, WalkRow, SeedPath
  <1>4. asked = scope.seeds =>
           \A p, as : IsPath(p, 0, as, scope) => p \in w.last /\ Walk!Last(p.ents) \in w.from
    <2>1. ASSUME NEW e \in seeds PROVE Walk!Last(SeedPath(e).ents) = e
      BY DEF SeedPath, Walk!Last
    <2>2. ASSUME asked = scope.seeds, NEW p, NEW as, IsPath(p, 0, as, scope) PROVE p \in w.last /\ Walk!Last(p.ents) \in w.from
      <3>1. Seeded(p, scope)
        BY Zenon, <2>2, PathStarts
      <3>2. PICK e \in seeds : p = SeedPath(e)
        BY <1>2, <2>2, <3>1 DEF Seeded
      <3> QED BY <1>3, <2>1, <3>2
    <2> QED BY <2>2
  <1>5. \A p \in w.last : IsPath(p, 0, Facts(scope), scope)
    <2>1. asked \subseteq scope.seeds
      BY DEF Walk!Cut
    <2> QED BY <1>2, <1>3, <2>1, PathStarts DEF Seeded
  <1>6. w.hop - 1 = 0 /\ w.hop \in 0..(MaxHops + 2) /\ \A n \in 1..MaxHops : ~(n < w.hop)
    BY <1>3, ComponentsAssumption
  <1>7. Sound(w)
    BY <1>3, <1>5, <1>6 DEF Sound
  <1>8. w.wide => Complete(w, kGraph \cap Facts(w.scope))
    BY <1>3, <1>4, <1>6 DEF Complete
  <1>9. WalkOK(w, kGraph)
    BY <1>3, <1>7, <1>8 DEF WalkOK
  <1> QED BY <1>1, <1>9 DEF WalkInv, Walk!Start

(* A search returns what it keeps of its paths (kuzu_provider.py:1532-1596). *)
LEMMA ReturnStep == ASSUME WalkInv, Walk!Return PROVE WalkInv'
  <1>1. kWalk.hop = MaxHops + 1 /\ kGraph' = kGraph
    BY DEF Walk!Return
  <1>2. PICK hits : kWalk' = [kWalk EXCEPT !.hop = kWalk.hop + 1, !.hits = hits]
    BY DEF Walk!Return
  <1>3. PICK w : w = kWalk'
    OBVIOUS
  <1>4. /\ WalkRow(w) /\ w.back = kWalk.back /\ w.scope = kWalk.scope
        /\ w.paths = kWalk.paths /\ w.wide = kWalk.wide /\ w.steady = kWalk.steady
        /\ w.hop = kWalk.hop + 1
    BY <1>2, <1>3 DEF WalkInv, WalkOK, WalkRow
  <1>5. /\ ~kWalk.back /\ w.hop \notin 1..(MaxHops + 1) /\ w.hop \in 0..(MaxHops + 2) /\ w.hop > 0
        /\ kWalk.hop > 0 /\ \A n \in 1..MaxHops : n < kWalk.hop
    BY <1>1, <1>4, ComponentsAssumption DEF WalkInv, WalkOK, Sound
  <1>6. Sound(w)
    BY <1>4, <1>5 DEF WalkInv, WalkOK, Sound
  <1>7. ASSUME w.steady, w.wide PROVE Complete(w, kGraph \cap Facts(w.scope))
    BY <1>4, <1>5, <1>7 DEF WalkInv, WalkOK, Complete
  <1>8. WalkOK(w, kGraph)
    BY <1>4, <1>6, <1>7 DEF WalkOK
  <1> QED BY <1>1, <1>3, <1>8 DEF WalkInv

(* The worker adds or removes an assertion between two queries. *)
LEMMA ChangeStep == ASSUME WalkInv, NEW a, Walk!Change(a) PROVE WalkInv'
  <1>1. PICK w : w = kWalk'
    OBVIOUS
  <1>2. /\ WalkRow(w) /\ w.hop = kWalk.hop /\ w.back = kWalk.back /\ w.scope = kWalk.scope
        /\ w.last = kWalk.last /\ w.paths = kWalk.paths /\ ~w.steady
    BY <1>1 DEF Walk!Change, WalkInv, WalkOK, WalkRow
  <1>3. Sound(w)
    BY <1>2 DEF WalkInv, WalkOK, Sound
  <1> QED BY <1>1, <1>2, <1>3 DEF WalkInv, WalkOK

(* Every step of a walk keeps the invariant (GraphWalk, Next). *)
LEMMA WalkStep == ASSUME WalkInv, [Walk!Next]_(Walk!vars) PROVE WalkInv'
  <1>1. CASE Walk!Finish
    <2>1. kWalk' = Walk!NoWalk
      BY <1>1 DEF Walk!Finish
    <2> QED BY <2>1, NoWalkOK DEF WalkInv
  <1>2. CASE UNCHANGED Walk!vars
    BY <1>2 DEF Walk!vars, WalkInv
  <1> QED BY <1>1, <1>2, ForwardStep, BackwardStep, StartStep, ReturnStep, ChangeStep DEF Walk!Next

(* However the worker and the walk interleave, the paths of a search are chains of its own
   assertions from a seed, none of them weak, without repeats and of at most MaxHops links;
   and unless the graph changed meanwhile or the seeds, the rows of a query or a frontier
   were cut, they are all of these chains
   (kuzu_provider.py:1126-1642). *)
THEOREM WalkFindsChains == Spec => []PathsAreChains
  <1>1. Init => WalkInv
    BY NoWalkOK DEF Init, Walk!Init, WalkInv
  <1>2. WalkInv /\ [Next]_vars => WalkInv'
    BY Parted, WalkStep
  <1>3. WalkInv => PathsAreChains
    <2> SUFFICES ASSUME WalkInv, kWalk.hop > MaxHops
                 PROVE  /\ \A p \in kWalk.paths : \E n \in 1..MaxHops :
                              p \in Walk!Chains(n, Facts(kWalk.scope), kWalk.scope.entities)
                        /\ kWalk.steady /\ kWalk.wide =>
                              \A n \in 1..MaxHops :
                                 \A p \in Walk!Chains(n, kGraph \cap Facts(kWalk.scope), kWalk.scope.entities) : p \in kWalk.paths
      BY DEF PathsAreChains, Walk!PathsAreChains, Walk!Usable, Facts
    <2>1. \A n \in 1..MaxHops : n \in Nat /\ n < kWalk.hop /\ kWalk.hop > 0
      BY ComponentsAssumption DEF WalkInv, WalkOK, Sound
    <2>2. \A p \in kWalk.paths : \E n \in 1..MaxHops : p \in Walk!Chains(n, Facts(kWalk.scope), kWalk.scope.entities)
      BY <2>1, PathIs DEF WalkInv, WalkOK, Sound
    <2>3. ASSUME kWalk.steady, kWalk.wide, NEW n \in 1..MaxHops,
                 NEW p \in Walk!Chains(n, kGraph \cap Facts(kWalk.scope), kWalk.scope.entities)
          PROVE  p \in kWalk.paths
      <3>1. IsPath(p, n, kGraph \cap Facts(kWalk.scope), kWalk.scope)
        BY Zenon, <2>1, PathIs
      <3>2. Complete(kWalk, kGraph \cap Facts(kWalk.scope))
        BY <2>1, <2>3 DEF WalkInv, WalkOK
      <3> QED BY <2>1, <3>1, <3>2 DEF Complete
    <2> QED BY <2>2, <2>3
  <1> QED BY <1>1, <1>2, <1>3, PTL DEF Spec

-----------------------------------------------------------------------------
(* The gateway (Gateway). *)

(* A row of mcp_operations: its status, the hash of its payload and the approval it
   waits for (operations.py:591-598). *)
Applied == [st: Gateway!Status, hash: Payload \cup {"none"}, app: Nat]
(* A row of mcp_approval_requests (approval_repo.py:15-50). *)
Asked == [o: Op, st: {"PENDING", "APPROVED", "REJECTED"}, hash: Payload \cup {"none"}]
(* What V4 has of an operation (v4_service.py:164-261). *)
Mutation == [stored: BOOLEAN, payload: Payload \cup {"none"},
             st: {"none", "ACCEPTED", "COMMITTED", "REJECTED", "DEAD_LETTER", "ROLLED_BACK", "PURGED"}]
(* The rows are well typed. *)
GateShape == /\ mOp \in [Op -> Applied] /\ mApproval \in Seq(Asked)
             /\ mV4 \in [Op -> Mutation] /\ DOMAIN mAt = Gateway!Actor
\* The request of an operation has been recorded; its payload is then fixed.
Created(o) == o \in Op /\ mOp[o].st # "none"
\* The i-th approval was asked for the operation with the payload it has.
Backs(i, o) == /\ i \in DOMAIN mApproval
               /\ mApproval[i].o = o /\ mApproval[i].hash = mOp[o].hash
(* The policy let the operation through, or an operator approved its payload
   (operations.py:354-385, approval.py:21-132). *)
Authorised(o) == \/ o \in mAllowed
                 \/ \E i \in DOMAIN mApproval : Backs(i, o) /\ mApproval[i].st = "APPROVED"
\* What an actor knows where it is: whoever is about to write may, and whoever is
\* about to record COMMITTED has the word of V4.
Placed(s) ==
    /\ s.step \in {"policy", "run", "deny", "ask", "asked", "poll", "status", "write", "again",
                   "sync", "look", "decide", "claim", "scope"} => Created(s.o)
    /\ s.step \in {"run", "claim", "scope"} => Authorised(s.o)
    /\ s.step = "asked" => Backs(s.app, s.o)
    /\ s.step = "look" => Backs(s.seen.app, s.o)
    /\ s.step = "write" => s.st \in {"SUBMITTED", "COMMITTED", "FAILED"}
    /\ s.step = "sync" => s.st \in {"COMMITTED", "REJECTED", "FAILED", "PROCESSING"}
    /\ s.step \in {"write", "sync"} /\ s.st = "COMMITTED" => mV4[s.o].stored
    /\ s.step = "decide" => /\ s.st \in {"APPROVED", "REJECTED"}
                            /\ s.st = "APPROVED" => Authorised(s.o)
    /\ s.step = "flight" => /\ s.call.step \in {"run", "status"} => Created(s.call.o)
                            /\ s.call.step = "run" => Authorised(s.call.o)
\* The rows of the operations and of V4's mutations.
RowsOK == \A o \in Op :
    /\ mOp[o].st = "none" => mOp[o].hash = "none"
    /\ mOp[o].st \in {"PENDING_APPROVAL", "APPROVED"} => Backs(mOp[o].app, o)
    /\ mOp[o].st = "COMMITTED" => mV4[o].stored
MutationsOK == \A o \in Op :
    /\ mV4[o].st # "none" => /\ Created(o) /\ Authorised(o)
                             /\ mV4[o].payload = mOp[o].hash
    /\ mV4[o].st = "none" => mV4[o] = Gateway!NoMutation
    /\ mV4[o].st = "COMMITTED" \/ (mV4[o].st # "none" /\ o \in Forgetting) => mV4[o].stored
(* The inductive invariant of the gateway. *)
GateInv == /\ GateShape /\ RowsOK /\ MutationsOK
           /\ \A a \in Gateway!Actor : Placed(mAt[a])

\* What no step takes back: the payload of an operation, the approvals, what the
\* policy let through and what V4 stored.
Grows == /\ \A o \in Op : Created(o) => Created(o)' /\ mOp'[o].hash = mOp[o].hash
         /\ \A i \in DOMAIN mApproval : /\ i \in DOMAIN mApproval'
                                        /\ mApproval'[i].o = mApproval[i].o
                                        /\ mApproval'[i].hash = mApproval[i].hash
                                        /\ mApproval[i].st = "APPROVED" => mApproval'[i].st = "APPROVED"
         /\ mAllowed \subseteq mAllowed'
         /\ \A o \in Op : mV4[o].stored => mV4'[o].stored

(* Whoever may write may still write after such a step, and an approval still backs its
   operation: no status but PENDING is ever decided (approval_repo.py:62-83). *)
LEMMA AuthorisedStays ==
  ASSUME Grows, NEW o, Created(o)
  PROVE  /\ Created(o)'
         /\ Authorised(o) => Authorised(o)'
         /\ \A i : Backs(i, o) => Backs(i, o)'
  BY DEF Grows, Created, Authorised, Backs

(* What an actor knows stays true while others move: the awaits between two
   transactions of one call (operations.py:327-385, 605-681). *)
LEMMA PlacedStays ==
  ASSUME Grows, NEW s, Placed(s) PROVE Placed(s)'
  BY AuthorisedStays DEF Placed, Grows, Created

(* No operation has been asked for at first (operations.py:97-113). *)
LEMMA GateInit == Gateway!Init => GateInv
  <1> SUFFICES ASSUME Gateway!Init PROVE GateInv
    OBVIOUS
  <1>1. GateShape
    BY DEF Gateway!Init, GateShape, Applied, Mutation, Asked, Gateway!NoRow, Gateway!NoMutation,
         Gateway!Status, Gateway!Open
  <1>2. RowsOK
    BY DEF Gateway!Init, RowsOK, Gateway!NoRow
  <1>3. MutationsOK
    BY DEF Gateway!Init, MutationsOK, Gateway!NoMutation
  <1>4. \A a \in Gateway!Actor : Placed(mAt[a])
    BY DEF Gateway!Init, Placed, Gateway!Idle
  <1> QED BY <1>1, <1>2, <1>3, <1>4 DEF GateInv

\* A step that takes nothing back leaves the others where they may be.
LEMMA Arrives ==
  ASSUME GateInv, Grows, NEW a \in Gateway!Actor, NEW s, mAt' = [mAt EXCEPT ![a] = s], Placed(s)',
         GateShape', RowsOK', MutationsOK'
  PROVE  GateInv'
  <1>1. ASSUME NEW b \in Gateway!Actor PROVE Placed(mAt[b])'
    <2>1. PICK t : t = mAt'[b]
      OBVIOUS
    <2>2. Placed(t)'
      <3>1. CASE b = a
        BY <2>1, <3>1 DEF GateInv, GateShape
      <3>2. CASE b # a
        <4>1. t = mAt[b] /\ Placed(t)
          BY <2>1, <3>2 DEF GateInv, GateShape
        <4> QED BY <4>1, PlacedStays
      <3> QED BY <3>1, <3>2
    <2> QED BY <2>1, <2>2
  <1> QED BY <1>1 DEF GateInv

\* So does one that moves nobody.
LEMMA Remains ==
  ASSUME GateInv, Grows, mAt' = mAt, GateShape', RowsOK', MutationsOK'
  PROVE  GateInv'
  <1>1. ASSUME NEW b \in Gateway!Actor PROVE Placed(mAt[b])'
    <2>1. PICK t : t = mAt[b] /\ Placed(t)
      BY DEF GateInv
    <2>2. Placed(t)'
      BY <2>1, PlacedStays
    <2> QED BY <2>1, <2>2
  <1> QED BY <1>1 DEF GateInv

\* A step that leaves the rows, the approvals and V4 alone.
LEMMA SameTables ==
  ASSUME GateInv, DOMAIN mAt' = DOMAIN mAt, mOp' = mOp, mApproval' = mApproval, mV4' = mV4,
         mAllowed \subseteq mAllowed'
  PROVE  Grows /\ GateShape' /\ RowsOK' /\ MutationsOK'
  <1>1. Grows
    BY DEF Grows, Created
  <1>2. GateShape'
    BY DEF GateInv, GateShape
  <1>3. RowsOK'
    BY DEF GateInv, RowsOK, Backs
  <1>4. MutationsOK'
    BY DEF GateInv, MutationsOK, Created, Authorised, Backs
  <1> QED BY <1>1, <1>2, <1>3, <1>4

(* The status of an operation is written (operations.py:742-768). *)
LEMMA StatusSet ==
  ASSUME GateInv, DOMAIN mAt' = DOMAIN mAt, NEW o \in Op, Created(o),
         NEW st \in Gateway!Status \ {"none"},
         st = "COMMITTED" => mV4[o].stored,
         st \in {"PENDING_APPROVAL", "APPROVED"} => Backs(mOp[o].app, o),
         mOp' = [mOp EXCEPT ![o].st = st], mV4' = mV4, mAllowed' = mAllowed, mApproval' = mApproval
  PROVE  Grows /\ GateShape' /\ RowsOK' /\ MutationsOK'
  <1>1. mOp \in [Op -> Applied] /\ mV4 \in [Op -> Mutation]
    BY DEF GateInv, GateShape
  <1>2. /\ mOp' \in [Op -> Applied]
        /\ mOp'[o].st = st /\ mOp'[o].hash = mOp[o].hash /\ mOp'[o].app = mOp[o].app
        /\ \A p \in Op : p # o => mOp'[p] = mOp[p]
    BY <1>1 DEF Applied
  <1>3. Grows
    BY <1>2 DEF Grows, Created
  <1>4. GateShape'
    BY <1>2 DEF GateInv, GateShape
  <1>5. RowsOK'
    BY <1>2 DEF GateInv, RowsOK, Backs, Created
  <1>6. MutationsOK'
    <2> SUFFICES ASSUME NEW p \in Op, mV4[p].st # "none" PROVE Created(p)' /\ Authorised(p)' /\ mV4[p].payload = mOp'[p].hash
      BY DEF GateInv, MutationsOK
    <2>1. Created(p) /\ Authorised(p) /\ mV4[p].payload = mOp[p].hash
      BY DEF GateInv, MutationsOK
    <2>2. mOp'[p].hash = mOp[p].hash
      BY <1>2
    <2> QED BY <1>3, <2>1, <2>2, AuthorisedStays
  <1> QED BY <1>3, <1>4, <1>5, <1>6

(* A request inserts its row, or finds the one of its key (operations.py:327-353). *)
LEMMA RequestStep ==
  ASSUME "none" \notin Payload, GateInv, NEW a \in Caller, NEW o \in Op, NEW p \in Payload, Gateway!Request(a, o, p)
  PROVE  GateInv'
  <1>1. a \in Gateway!Actor
    BY DEF Gateway!Actor
  <1>2. CASE mOp[o] = Gateway!NoRow /\ mOp' = [mOp EXCEPT ![o] = [st |-> "CREATED", hash |-> p, app |-> 0]]
             /\ mAt' = [mAt EXCEPT ![a] = [step |-> "policy", o |-> o]]
    <2>1. UNCHANGED <<mApproval, mV4, mAllowed>>
      BY DEF Gateway!Request
    <2>2. mOp \in [Op -> Applied] /\ ~Created(o) /\ mV4[o].st = "none"
      BY <1>2 DEF GateInv, GateShape, Created, MutationsOK, Gateway!NoRow
    <2>3. [st |-> "CREATED", hash |-> p, app |-> 0] \in Applied
      BY DEF Applied, Gateway!Status
    <2>4. /\ mOp' \in [Op -> Applied] /\ mOp'[o].st = "CREATED"
          /\ \A q \in Op : q # o => mOp'[q] = mOp[q]
      BY <1>2, <2>2, <2>3
    <2>5. Grows
      BY <2>1, <2>2, <2>4 DEF Grows, Created
    <2>6. GateShape'
      BY <1>2, <2>1, <2>4 DEF GateInv, GateShape
    <2>7. RowsOK'
      BY <2>1, <2>4 DEF GateInv, RowsOK, Backs
    <2>8. MutationsOK'
      <3> SUFFICES ASSUME NEW q \in Op, mV4[q].st # "none"
                   PROVE Created(q)' /\ Authorised(q)' /\ mV4[q].payload = mOp'[q].hash
        BY <2>1 DEF GateInv, MutationsOK
      <3>1. Created(q) /\ Authorised(q) /\ mV4[q].payload = mOp[q].hash /\ q # o
        BY <2>2 DEF GateInv, MutationsOK
      <3> QED BY <2>4, <2>5, <3>1, AuthorisedStays
    <2>9. Placed([step |-> "policy", o |-> o])'
      BY <2>4 DEF Placed, Created
    <2> QED BY <1>1, <1>2, <2>5, <2>6, <2>7, <2>8, <2>9, Arrives
  <1>3. CASE mOp[o].hash = p /\ mOp' = mOp
             /\ mAt' = [mAt EXCEPT ![a] = [step |-> IF mOp[o].st = "CREATED" THEN "policy" ELSE "poll", o |-> o]]
    <2>1. UNCHANGED <<mApproval, mV4, mAllowed>> /\ DOMAIN mAt' = DOMAIN mAt
      BY <1>3 DEF Gateway!Request
    <2>2. Created(o)
      BY <1>3 DEF GateInv, RowsOK, Created
    <2>3. PICK s : s = [step |-> IF mOp[o].st = "CREATED" THEN "policy" ELSE "poll", o |-> o]
      OBVIOUS
    <2>4. Placed(s)'
      BY <1>3, <2>2, <2>3 DEF Placed, Created
    <2> QED BY <1>1, <1>3, <2>1, <2>3, <2>4, SameTables, Arrives
  <1> QED BY <1>2, <1>3 DEF Gateway!Request, Gateway!Goto

\* An actor goes on, and the tables stay.
LEMMA Turn ==
  ASSUME GateInv, NEW a \in Gateway!Actor, NEW s, mAt' = [mAt EXCEPT ![a] = s], Placed(s)',
         mOp' = mOp, mApproval' = mApproval, mV4' = mV4, mAllowed \subseteq mAllowed'
  PROVE  GateInv'
  BY SameTables, Arrives

\* An actor records a status and goes on.
LEMMA Records ==
  ASSUME GateInv, NEW a \in Gateway!Actor, NEW s, mAt' = [mAt EXCEPT ![a] = s], Placed(s)',
         NEW o \in Op, Created(o), NEW st \in Gateway!Status \ {"none"},
         st = "COMMITTED" => mV4[o].stored,
         st \in {"PENDING_APPROVAL", "APPROVED"} => Backs(mOp[o].app, o),
         mOp' = [mOp EXCEPT ![o].st = st], mV4' = mV4, mAllowed' = mAllowed, mApproval' = mApproval
  PROVE  GateInv'
  <1>1. DOMAIN mAt' = DOMAIN mAt
    OBVIOUS
  <1>2. Grows /\ GateShape' /\ RowsOK' /\ MutationsOK'
    BY <1>1, StatusSet
  <1> QED BY <1>2, Arrives

(* An operation whose status is written is still there (operations.py:742-768). *)
LEMMA StatusKept ==
  ASSUME GateInv, NEW o \in Op, NEW st \in Gateway!Status \ {"none"}, Created(o), mOp' = [mOp EXCEPT ![o].st = st]
  PROVE  Created(o)' /\ mOp'[o].st = st
  BY DEF GateInv, GateShape, Applied, Created

(* A recall, the policy's answer, and the approval asked for and then awaited in two
   transactions (operations.py:354-385, engine.py:17-80, approval_repo.py:15-50). *)
LEMMA AskStep ==
  ASSUME GateInv, NEW a \in Caller,
         Gateway!Recall(a) \/ Gateway!Evaluate(a) \/ Gateway!Deny(a) \/ Gateway!CreateApproval(a)
            \/ Gateway!AwaitApproval(a)
  PROVE  GateInv'
  <1>1. a \in Gateway!Actor /\ Placed(mAt[a])
    BY DEF Gateway!Actor, GateInv
  <1>2. CASE Gateway!Recall(a)
    <2>1. Placed([step |-> "recall"])'
      BY DEF Placed
    <2> QED BY <1>1, <1>2, <2>1, Turn DEF Gateway!Recall, Gateway!Goto
  <1>3. CASE Gateway!Evaluate(a)
    <2>1. PICK s : s = [step |-> CASE mPolicy = "ALLOW" -> "run" [] mPolicy = "DENY" -> "deny" [] OTHER -> "ask",
                        o |-> mAt[a].o]
      OBVIOUS
    <2>2. /\ s.o = mAt[a].o /\ s.step \in {"run", "deny", "ask"} /\ Created(s.o)
          /\ s.step = "run" => mPolicy = "ALLOW"
      BY <1>1, <1>3, <2>1 DEF Gateway!Evaluate, Placed
    <2>3. /\ mAt' = [mAt EXCEPT ![a] = s] /\ UNCHANGED <<mOp, mApproval, mV4>>
          /\ mAllowed \subseteq mAllowed'
          /\ mPolicy = "ALLOW" => s.o \in mAllowed'
      BY <1>3, <2>1 DEF Gateway!Evaluate, Gateway!Goto
    <2>4. Placed(s)'
      BY <2>2, <2>3 DEF Placed, Created, Authorised
    <2> QED BY <1>1, <2>3, <2>4, Turn
  <1>4. CASE Gateway!Deny(a)
    <2>1. PICK o : o = mAt[a].o
      OBVIOUS
    <2>2. Created(o) /\ o \in Op
      BY <1>1, <1>4, <2>1 DEF Gateway!Deny, Placed, Created
    <2>3. /\ mAt' = [mAt EXCEPT ![a] = [step |-> "poll", o |-> o]] /\ UNCHANGED <<mApproval, mV4, mAllowed>>
          /\ mOp' = [mOp EXCEPT ![o].st = "DENIED"]
      BY <1>4, <2>1 DEF Gateway!Deny, Gateway!Goto, Gateway!Set
    <2>4. "DENIED" \in Gateway!Status \ {"none"}
      BY DEF Gateway!Status
    <2>5. Created(o)'
      BY <2>2, <2>3, <2>4, StatusKept
    <2>6. Placed([step |-> "poll", o |-> o])'
      BY <2>5 DEF Placed
    <2> QED BY <1>1, <2>2, <2>3, <2>4, <2>6, Records
  <1>5. CASE Gateway!CreateApproval(a)
    <2>1. PICK o : o = mAt[a].o
      OBVIOUS
    <2>2. Created(o) /\ o \in Op
      BY <1>1, <1>5, <2>1 DEF Gateway!CreateApproval, Placed, Created
    <2>3. PICK n : n = Len(mApproval) + 1
      OBVIOUS
    <2>4. PICK r : r = [o |-> o, st |-> "PENDING", hash |-> mOp[o].hash]
      OBVIOUS
    <2>5. /\ mApproval' = Append(mApproval, r) /\ UNCHANGED <<mOp, mV4, mAllowed>>
          /\ mAt' = [mAt EXCEPT ![a] = [step |-> "asked", o |-> o, app |-> n]]
      BY <1>5, <2>1, <2>3, <2>4 DEF Gateway!CreateApproval, Gateway!Goto
    <2>6. r \in Asked
      BY <2>2, <2>4 DEF Asked, GateInv, GateShape, Applied
    <2>7. /\ mApproval' \in Seq(Asked) /\ DOMAIN mApproval' = DOMAIN mApproval \cup {n}
          /\ \A i \in DOMAIN mApproval : mApproval'[i] = mApproval[i]
          /\ mApproval'[n] = r /\ n \notin DOMAIN mApproval
      <3>1. mApproval \in Seq(Asked)
        BY DEF GateInv, GateShape
      <3> QED BY <2>3, <2>5, <2>6, <3>1, AppendProperties, LenProperties
    <2>8. Grows
      BY <2>5, <2>7 DEF Grows, Created
    <2>9. GateShape'
      BY <2>5, <2>7 DEF GateInv, GateShape
    <2>10. RowsOK'
      BY <2>5, <2>7 DEF GateInv, RowsOK, Backs
    <2>11. MutationsOK'
      BY <2>5, <2>8, AuthorisedStays DEF GateInv, MutationsOK
    <2>12. Placed([step |-> "asked", o |-> o, app |-> n])'
      BY <2>2, <2>4, <2>5, <2>7 DEF Placed, Created, Backs
    <2> QED BY <1>1, <2>5, <2>8, <2>9, <2>10, <2>11, <2>12, Arrives
  <1>6. CASE Gateway!AwaitApproval(a)
    <2>1. PICK o : o = mAt[a].o
      OBVIOUS
    <2>2. PICK i : i = mAt[a].app
      OBVIOUS
    <2>3. Created(o) /\ o \in Op /\ Backs(i, o)
      BY <1>1, <1>6, <2>1, <2>2 DEF Gateway!AwaitApproval, Placed, Created
    <2>4. /\ mOp' = [mOp EXCEPT ![o] = [mOp[o] EXCEPT !.st = "PENDING_APPROVAL", !.app = i]]
          /\ mAt' = [mAt EXCEPT ![a] = [step |-> "poll", o |-> o]]
          /\ UNCHANGED <<mApproval, mV4, mAllowed>>
      BY <1>6, <2>1, <2>2, <2>3 DEF Gateway!AwaitApproval, Gateway!Goto
    <2>5. i \in Nat
      BY <2>3, LenProperties DEF Backs, GateInv, GateShape
    <2>6. mOp \in [Op -> Applied] /\ mOp[o] \in Applied
      BY <2>3 DEF GateInv, GateShape
    <2>7. PICK r : r = [mOp[o] EXCEPT !.st = "PENDING_APPROVAL", !.app = i]
      OBVIOUS
    <2>14. /\ r \in Applied /\ r.st = "PENDING_APPROVAL" /\ r.app = i /\ r.hash = mOp[o].hash
      BY <2>5, <2>6, <2>7 DEF Applied, Gateway!Status
    <2>15. mOp' = [mOp EXCEPT ![o] = r]
      BY <2>4, <2>7
    <2>8. /\ mOp' \in [Op -> Applied] /\ mOp'[o].st = "PENDING_APPROVAL" /\ mOp'[o].app = i
          /\ mOp'[o].hash = mOp[o].hash
          /\ \A q \in Op : q # o => mOp'[q] = mOp[q]
      BY <2>3, <2>6, <2>14, <2>15
    <2>9. Grows
      BY <2>4, <2>8 DEF Grows, Created
    <2>10. GateShape'
      BY <2>4, <2>8 DEF GateInv, GateShape
    <2>11. RowsOK'
      BY <2>3, <2>4, <2>8 DEF GateInv, RowsOK, Backs, Created
    <2>12. MutationsOK'
      <3> SUFFICES ASSUME NEW q \in Op, mV4[q].st # "none"
                   PROVE Created(q)' /\ Authorised(q)' /\ mV4[q].payload = mOp'[q].hash
        BY <2>4 DEF GateInv, MutationsOK
      <3>1. Created(q) /\ Authorised(q) /\ mV4[q].payload = mOp[q].hash
        BY DEF GateInv, MutationsOK
      <3> QED BY <2>8, <2>9, <3>1, AuthorisedStays
    <2>13. Placed([step |-> "poll", o |-> o])'
      BY <2>3, <2>8 DEF Placed, Created
    <2> QED BY <1>1, <2>4, <2>9, <2>10, <2>11, <2>12, <2>13, Arrives
  <1> QED BY <1>2, <1>3, <1>4, <1>5, <1>6

(* A call that the breaker refuses or lets through (operations.py:54-76). *)
LEMMA EnterStep ==
  ASSUME GateInv, NEW a \in Gateway!Actor, Gateway!Enter(a)
  PROVE  GateInv'
  <1>1. PICK t : t = mAt[a] /\ Placed(t) /\ t.step \in {"run", "recall", "status"}
    BY DEF GateInv, Gateway!Enter, Gateway!Calls
  <1>2. UNCHANGED <<mOp, mApproval, mV4, mAllowed>>
    BY DEF Gateway!Enter
  <1>3. CASE Gateway!Refuses
    <2>1. PICK s : s = IF t.step = "run" THEN [step |-> "write", o |-> t.o, st |-> "FAILED"]
                       ELSE Gateway!Idle
      OBVIOUS
    <2>2. mAt' = [mAt EXCEPT ![a] = s]
      BY <1>1, <1>3, <2>1 DEF Gateway!Enter, Gateway!Goto
    <2>3. Placed(s)
      BY <1>1, <2>1 DEF Placed, Gateway!Idle
    <2>4. Placed(s)'
      BY <1>2, <2>3 DEF Placed, Created, Authorised, Backs
    <2> QED BY <1>2, <2>2, <2>4, Turn
  <1>4. CASE ~Gateway!Refuses
    <2>1. PICK s : s = [step |-> "flight", call |-> t, probe |-> mBreaker.st = "HALF_OPEN"]
      OBVIOUS
    <2>2. mAt' = [mAt EXCEPT ![a] = s]
      BY <1>1, <1>4, <2>1 DEF Gateway!Enter, Gateway!Goto
    <2>3. Placed(s)
      BY <1>1, <2>1 DEF Placed
    <2>4. Placed(s)'
      BY <1>2, <2>3 DEF Placed, Created, Authorised, Backs
    <2> QED BY <1>2, <2>2, <2>4, Turn
  <1> QED BY <1>3, <1>4

(* V4 admits a write of an operation that may write, once (v4_service.py:164-261). *)
LEMMA AdmittedStays ==
  ASSUME GateInv, NEW o \in Op, Created(o), Authorised(o), DOMAIN mAt' = DOMAIN mAt,
         mV4' = Gateway!Admitted(o), mOp' = mOp, mApproval' = mApproval, mAllowed' = mAllowed
  PROVE  Grows /\ GateShape' /\ RowsOK' /\ MutationsOK' /\ (o \in Forgetting => mV4'[o].stored)
  <1>1. CASE mV4[o] # Gateway!NoMutation
    <2>1. mV4' = mV4
      BY <1>1 DEF Gateway!Admitted
    <2>2. o \in Forgetting => mV4[o].stored
      BY <1>1 DEF GateInv, MutationsOK
    <2> QED BY <2>1, <2>2, SameTables
  <1>2. CASE mV4[o] = Gateway!NoMutation
    <2>1. PICK m : m = [st |-> IF o \in Forgetting THEN "PURGED" ELSE "ACCEPTED", stored |-> o \in Forgetting, payload |-> mOp[o].hash]
      OBVIOUS
    <2>2. mV4' = [mV4 EXCEPT ![o] = m]
      BY <1>2, <2>1 DEF Gateway!Admitted
    <2>3. /\ m.st \in {"PURGED", "ACCEPTED"} /\ m.payload = mOp[o].hash
          /\ o \in Forgetting => m.stored
      BY <2>1
    <2>4. m \in Mutation
      BY <2>1 DEF Mutation, GateInv, GateShape, Applied
    <2>5. /\ mV4' \in [Op -> Mutation] /\ mV4'[o] = m /\ ~mV4[o].stored
          /\ \A q \in Op : q # o => mV4'[q] = mV4[q]
      BY <1>2, <2>2, <2>4 DEF GateInv, GateShape, Gateway!NoMutation
    <2>6. Grows
      BY <2>5 DEF Grows, Created
    <2>7. GateShape'
      BY <2>5 DEF GateInv, GateShape
    <2>8. RowsOK'
      BY <2>5 DEF GateInv, RowsOK, Backs
    <2>9. ASSUME NEW q \in Op, mV4'[q].st # "none" PROVE Created(q)' /\ Authorised(q)' /\ mV4'[q].payload = mOp'[q].hash
      BY <2>3, <2>5, <2>6, <2>9, AuthorisedStays DEF GateInv, MutationsOK
    <2>10. MutationsOK'
      BY <2>3, <2>5, <2>9 DEF GateInv, MutationsOK
    <2> QED BY <2>3, <2>5, <2>6, <2>7, <2>8, <2>10
  <1> QED BY <1>1, <1>2

(* The answers of V4, and those that are lost after V4 admitted the write
   (operations.py:76-91, 608-661, 713-740). *)
LEMMA AnswerStep ==
  ASSUME GateInv, NEW a \in Gateway!Actor, Gateway!Answer(a)
  PROVE  GateInv'
  <1>1. PICK t : t = mAt[a] /\ Placed(t) /\ t.step = "flight"
    BY DEF GateInv, Gateway!Answer
  <1>2. PICK c : c = t.call
    OBVIOUS
  <1>3. UNCHANGED <<mOp, mApproval, mAllowed>>
    BY DEF Gateway!Answer
  <1>4. CASE c.step = "run"
    <2>1. Gateway!WriteAnswered(a, c)
      BY <1>1, <1>2, <1>4 DEF Gateway!Answer
    <2>2. PICK o \in Op : o = c.o /\ Created(o) /\ Authorised(o)
      BY <1>1, <1>2, <1>4 DEF Placed, Created
    <2>3. mV4' = Gateway!Admitted(o) \/ mV4' = mV4
      BY <2>1, <2>2 DEF Gateway!WriteAnswered, Gateway!Lost
    <2>4. PICK st : /\ mAt' = [mAt EXCEPT ![a] = [step |-> "write", o |-> o, st |-> st]]
                    /\ st \in {"SUBMITTED", "COMMITTED", "FAILED"}
                    /\ st = "COMMITTED" => o \in Forgetting /\ mV4' = Gateway!Admitted(o)
      BY <2>1, <2>2 DEF Gateway!WriteAnswered, Gateway!Goto, Gateway!Finality
    <2>5. DOMAIN mAt' = DOMAIN mAt
      BY <2>4
    <2>6. /\ Grows /\ GateShape' /\ RowsOK' /\ MutationsOK'
          /\ st = "COMMITTED" => mV4'[o].stored
      BY <1>3, <2>2, <2>3, <2>4, <2>5, SameTables, AdmittedStays
    <2>7. Created(o)'
      BY <2>2, <2>6, AuthorisedStays
    <2>8. Placed([step |-> "write", o |-> o, st |-> st])'
      BY <2>4, <2>6, <2>7 DEF Placed
    <2> QED BY <2>4, <2>6, <2>8, Arrives
  <1>5. CASE c.step = "status"
    <2>1. Gateway!StatusAnswered(a, c)
      BY <1>1, <1>2, <1>5 DEF Gateway!Answer
    <2>2. PICK o \in Op : o = c.o /\ Created(o)
      BY <1>1, <1>2, <1>5 DEF Placed, Created
    <2>3. PICK st : st = Gateway!StatusOf(mV4[o])
      OBVIOUS
    <2>4. /\ st \in {"COMMITTED", "REJECTED", "FAILED", "PROCESSING"}
          /\ st = "COMMITTED" => mV4[o].stored
      BY <2>3 DEF Gateway!StatusOf, GateInv, MutationsOK
    <2>5. /\ mV4' = mV4
          /\ \/ mAt' = [mAt EXCEPT ![a] = [step |-> "sync", o |-> o, st |-> st]]
             \/ mAt' = [mAt EXCEPT ![a] = Gateway!Idle]
             \/ mAt' = [mAt EXCEPT ![a] = [step |-> "sync", o |-> o, st |-> "FAILED"]]
      BY <2>1, <2>2, <2>3 DEF Gateway!StatusAnswered, Gateway!Goto
    <2>6. /\ Placed([step |-> "sync", o |-> o, st |-> st])'
          /\ Placed([step |-> "sync", o |-> o, st |-> "FAILED"])' /\ Placed(Gateway!Idle)'
      BY <1>3, <2>2, <2>4, <2>5 DEF Placed, Created, Gateway!Idle
    <2> QED BY <1>3, <2>5, <2>6, Turn
  <1>6. CASE c.step \notin {"run", "status"}
    <2>1. /\ mV4' = mV4 /\ mAt' = [mAt EXCEPT ![a] = Gateway!Idle]
      BY <1>1, <1>2, <1>6 DEF Gateway!Answer, Gateway!RecallAnswered, Gateway!Goto
    <2>2. Placed(Gateway!Idle)'
      BY DEF Placed, Gateway!Idle
    <2> QED BY <1>3, <2>1, <2>2, Turn
  <1> QED BY <1>4, <1>5, <1>6

(* The status written after an answer, which others may have written in between
   (operations.py:653-681, 292-301, 305-325, 728-740). *)
LEMMA RecordStep ==
  ASSUME GateInv, NEW a \in Gateway!Actor,
         \/ Gateway!Write(a) \/ Gateway!Poll(a) \/ Gateway!Sync(a)
         \/ a = Approver /\ Gateway!WriteAgain
  PROVE  GateInv'
  <1>1. PICK t : t = mAt[a] /\ Placed(t) /\ t.step \in {"write", "poll", "sync", "again"}
    BY DEF GateInv, Gateway!Write, Gateway!Poll, Gateway!Sync, Gateway!WriteAgain
  <1>2. PICK o \in Op : o = t.o /\ Created(o)
    BY <1>1 DEF Placed, Created
  <1>3. CASE Gateway!Poll(a)
    <2>1. PICK s : s = IF mOp[o].st \in Gateway!Open THEN [step |-> "status", o |-> o] ELSE Gateway!Idle
      OBVIOUS
    <2>2. mAt' = [mAt EXCEPT ![a] = s] /\ UNCHANGED <<mOp, mApproval, mV4, mAllowed>>
      BY <1>1, <1>2, <1>3, <2>1 DEF Gateway!Poll, Gateway!Goto
    <2>3. Placed(s)'
      BY <1>2, <2>1, <2>2 DEF Placed, Created, Gateway!Idle
    <2> QED BY <2>2, <2>3, Turn
  <1>4. ASSUME NEW st \in {"SUBMITTED", "COMMITTED", "FAILED", "REJECTED", "PROCESSING"},
               st = "COMMITTED" => mV4[o].stored, mOp' = [mOp EXCEPT ![o].st = st],
               NEW s, mAt' = [mAt EXCEPT ![a] = s],
               s \in {Gateway!Idle, [step |-> "poll", o |-> o], [step |-> "again", o |-> o]},
               UNCHANGED <<mApproval, mV4, mAllowed>>
        PROVE  GateInv'
    <2>1. st \in Gateway!Status \ {"none"} /\ st \notin {"PENDING_APPROVAL", "APPROVED"}
      BY DEF Gateway!Status, Gateway!Open
    <2>2. Created(o)'
      BY <1>2, <1>4, <2>1, StatusKept
    <2>3. Placed(s)'
      BY <1>4, <2>2 DEF Placed, Gateway!Idle
    <2> QED BY <1>2, <1>4, <2>1, <2>3, Records
  <1>5. CASE Gateway!Write(a)
    <2>1. PICK st : st = t.st
      OBVIOUS
    <2>2. PICK s : s = IF st # "FAILED" THEN [step |-> "poll", o |-> o]
                       ELSE IF a = Approver THEN [step |-> "again", o |-> o] ELSE Gateway!Idle
      OBVIOUS
    <2>3. mAt' = [mAt EXCEPT ![a] = s] /\ mOp' = [mOp EXCEPT ![o].st = st]
          /\ UNCHANGED <<mApproval, mV4, mAllowed>>
      BY <1>1, <1>2, <1>5, <2>1, <2>2 DEF Gateway!Write, Gateway!Goto, Gateway!Set
    <2>4. st \in {"SUBMITTED", "COMMITTED", "FAILED"} /\ (st = "COMMITTED" => mV4[o].stored)
      BY <1>1, <1>2, <1>5, <2>1 DEF Gateway!Write, Placed
    <2> QED BY <1>4, <2>2, <2>3, <2>4
  <1>6. CASE Gateway!Sync(a)
    <2>1. PICK st : st = t.st
      OBVIOUS
    <2>2. PICK s : s = Gateway!Idle
      OBVIOUS
    <2>3. mAt' = [mAt EXCEPT ![a] = s] /\ mOp' = [mOp EXCEPT ![o].st = st]
          /\ UNCHANGED <<mApproval, mV4, mAllowed>>
      BY <1>1, <1>2, <1>6, <2>1, <2>2 DEF Gateway!Sync, Gateway!Goto, Gateway!Set
    <2>4. st \in {"COMMITTED", "REJECTED", "FAILED", "PROCESSING"} /\ (st = "COMMITTED" => mV4[o].stored)
      BY <1>1, <1>2, <1>6, <2>1 DEF Gateway!Sync, Placed
    <2> QED BY <1>4, <2>2, <2>3, <2>4
  <1>7. CASE a = Approver /\ Gateway!WriteAgain
    <2>2. PICK s : s = Gateway!Idle
      OBVIOUS
    <2>3. mAt' = [mAt EXCEPT ![a] = s] /\ mOp' = [mOp EXCEPT ![o].st = "FAILED"]
          /\ UNCHANGED <<mApproval, mV4, mAllowed>>
      BY <1>1, <1>2, <1>7, <2>2 DEF Gateway!WriteAgain, Gateway!Goto, Gateway!Set
    <2> QED BY <1>4, <2>2, <2>3
  <1> QED BY <1>3, <1>5, <1>6, <1>7

(* The loop that runs approved operations works on the copy it read, and claims from the
   status expected (operations.py:251-301, 770-800). *)
LEMMA LoopStep ==
  ASSUME GateInv, \/ Gateway!Look \/ Gateway!Decide \/ Gateway!Claim \/ Gateway!Dispatch
                  \/ \E o \in Op : Gateway!Scan(o)
  PROVE  GateInv'
  <1> DEFINE w == Approver
  <1>1. w \in Gateway!Actor
    BY DEF Gateway!Actor
  <1>2. PICK t : t = mAt[w] /\ Placed(t)
    BY <1>1 DEF GateInv
  <1>3. ASSUME NEW o \in Op, Gateway!Scan(o) PROVE GateInv'
    <2>1. PICK s : s = [step |-> "look", o |-> o, seen |-> mOp[o]]
      OBVIOUS
    <2>2. /\ mAt' = [mAt EXCEPT ![w] = s] /\ UNCHANGED <<mOp, mApproval, mV4, mAllowed>>
          /\ mOp[o].st \in {"PENDING_APPROVAL", "APPROVED"}
      BY <1>3, <2>1 DEF Gateway!Scan, Gateway!Goto
    <2>3. Created(o) /\ Backs(mOp[o].app, o)
      BY <2>2 DEF Created, GateInv, RowsOK
    <2>4. Placed(s)
      BY <2>1, <2>3 DEF Placed
    <2>5. Grows
      BY <2>2 DEF Grows, Created
    <2>6. Placed(s)'
      BY <2>4, <2>5, PlacedStays
    <2> QED BY <1>1, <2>2, <2>6, Turn
  <1>4. CASE Gateway!Look
    <2>1. PICK st : st = mApproval[t.seen.app].st
      OBVIOUS
    <2>2. PICK s : s = IF st = "PENDING" THEN Gateway!Idle
                       ELSE IF t.seen.st = "PENDING_APPROVAL"
                       THEN [step |-> "decide", o |-> t.o, st |-> Gateway!Decided(st)]
                       ELSE IF st = "APPROVED" THEN [step |-> "claim", o |-> t.o] ELSE Gateway!Idle
      OBVIOUS
    <2>3. mAt' = [mAt EXCEPT ![w] = s] /\ UNCHANGED <<mOp, mApproval, mV4, mAllowed>> /\ t.step = "look"
      BY <1>2, <1>4, <2>1, <2>2 DEF Gateway!Look, Gateway!Goto
    <2>4. Created(t.o) /\ Backs(t.seen.app, t.o)
      BY <1>2, <2>3 DEF Placed
    <2>5. st = "APPROVED" => Authorised(t.o)
      BY <2>1, <2>4 DEF Authorised, Backs
    <2>6. Placed(s)
      BY <2>2, <2>4, <2>5 DEF Placed, Gateway!Idle, Gateway!Decided
    <2>7. Placed(s)'
      BY <2>3, <2>6 DEF Placed, Created, Authorised, Backs
    <2> QED BY <1>1, <2>3, <2>7, Turn
  <1>5. CASE Gateway!Decide
    <2>1. PICK o \in Op : o = t.o /\ Created(o)
      BY <1>2, <1>5 DEF Gateway!Decide, Placed, Created
    <2>2. PICK st : st = t.st
      OBVIOUS
    <2>3. st \in {"APPROVED", "REJECTED"} /\ (st = "APPROVED" => Authorised(o))
      BY <1>2, <1>5, <2>1, <2>2 DEF Gateway!Decide, Placed
    <2>4. CASE mOp[o].st = "PENDING_APPROVAL"
      <3>1. PICK s : s = IF st = "APPROVED" THEN [step |-> "claim", o |-> o] ELSE Gateway!Idle
        OBVIOUS
      <3>2. mAt' = [mAt EXCEPT ![w] = s] /\ mOp' = [mOp EXCEPT ![o].st = st]
            /\ UNCHANGED <<mApproval, mV4, mAllowed>>
        BY <1>2, <1>5, <2>1, <2>2, <2>4, <3>1 DEF Gateway!Decide, Gateway!Goto, Gateway!Set
      <3>3. Backs(mOp[o].app, o) /\ st \in Gateway!Status \ {"none"}
        BY <2>3, <2>4 DEF GateInv, RowsOK, Gateway!Status
      <3>6. DOMAIN mAt' = DOMAIN mAt
        BY <3>2
      <3>7. Grows
        BY <2>1, <2>3, <3>2, <3>3, <3>6, StatusSet
      <3>4. Created(o)' /\ Grows
        BY <2>1, <3>7, AuthorisedStays
      <3>5. Placed(s)'
        BY <2>1, <2>3, <3>1, <3>4, AuthorisedStays DEF Placed, Gateway!Idle
      <3> QED BY <1>1, <2>1, <2>3, <3>2, <3>3, <3>5, Records
    <2>5. CASE mOp[o].st # "PENDING_APPROVAL"
      <3>1. mAt' = [mAt EXCEPT ![w] = Gateway!Idle] /\ UNCHANGED <<mOp, mApproval, mV4, mAllowed>>
        BY <1>2, <1>5, <2>1, <2>5 DEF Gateway!Decide, Gateway!Goto
      <3>2. Placed(Gateway!Idle)'
        BY DEF Placed, Gateway!Idle
      <3> QED BY <1>1, <3>1, <3>2, Turn
    <2> QED BY <2>4, <2>5
  <1>6. CASE Gateway!Claim
    <2>1. PICK o \in Op : o = t.o /\ Created(o) /\ Authorised(o)
      BY <1>2, <1>6 DEF Gateway!Claim, Placed, Created
    <2>2. CASE mOp[o].st = "APPROVED"
      <3>1. PICK s : s = [step |-> "scope", o |-> o]
        OBVIOUS
      <3>2. mAt' = [mAt EXCEPT ![w] = s] /\ mOp' = [mOp EXCEPT ![o].st = "DISPATCHING"]
            /\ UNCHANGED <<mApproval, mV4, mAllowed>>
        BY <1>2, <1>6, <2>1, <2>2, <3>1 DEF Gateway!Claim, Gateway!Goto, Gateway!Set
      <3>3. "DISPATCHING" \in Gateway!Status \ {"none"}
        BY DEF Gateway!Status
      <3>4. Grows
        BY <2>1, <3>2, <3>3, StatusSet
      <3>5. Placed(s)'
        BY <2>1, <3>1, <3>4, AuthorisedStays DEF Placed
      <3> QED BY <1>1, <2>1, <3>2, <3>3, <3>5, Records
    <2>3. CASE mOp[o].st # "APPROVED"
      <3>1. mAt' = [mAt EXCEPT ![w] = Gateway!Idle] /\ UNCHANGED <<mOp, mApproval, mV4, mAllowed>>
        BY <1>2, <1>6, <2>1, <2>3 DEF Gateway!Claim, Gateway!Goto
      <3>2. Placed(Gateway!Idle)'
        BY DEF Placed, Gateway!Idle
      <3> QED BY <1>1, <3>1, <3>2, Turn
    <2> QED BY <2>2, <2>3
  <1>7. CASE Gateway!Dispatch
    <2>1. PICK s : s = IF Gateway!InScope THEN [step |-> "run", o |-> t.o] ELSE [step |-> "again", o |-> t.o]
      OBVIOUS
    <2>2. mAt' = [mAt EXCEPT ![w] = s] /\ UNCHANGED <<mOp, mApproval, mV4, mAllowed>> /\ t.step = "scope"
      BY <1>2, <1>7, <2>1 DEF Gateway!Dispatch, Gateway!Goto
    <2>3. Placed(s)
      BY <1>2, <2>1, <2>2 DEF Placed
    <2>4. Placed(s)'
      BY <2>2, <2>3 DEF Placed, Created, Authorised, Backs
    <2> QED BY <1>1, <2>2, <2>4, Turn
  <1> QED BY <1>3, <1>4, <1>5, <1>6, <1>7

(* A decision of an operator, with the operation or without it, leaves the approvals that
   were asked (approval.py:21-132, approval_repo.py:62-83). *)
LEMMA DecisionStep ==
  ASSUME GateInv, NEW i \in DOMAIN mApproval, NEW st \in {"APPROVED", "REJECTED"},
         Gateway!DecideOperation(i, st) \/ Gateway!DecideApproval(i, st)
  PROVE  GateInv'
  <1>1. mApproval \in Seq(Asked) /\ mApproval[i].st = "PENDING"
    BY DEF GateInv, GateShape, Gateway!DecideOperation, Gateway!DecideApproval
  <1>2. mApproval' = [mApproval EXCEPT ![i].st = st] /\ mAt' = mAt /\ UNCHANGED <<mV4, mAllowed>>
    BY DEF Gateway!DecideOperation, Gateway!DecideApproval
  <1>3. mApproval[i] \in Asked
    BY <1>1, ElementOfSeq, LenProperties
  <1>4. [mApproval[i] EXCEPT !.st = st] \in Asked
    BY <1>3 DEF Asked
  <1>5. /\ mApproval' \in Seq(Asked) /\ DOMAIN mApproval' = DOMAIN mApproval
        /\ mApproval'[i].st = st
        /\ \A j \in DOMAIN mApproval : /\ mApproval'[j].o = mApproval[j].o
                                       /\ mApproval'[j].hash = mApproval[j].hash
                                       /\ j # i => mApproval'[j] = mApproval[j]
    <2>1. PICK r : r = [mApproval[i] EXCEPT !.st = st]
      OBVIOUS
    <2>2. mApproval' = [mApproval EXCEPT ![i] = r]
      BY <1>2, <2>1
    <2>3. r \in Asked /\ r.st = st /\ r.o = mApproval[i].o /\ r.hash = mApproval[i].hash
      BY <1>3, <1>4, <2>1 DEF Asked
    <2>4. mApproval' \in Seq(Asked)
      BY <1>1, <2>2, <2>3, ExceptSeq, LenProperties
    <2> QED BY <2>2, <2>3, <2>4
  <1>6. mOp' = mOp \/ \E o \in Op : Created(o) /\ mOp[o].st = "PENDING_APPROVAL" /\ mOp' = [mOp EXCEPT ![o].st = st]
    <2>1. mApproval[i].o \in Op
      BY <1>3 DEF Asked
    <2> QED BY <2>1 DEF Gateway!DecideOperation, Gateway!DecideApproval, Gateway!Set, Created
  <1>7. /\ mOp' \in [Op -> Applied]
        /\ \A o \in Op : /\ mOp'[o].hash = mOp[o].hash /\ mOp'[o].app = mOp[o].app
                         /\ mOp'[o] = mOp[o] \/ (mOp[o].st = "PENDING_APPROVAL" /\ mOp'[o].st = st)
    <2>1. CASE mOp' = mOp
      BY <2>1 DEF GateInv, GateShape
    <2>2. CASE mOp' # mOp
      <3>1. PICK o \in Op : mOp[o].st = "PENDING_APPROVAL" /\ mOp' = [mOp EXCEPT ![o].st = st]
        BY <1>6, <2>2
      <3>2. mOp \in [Op -> Applied] /\ st \in Gateway!Status
        BY DEF GateInv, GateShape, Gateway!Status
      <3> QED BY <3>1, <3>2 DEF Applied
    <2> QED BY <2>1, <2>2
  <1>8. Grows
    BY <1>1, <1>2, <1>5, <1>7 DEF Grows, Created
  <1>9. GateShape'
    BY <1>2, <1>5, <1>7 DEF GateInv, GateShape
  <1>10. RowsOK'
    BY <1>2, <1>5, <1>7 DEF GateInv, RowsOK, Backs
  <1>11. MutationsOK'
    <2> SUFFICES ASSUME NEW q \in Op, mV4[q].st # "none"
                 PROVE Created(q)' /\ Authorised(q)' /\ mV4[q].payload = mOp'[q].hash
      BY <1>2 DEF GateInv, MutationsOK
    <2>1. Created(q) /\ Authorised(q) /\ mV4[q].payload = mOp[q].hash
      BY DEF GateInv, MutationsOK
    <2> QED BY <1>7, <1>8, <2>1, AuthorisedStays
  <1> QED BY <1>2, <1>8, <1>9, <1>10, <1>11, Remains

(* V4 moves a mutation through its table. *)
LEMMA V4Step ==
  ASSUME GateInv, NEW o \in Op, NEW st, Gateway!V4Moves(o, st)
  PROVE  GateInv'
  <1>1. /\ mV4[o].st \in {"ACCEPTED", "COMMITTED", "DEAD_LETTER"}
        /\ st \in {"COMMITTED", "REJECTED", "DEAD_LETTER", "ROLLED_BACK", "ACCEPTED"}
        /\ UNCHANGED <<mOp, mApproval, mAllowed, mAt>>
    BY DEF Gateway!V4Moves, Gateway!MutationNext
  <1>2. PICK b \in BOOLEAN : b = (mV4[o].stored \/ st = "COMMITTED")
    OBVIOUS
  <1>3. PICK m : m = [mV4[o] EXCEPT !.st = st, !.stored = b]
    OBVIOUS
  <1>4. mV4 \in [Op -> Mutation] /\ mV4[o] \in Mutation
    BY DEF GateInv, GateShape
  <1>5. mV4' = [mV4 EXCEPT ![o] = m]
    <2>1. mV4' = [mV4 EXCEPT ![o].st = st, ![o].stored = b]
      BY <1>2 DEF Gateway!V4Moves
    <2> QED BY <1>3, <1>4, <2>1
  <1>6. m \in Mutation /\ m.st = st /\ m.stored = b /\ m.payload = mV4[o].payload
    BY <1>1, <1>3, <1>4 DEF Mutation
  <1>7. /\ mV4' \in [Op -> Mutation] /\ mV4'[o] = m
        /\ \A q \in Op : q # o => mV4'[q] = mV4[q]
    BY <1>4, <1>5, <1>6
  <1>8. (mV4[o].stored => b) /\ (st = "COMMITTED" => b)
    BY <1>2
  <1>9. Grows
    BY <1>1, <1>6, <1>7, <1>8 DEF Grows, Created
  <1>10. GateShape'
    BY <1>1, <1>7 DEF GateInv, GateShape
  <1>11. RowsOK'
    BY <1>1, <1>6, <1>7, <1>8 DEF GateInv, RowsOK, Backs
  <1>12. MutationsOK'
    <2>1. ASSUME NEW q \in Op, mV4'[q].st # "none"
          PROVE  Created(q)' /\ Authorised(q)' /\ mV4'[q].payload = mOp'[q].hash
      <3>1. Created(q) /\ Authorised(q) /\ mV4[q].payload = mOp[q].hash
        BY <1>1, <1>7, <2>1 DEF GateInv, MutationsOK
      <3> QED BY <1>1, <1>6, <1>7, <1>9, <3>1, AuthorisedStays
    <2>2. ASSUME NEW q \in Op
          PROVE  /\ mV4'[q].st = "none" => mV4'[q] = Gateway!NoMutation
                 /\ mV4'[q].st = "COMMITTED" \/ (mV4'[q].st # "none" /\ q \in Forgetting) => mV4'[q].stored
      BY <1>1, <1>6, <1>7, <1>8 DEF GateInv, MutationsOK
    <2> QED BY <2>1, <2>2 DEF MutationsOK
  <1> QED BY <1>1, <1>9, <1>10, <1>11, <1>12, Remains

(* The gateway dies, and its tables stay. *)
LEMMA CrashStep ==
  ASSUME GateInv, Gateway!Crash PROVE GateInv'
  <1>1. UNCHANGED <<mOp, mApproval, mV4, mAllowed>> /\ mAt' = [a \in Gateway!Actor |-> Gateway!Idle]
    BY DEF Gateway!Crash
  <1>2. DOMAIN mAt' = DOMAIN mAt
    BY <1>1 DEF GateInv, GateShape
  <1>3. GateShape' /\ RowsOK' /\ MutationsOK'
    BY <1>1, <1>2, SameTables
  <1>4. \A a \in Gateway!Actor : Placed(mAt[a])'
    BY <1>1 DEF Placed, Gateway!Idle
  <1> QED BY <1>3, <1>4 DEF GateInv

(* Every step of the gateway keeps the invariant (Gateway, Next). *)
LEMMA GateStep ==
  ASSUME GateInv, [Gateway!Next]_(Gateway!vars) PROVE GateInv'
  <1>1. CASE Gateway!CoolDown \/ Gateway!Disable \/ (\E p \in Gateway!Effects : Gateway!ChangePolicy(p))
             \/ UNCHANGED Gateway!vars
    <2>1. UNCHANGED <<mOp, mApproval, mAt, mV4, mAllowed>>
      BY <1>1 DEF Gateway!CoolDown, Gateway!Disable, Gateway!ChangePolicy, Gateway!vars
    <2> QED BY <2>1, SameTables, Remains
  <1>2. ASSUME NEW a \in Gateway!Actor,
               Gateway!Enter(a) \/ Gateway!Answer(a) \/ Gateway!Write(a) \/ Gateway!Poll(a) \/ Gateway!Sync(a)
        PROVE GateInv'
    BY <1>2, EnterStep, AnswerStep, RecordStep
  <1>3. CASE Gateway!WriteAgain
    <2>1. Approver \in Gateway!Actor
      BY DEF Gateway!Actor
    <2> QED BY <1>3, <2>1, RecordStep
  <1>4. ASSUME NEW a \in Caller, NEW o \in Op, NEW p \in Payload, Gateway!Request(a, o, p) PROVE GateInv'
    BY <1>4, RequestStep, ComponentsAssumption
  <1> QED BY <1>1, <1>2, <1>3, <1>4, AskStep, LoopStep, DecisionStep, V4Step, CrashStep DEF Gateway!Next

(* V4 is asked to write only what the policy let through or an operator approved, with
   the payload that was approved, whatever repeats of the request, the approval loop and
   the operator's two ways to decide do in between (operations.py:251-385, 566-681,
   approval.py:21-132). *)
THEOREM WritesAuthorised == Spec => []WritesAreAuthorised
  <1>1. Init => GateInv
    BY GateInit DEF Init
  <1>2. GateInv /\ [Next]_vars => GateInv'
    BY Parted, GateStep
  <1>3. GateInv => WritesAreAuthorised
    BY DEF GateInv, MutationsOK, Authorised, Backs, WritesAreAuthorised, Gateway!WritesAreAuthorised
  <1> QED BY <1>1, <1>2, <1>3, PTL DEF Spec

(* An operation that reads COMMITTED was stored by V4: an admission alone, a lost answer
   or a poll that fails never makes it so (operations.py:653-740, 937-955). *)
THEOREM CommittedStoredAtV4 == Spec => []CommittedWasStored
  <1>1. Init => GateInv
    BY GateInit DEF Init
  <1>2. GateInv /\ [Next]_vars => GateInv'
    BY Parted, GateStep
  <1>3. GateInv => CommittedWasStored
    BY DEF GateInv, RowsOK, CommittedWasStored, Gateway!CommittedWasStored
  <1> QED BY <1>1, <1>2, <1>3, PTL DEF Spec
=============================================================================
