--------------------------- MODULE EntityIdentity ---------------------------
(***************************************************************************)
(* Canonical entities of one tenant and type: resolve_v4_entity creates    *)
(* them, gives them names and ontology identifiers, and redirects one to   *)
(* another when a request shows that both are the same.                    *)
(*                                                                         *)
(* An entity is created for a name or for an ontology identifier and is    *)
(* named by it here (identity_key); names are normalized.  A call is one   *)
(* transaction.  The cleanup of a rolled back or purged mutation forgets    *)
(* entities: their keys, and the entity itself if no assertion names it.   *)
(***************************************************************************)
EXTENDS Naturals, FiniteSets, SequencesExt

CONSTANTS Name, Uri, None,
          Rank,             \* order of the entity ids, which are hashes
          MaxAliases,       \* bound on the further names of a request
          MaxForgot         \* bound on cleanups

Entity == Name \cup Uri
VARIABLES called,      \* [Entity -> normalized_name], None before it exists
          redirect,    \* redirect_entity_id
          alias,       \* entity_aliases: owner of a name
          ext,         \* entity_external_ids: owner of an identifier
          forgot       \* how many entities were cleaned up
vars == <<called, redirect, alias, ext, forgot>>

Init == /\ called = [x \in Entity |-> None]
        /\ redirect = [x \in Entity |-> None]
        /\ alias = [n \in Name |-> None]
        /\ ext = [u \in Uri |-> None]
        /\ forgot = 0

Tables == [called |-> called, redirect |-> redirect, alias |-> alias, ext |-> ext]
Exists(x, t) == t.called[x] # None

\* _follow_v4_entity_redirect_in_tx; more than sixteen hops raise, which takes
\* more entities than the model has.
Follow(x, t) ==
    LET Hop(y) == IF t.redirect[y] = None THEN y ELSE t.redirect[y]
        hops[i \in 0..Cardinality(Entity)] == IF i = 0 THEN x ELSE Hop(hops[i-1])
    IN  hops[Cardinality(Entity)]

\* An ontology identity wins over a name, then the smaller id wins.
Outranks(x, y) == \/ x \in Uri /\ y \in Name
                  \/ (x \in Uri <=> y \in Uri) /\ Rank[x] < Rank[y]

Moved(owner, from, to) == [k \in DOMAIN owner |-> IF owner[k] = from THEN to ELSE owner[k]]
RedirectedOnly(from, to, t) == [t EXCEPT !.redirect[from] = to]
\* The winner takes over every alias and identifier of the duplicate.
Redirected(from, to, t) ==
    [t EXCEPT !.redirect[from] = to,
              !.alias = Moved(@, from, to),
              !.ext = Moved(@, from, to)]
\* _merge_v4_entity_rows_in_tx
Winner(x, y, t) == IF Outranks(Follow(x, t), Follow(y, t)) THEN Follow(x, t) ELSE Follow(y, t)
Merged(x, y, t) ==
    LET first == Follow(x, t)
        second == Follow(y, t)
    IN  IF first = second THEN t
        ELSE IF Outranks(first, second) THEN Redirected(second, first, t)
        ELSE Redirected(first, second, t)

-----------------------------------------------------------------------------
\* INSERT OR IGNORE of an entity for an identity.
Inserted(x, name, t) == IF Exists(x, t) THEN t ELSE [t EXCEPT !.called[x] = name]
NamedAlike(name, t) ==
    {x \in Entity : t.called[x] = name /\ t.redirect[x] = None}

\* The identifier, then the alias, then an active entity of that name, of which
\* the smallest id; otherwise the request's own identity.
Lookup(name, uri, t) ==
    IF uri # None /\ t.ext[uri] # None THEN t.ext[uri]
    ELSE IF t.alias[name] # None THEN t.alias[name]
    ELSE IF NamedAlike(name, t) # {}
    THEN CHOOSE x \in NamedAlike(name, t) : \A y \in NamedAlike(name, t) : Rank[x] <= Rank[y]
    ELSE IF uri # None THEN uri ELSE name

\* What the request works on: the tables and the entity found so far.
Found(name, uri, t) ==
    LET first == Lookup(name, uri, t)
        made == Inserted(first, name, t)
    IN  [t |-> made, x |-> Follow(first, made)]

\* A name-only entity gets the ontology identity it is asked for.
Upgraded(name, uri, s) ==
    IF uri = None \/ s.x \in Uri THEN s
    ELSE LET made == Inserted(uri, name, s.t)
         IN  [t |-> Merged(s.x, uri, made), x |-> Winner(s.x, uri, made)]

\* The owner of a key is merged with the entity before the key is stored.
MergedWithOwner(owner, s) ==
    IF owner \in {None, s.x} THEN s
    ELSE [t |-> Merged(s.x, owner, s.t), x |-> Winner(s.x, owner, s.t)]
WithAlias(s, n) ==
    LET m == MergedWithOwner(s.t.alias[n], s)
    IN  [m EXCEPT !.t.alias[n] = IF @ = None THEN m.x ELSE @]
WithExternal(s, uri) ==
    IF uri = None THEN s
    ELSE LET m == MergedWithOwner(s.t.ext[uri], s)
         IN  [m EXCEPT !.t.ext[uri] = IF @ = None THEN m.x ELSE @]

\* A redirect to an entity that was cleaned up raises.
Resolvable(name, uri) ==
    LET s == Found(name, uri, Tables)
    IN  /\ Exists(s.x, s.t)
        /\ uri # None /\ s.x \in Name =>
              LET t == Inserted(uri, name, s.t) IN Exists(Follow(uri, t), t)

\* resolve_v4_entity; the names of a request are a set, taken in any order.
Resolve(name, uri, order) ==
    LET start == Upgraded(name, uri, Found(name, uri, Tables))
        done == WithExternal(FoldLeft(WithAlias, start, order), uri)
    IN  /\ Resolvable(name, uri)
        /\ called' = done.t.called
        /\ redirect' = done.t.redirect
        /\ alias' = done.t.alias
        /\ ext' = done.t.ext
        /\ UNCHANGED forgot

Request == \E name \in Name, uri \in Uri \cup {None}, others \in SUBSET Name :
    /\ Cardinality(others) <= MaxAliases
    /\ \E order \in SetToSeqs({name} \cup others) : Resolve(name, uri, order)

\* The SQL cleanup of an entity; it keeps the row while an assertion names it.
Forget(x, asserted) ==
    /\ Exists(x, Tables) /\ forgot < MaxForgot
    /\ forgot' = forgot + 1
    /\ alias' = Moved(alias, x, None)
    /\ ext' = Moved(ext, x, None)
    /\ IF asserted THEN UNCHANGED <<called, redirect>>
       ELSE /\ called' = [called EXCEPT ![x] = None]
            /\ redirect' = [redirect EXCEPT ![x] = None]

Next == Request \/ \E x \in Entity, asserted \in BOOLEAN : Forget(x, asserted)
Spec == Init /\ [][Next]_vars

-----------------------------------------------------------------------------
TypeOK == /\ called \in [Entity -> Name \cup {None}]
          /\ redirect \in [Entity -> Entity \cup {None}]
          /\ alias \in [Name -> Entity \cup {None}]
          /\ ext \in [Uri -> Entity \cup {None}]

\* Whatever was merged or cleaned up, in whatever order, a name or identifier
\* never leads to a redirected or missing entity.  Until something is cleaned
\* up, live entities have different names and every redirect ends at one.
OneIdentity ==
    LET live == {x \in Entity : called[x] # None /\ redirect[x] = None}
    IN  /\ \A n \in Name : alias[n] \in live \cup {None}
        /\ \A u \in Uri : ext[u] \in live \cup {None}
        /\ forgot = 0 =>
             /\ \A x, y \in live : called[x] = called[y] => x = y
             /\ \A x \in Entity : called[x] # None => Follow(x, Tables) \in live
=============================================================================
