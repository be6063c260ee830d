----------------------------- MODULE Retrieval -----------------------------
(***************************************************************************)
(* search_v4_memory: one search after the other on a retained read-only    *)
(* connection whose temporary tables and rows are kept per scope while the *)
(* database does not change, or, with that cache disabled, a search on     *)
(* connections of its own, while others commit, purge and project.         *)
(*                                                                         *)
(* An assertion stands for its row, its mutation and its artifacts, which  *)
(* change in one transaction.  Every assertion matches every query by its  *)
(* words, the cited ones perhaps by their article only.  Scores, and with  *)
(* them the order of the candidates, are left out: a limit keeps any rows. *)
(* Queries that name a decision, or a statute without an article, are left *)
(* out.                                                                    *)
(***************************************************************************)
EXTENDS Naturals, SequencesExt

CONSTANTS
    Assertion, AgentOf, SubjectOf, ChunkOf,
    Cited,                    \* assertions of the articles a query names
    Earlier, Projected,       \* assertions committed and projected before
    Scope,                    \* what is searched: [agent, past]
    Path,                     \* sequences of assertions the graph can walk
    Limit,                    \* of a request: 1..50
    MaxExact,                 \* 3: rows of the articles named that come first
    Pool, Near,               \* min(1000, max(25 Limit, 100)) rows of a query by words
                              \* or identity, min(500, max(10 Limit, 50)) of vectors
    Best, MaxSeeds,           \* 8 of a lane give seeds, 20 seeds are walked from
    MaxCached,                \* 4 in search_v4_memory
    MaxEvents, MaxSearches, FaultLimit      \* bounds

VARIABLES mem, commits,       \* the database and its version
          vec, graph,         \* assertions in the stores of the projections
          cached,             \* search_scope_cache of the configuration
          conn,               \* the retained connection and its TEMP tables
          scopes, version, owner,      \* the cache, its data version and connection
          search,             \* the search under way
          made, done, faults  \* numbers of scopes, searches and faults so far
vars == <<mem, commits, vec, graph, cached, conn, scopes, version, owner, search,
          made, done, faults>>
cache == <<scopes, version, owner, made>>
world == <<mem, commits, vec, graph, cached>>

State == {"none", "active", "superseded", "gone"}
NoTables == [t \in {} |-> {}]
NoSearch == [step |-> "idle", key |-> 0, at |-> << >>, previous |-> {},
             artifacts |-> {}, rows |-> {}, exact |-> {}, typed |-> {}, near |-> {},
             matched |-> {}, cut |-> FALSE, proofs |-> {},
             result |-> {}, support |-> {}, always |-> {}, ever |-> {}]
Init == /\ mem = [a \in Assertion |-> IF a \in Earlier THEN "active" ELSE "none"]
        /\ commits = 0
        /\ vec = Projected /\ graph = Projected
        /\ cached \in BOOLEAN
        /\ conn = [id |-> 1, version |-> 0, tables |-> NoTables, before |-> NoTables]
        /\ scopes = << >> /\ version = 0 /\ owner = 0
        /\ search = NoSearch
        /\ made = 0 /\ done = 0 /\ faults = 0

Fault == faults < FaultLimit /\ faults' = faults + 1
At(step) == search.step = step
\* What a LIMIT of n may leave of the rows of a query.
Cut(rows, n) == {s \in SUBSET rows : Cardinality(s) = Min({n, Cardinality(rows)})}

-----------------------------------------------------------------------------
(* What a scope may see                                                    *)

\* The status of an assertion, a committed mutation and the agent; a question
\* about a time also sees what was replaced.
Eligible(m, k) == {a \in Assertion :
    /\ AgentOf[a] = k.agent
    /\ m[a] = "active" \/ (k.past /\ m[a] = "superseded")}
\* Registry rows of the agent: replaced assertions keep their artifacts.
Artifacts(m, k) == {a \in Assertion :
    AgentOf[a] = k.agent /\ m[a] \in {"active", "superseded"}}
Subjects(as) == {SubjectOf[a] : a \in as}
AllowedEntities == IF search.key.past
                   THEN Subjects(search.artifacts) \cap Subjects(search.rows)
                   ELSE Subjects(search.artifacts)

-----------------------------------------------------------------------------
(* The scope cache                                                         *)

Dropped(tables, ids) == [t \in DOMAIN tables \ ids |-> tables[t]]
Created(tables, id, rows) == [t \in DOMAIN tables \cup {id} |-> IF t = id THEN rows ELSE tables[t]]
TablesOf(list) == {list[i].table : i \in DOMAIN list}

\* The connection is opened once; a cache of another connection is useless.
Begin(k) ==
    /\ At("idle") /\ done < MaxSearches
    /\ done' = done + 1
    /\ IF cached /\ owner # conn.id
       THEN scopes' = << >> /\ version' = -1 /\ owner' = conn.id
       ELSE UNCHANGED <<scopes, version, owner>>
    /\ search' = [NoSearch EXCEPT !.step = IF cached THEN "begin" ELSE "artifacts",
                    !.key = k, !.previous = TablesOf(scopes'),
                    !.always = Eligible(mem, k), !.ever = Eligible(mem, k)]
    /\ conn' = [conn EXCEPT !.before = conn.tables]
    /\ UNCHANGED <<world, made, faults>>

\* The read that fixes what the transaction sees; then PRAGMA data_version.
Pin == /\ At("begin")
       /\ search' = [search EXCEPT !.step = "scope", !.at = mem]
       /\ conn' = [conn EXCEPT !.version = commits]
       /\ UNCHANGED <<world, cache, done, faults>>

ChangedAtFirst == version = -1
Changed == conn.version # version
FullLater(list) == Len(list) > MaxCached
Full(list) == Len(list) = MaxCached
\* _clear_search_scope_cache on a change, then the entry of the key: found and moved
\* to the end, or made, perhaps in the place of the one used longest ago.
UseScope ==
    LET kept == IF Changed THEN << >> ELSE scopes
        known == {i \in DOMAIN kept : kept[i].key = search.key}
        room == IF Full(kept) THEN Tail(kept) ELSE kept
        new == [key |-> search.key, table |-> made + 1, loaded |-> FALSE, built |-> FALSE,
                artifacts |-> {}, rows |-> {}]
    IN  /\ At("scope")
        /\ version' = conn.version
        /\ \/ \E i \in known : scopes' = Append(RemoveAt(kept, i), kept[i]) /\ made' = made
           \/ known = {} /\ scopes' = Append(room, new) /\ made' = made + 1
        /\ conn' = [conn EXCEPT !.tables = Dropped(@, TablesOf(scopes) \ TablesOf(scopes'))]
        /\ search' = [search EXCEPT !.step = "artifacts"]
        /\ UNCHANGED <<world, owner, done, faults>>

Mine == Last(scopes)
Keep(scope) == scopes' = [scopes EXCEPT ![Len(scopes)] = scope]
\* What a query reads now: the transaction's snapshot, or the last commit.
Seen == IF cached THEN search.at ELSE mem

-----------------------------------------------------------------------------
(* _search_v4_memory_uncached                                              *)

LoadArtifacts ==
    /\ At("artifacts")
    /\ search' = [search EXCEPT !.step = "rows",
         !.artifacts = IF cached /\ Mine.loaded THEN Mine.artifacts ELSE Artifacts(Seen, search.key)]
    /\ UNCHANGED <<world, conn, cache, done, faults>>
LoadRows ==
    LET rows == IF cached /\ Mine.loaded THEN Mine.rows ELSE Eligible(Seen, search.key)
    IN  /\ At("rows")
        /\ search' = [search EXCEPT !.step = "cite", !.rows = rows]
        /\ IF cached
           THEN Keep([Mine EXCEPT !.loaded = TRUE, !.rows = rows, !.artifacts = search.artifacts])
           ELSE UNCHANGED scopes
        /\ UNCHANGED <<world, conn, version, owner, made, done, faults>>

\* Authorised rows of the cited articles that will answer first: one of a chunk, until
\* there are MaxExact.
Picks(rows) == {s \in SUBSET rows :
    /\ \A a, b \in s : ChunkOf[a] = ChunkOf[b] => a = b
    /\ \/ Cardinality(s) = MaxExact
       \/ Cardinality(s) < MaxExact /\ \A a \in rows : \E b \in s : ChunkOf[b] = ChunkOf[a]}
\* What the index of legal identities finds now.
Identified == Eligible(Seen, search.key) \cap Cited
\* typed_legal_candidate_ids: the first of them and the exact ones.
Cite == /\ At("cite")
        /\ \E exact \in Picks(search.rows \cap Cited), typed \in Cut(Identified, Pool) :
              search' = [search EXCEPT !.step = "vector", !.exact = exact,
                           !.typed = typed \cup exact, !.cut = typed # Identified]
        /\ UNCHANGED <<world, conn, cache, done, faults>>

Allowed(as) == {a \in as : SubjectOf[a] \in AllowedEntities}
\* There is nothing to search in.
Nothing == search.rows = {} /\ AllowedEntities = {}
\* allowed_vector_ids: registered, of the embedding in use, and in scope.
Searchable == search.artifacts \cap search.rows
\* The nearest of those that exist, or nothing without an embedding; their rows are
\* read again and must still be there.
VectorLane ==
    /\ At("vector") /\ ~Nothing
    /\ \E hits \in Cut(Searchable \cap vec, Near) \cup {{}} :
          search' = [search EXCEPT !.step = "lexical",
                       !.near = Allowed({a \in hits : Seen[a] \notin {"none", "gone"}})]
    /\ UNCHANGED <<world, conn, cache, done, faults>>

\* The index of the scope is made of its rows, once.
IndexRows == IF cached /\ Mine.built THEN conn.tables[Mine.table]
             ELSE Eligible(Seen, search.key)
\* Its hits are joined with the assertions and checked again, then limited.
Hits(words) == IndexRows \cap words \cap Eligible(Seen, search.key)
Passages(words) == Cut(Hits(words), Pool)
\* in_scope_assertions has no row for a cited assertion the index did not find.
Unknown(passages) == ~(search.typed \ passages \subseteq search.rows)
\* Passages and typed rows make one pool; the assertion lane is the best of it.
LexicalLane(words) ==
    LET build == ~cached \/ ~Mine.built
    IN  /\ At("lexical")
        /\ \E passages \in Passages(words) :
              /\ ~Unknown(passages)
              /\ search' = [search EXCEPT !.step = "graph", !.typed = {},
                              !.matched = Allowed(passages \cup search.typed),
                              !.cut = @ \/ passages # Hits(words)]
        /\ IF cached /\ build
           THEN /\ conn' = [conn EXCEPT !.tables = Created(@, Mine.table, IndexRows)]
                /\ Keep([Mine EXCEPT !.built = TRUE])
           ELSE UNCHANGED <<conn, scopes>>
        /\ UNCHANGED <<world, version, owner, made, done, faults>>

\* The walk starts at the entities of the best of both lanes and at those the words of
\* the query name, the best of them.
Seeds == UNION {Cut((Subjects(v \cup l) \cap AllowedEntities) \cup named, MaxSeeds) :
                  v \in Cut(search.near, Best), l \in Cut(search.matched, Best),
                  named \in SUBSET AllowedEntities}
\* A path is taken whole or not at all.
Proofs(seeds) == {p \in Path : /\ Range(p) \subseteq graph \cap search.rows
                               /\ Subjects(Range(p)) \subseteq AllowedEntities
                               /\ SubjectOf[Head(p)] \in seeds}
\* search_v4_graph, module GraphWalk, leaves out what its own limits cut.
GraphLane ==
    /\ At("graph")
    /\ \E seeds \in Seeds : \E proofs \in SUBSET Proofs(seeds) :
          search' = [search EXCEPT !.step = "fuse", !.proofs = proofs]
    /\ UNCHANGED <<world, conn, cache, done, faults>>

\* rrf_fuse_lanes: whatever one of the lanes has.  The last assertion of a path is its
\* candidate, the others support it; the exact ones close the assertion lane.
Fused == search.near \cup search.matched \cup {Last(p) : p \in search.proofs} \cup search.exact
\* The exact ones first, then by score and legal factor, up to the limit.
Ranked == {r \in Cut(Fused, Limit) : search.exact \subseteq r \/ r \subseteq search.exact}
Support(r) == UNION {Range(p) : p \in {q \in search.proofs : Last(q) \in r}} \ r
\* Candidates with their provenance, after the commit of the temporary tables; no lane
\* is asked when there is nothing to search in.
Answers == At("fuse") \/ (At("vector") /\ Nothing)
Answer ==
    /\ Answers
    /\ \E r \in Ranked :
          search' = [NoSearch EXCEPT !.result = r, !.support = Support(r) \cap search.rows]
    /\ conn' = [conn EXCEPT !.before = NoTables]
    /\ UNCHANGED <<world, cache, done, faults>>

AfterRollbackOfScopes == Dropped(conn.before, TablesOf(scopes))
\* previous_tables and the clearing of the cache.
AfterRollback == Dropped(conn.before, search.previous \cup TablesOf(scopes))
\* The rollback brings tables dropped by this search back, so the ones there
\* before it go as well.
GiveUp ==
    /\ search' = NoSearch
    /\ IF cached
       THEN /\ scopes' = << >> /\ version' = -1
            /\ conn' = [conn EXCEPT !.tables = AfterRollback, !.before = NoTables]
       ELSE UNCHANGED <<scopes, version, conn>>
    /\ UNCHANGED <<world, owner, made, done>>
\* An error of an engine or a cancellation anywhere.
Fail == ~At("idle") /\ Fault /\ GiveUp
\* The KeyError of an unknown assertion.
Abort(words) == /\ At("lexical") /\ \E passages \in Passages(words) : Unknown(passages)
                /\ GiveUp /\ UNCHANGED faults

-----------------------------------------------------------------------------
(* The rest of the system                                                  *)

\* The bound: commits, and projections that are not as they were.
Stirred == commits + Cardinality(SymDiff(vec, Projected)) + Cardinality(SymDiff(graph, Projected))
MayBecome(old, new) == \/ old = "none" /\ new = "active"
                       \/ old = "active" /\ new \in {"superseded", "gone"}
                       \/ old = "superseded" /\ new \in {"active", "gone"}
\* Any commit on another connection; what the search is measured against.
Commit(a, st) ==
    /\ Stirred < MaxEvents /\ MayBecome(mem[a], st)
    /\ mem' = [mem EXCEPT ![a] = st]
    /\ commits' = commits + 1
    /\ search' = IF At("idle") THEN search
                 ELSE [search EXCEPT !.always = @ \cap Eligible(mem', search.key),
                                     !.ever = @ \cup Eligible(mem', search.key)]
    /\ UNCHANGED <<vec, graph, cached, conn, cache, done, faults>>
\* The projections are made before the commit, and lost and removed in their own time.
Project(a) ==
    /\ \/ vec' = (vec \ {a}) \cup ({a} \ vec) /\ UNCHANGED graph
       \/ graph' = (graph \ {a}) \cup ({a} \ graph) /\ UNCHANGED vec
    /\ UNCHANGED <<mem, commits, cached, conn, cache, search, done, faults>>
    /\ Stirred' <= MaxEvents
\* The engine is closed and opened again under the same facade.
Reopen ==
    /\ At("idle") /\ Fault
    /\ conn' = [id |-> conn.id + 1, version |-> 0, tables |-> NoTables, before |-> NoTables]
    /\ UNCHANGED <<world, cache, search, done>>

Search == \/ \E k \in Scope : Begin(k)
          \/ Pin \/ UseScope \/ LoadArtifacts \/ LoadRows \/ Cite \/ VectorLane
          \/ \E words \in {Assertion, Assertion \ Cited} : LexicalLane(words) \/ Abort(words)
          \/ GraphLane \/ Answer
Next == \/ Search \/ Fail \/ Reopen
        \/ \E a \in Assertion : Project(a) \/ \E st \in State : Commit(a, st)
Spec == Init /\ [][Next]_vars

-----------------------------------------------------------------------------
TypeOK == /\ mem \in [Assertion -> State]
          /\ vec \subseteq Assertion /\ graph \subseteq Assertion
          /\ Len(scopes) <= MaxCached
          /\ search.rows \subseteq Assertion /\ search.result \subseteq Assertion

\* Whatever is committed, projected, evicted or cancelled before and meanwhile, a
\* search cites nothing its scope did not have at some moment of the search.  An answer
\* that is not full has everything the scope had all the time, unless, without the
\* cache, a limit made room for rows that went; and it names each chunk of the cited
\* articles there was all the time, or has its share of cited rows.  With the cache a
\* search ends in an answer unless an engine fails.
AnswersAreFresh == [][~At("idle") /\ search'.step = "idle" /\ faults' = faults /\ (cached \/ Answers) =>
    /\ Answers
    /\ search'.result \cup search'.support \subseteq search.ever
    /\ \/ search.always \subseteq search'.result \/ Cardinality(search'.result) = Limit
       \/ ~cached /\ search.cut
    /\ \/ \A a \in search.always \cap Cited :
             \E b \in search'.result \cap Cited : ChunkOf[b] = ChunkOf[a]
       \/ Cardinality(search'.result \cap Cited) >= Min({MaxExact, Limit})]_vars

\* Between two searches every temporary index belongs to a retained scope, and a
\* retained index exists: no eviction, error or cancellation leaks or loses one.
TablesMatchScopes == At("idle") /\ owner = conn.id =>
    DOMAIN conn.tables = {scopes[i].table : i \in {j \in DOMAIN scopes : scopes[j].built}}
=============================================================================
