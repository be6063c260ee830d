-------------------------- MODULE RetrievalProofs --------------------------
(***************************************************************************)
(* What is proved of a search and its retained scopes, kept by Retrieval   *)
(* in Components: no temporary index is leaked or lost, and an answer is   *)
(* of the catalog the search saw.  RetrievalInv follows the indexes,       *)
(* FreshInv what the scopes and the lanes of a search hold.                *)
(***************************************************************************)
EXTENDS Components, TLAPS, FiniteSetTheorems, SequenceTheorems

-----------------------------------------------------------------------------
(* Scopes, their indexes and the connection they live on.                  *)

\* A retained scope, and the fields of a search.
ScopeRow == [key: SearchScope, table: Nat, loaded: BOOLEAN, built: BOOLEAN,
             artifacts: SUBSET Assertion, rows: SUBSET Assertion]
SearchFields == {"step", "key", "at", "previous", "artifacts", "rows", "exact", "typed", "near",
                 "matched", "cut", "proofs", "result", "support", "always", "ever"}
Early == {"idle", "begin", "scope"}
SearchShape ==
    /\ DOMAIN rSearch = SearchFields
    /\ rSearch.step # "idle" => rSearch.key \in SearchScope
    /\ rSearch.artifacts \subseteq Assertion /\ rSearch.rows \subseteq Assertion
ConnShape == /\ DOMAIN rConn = {"id", "version", "tables", "before"}
             /\ rConn.id \in Nat /\ rOwner \in Nat /\ rOwner <= rConn.id
ScopesShape ==
    /\ rScopes \in Seq(ScopeRow) /\ rMade \in Nat /\ rCached \in BOOLEAN
    /\ \A i \in 1..Len(rScopes) : rScopes[i].table <= rMade
    /\ \A i, j \in 1..Len(rScopes) : rScopes[i].table = rScopes[j].table => i = j
\* The indexes there should be: those built, on the connection of the cache alone.
BuiltTables(list) == {list[i].table : i \in {j \in DOMAIN list : list[j].built}}
OwnTables == IF rOwner = rConn.id THEN DOMAIN rConn.tables = BuiltTables(rScopes)
             ELSE DOMAIN rConn.tables = {}
\* While a search runs the cache is of its connection, and the tables of before it are
\* the ones it remembers.
Searching ==
    /\ rCached /\ rSearch.step # "idle" =>
          /\ rOwner = rConn.id /\ DOMAIN rConn.before \subseteq rSearch.previous
          /\ rSearch.step \notin Early => rScopes # << >>
    /\ ~rCached => rOwner < rConn.id
RetrievalInv == SearchShape /\ ConnShape /\ ScopesShape /\ OwnTables /\ Searching

(* A step of the composition is a step of the search and its surroundings, or none of theirs. *)
LEMMA RetrievalParted == ASSUME [Next]_vars PROVE [Retrieval!Next]_(Retrieval!vars)
  BY SMTT(60) DEF Next, vars, queue, admission, identity, wal, legacy, retrieval, tables, store,
          walk, gateway, letters, root, migration, NextQueue, NextAdmission, NextIdentity,
          NextWal, NextLegacy, NextRetrieval, NextTables, NextStore, NextWalk, NextGateway,
          NextLetters, NextRoot, NextMigration, StillQueue, StillAdmission, StillIdentity,
          StillWal, StillLegacy, StillRetrieval, StillTables, StillStore, StillWalk,
          StillGateway, StillLetters, StillRoot, StillMigration, Retrieval!vars

(* A search that moves on: same key, same tables to drop. *)
GoesOn == /\ SearchShape' /\ rSearch'.key = rSearch.key /\ rSearch'.previous = rSearch.previous
          /\ rSearch'.step # "idle"

(* Steps that touch neither the cache nor the connection. *)
LEMMA QuietSearchKeeps ==
  ASSUME RetrievalInv, UNCHANGED <<rScopes, rOwner, rMade, rConn, rCached>>, GoesOn,
         rSearch.step # "idle", rSearch'.step \in Early => rSearch.step \in Early,
         rSearch.step \in Early => rSearch'.step \in Early
  PROVE  RetrievalInv'
  BY DEF RetrievalInv, ConnShape, ScopesShape, OwnTables, Searching, GoesOn, BuiltTables

(* Scopes hold assertions (dao.py:5991-6085). *)
LEMMA EligibleIn == ASSUME NEW m, NEW k PROVE Retrieval!Eligible(m, k) \subseteq Assertion
  BY DEF Retrieval!Eligible

(* Registered artifacts are of assertions (dao.py:6036-6056). *)
LEMMA ArtifactsIn == ASSUME NEW m, NEW k PROVE Retrieval!Artifacts(m, k) \subseteq Assertion
  BY DEF Retrieval!Artifacts

(* A search that reads with the cache has a scope of its own, the last one (dao.py:5886-5899). *)
LEMMA MineIsRow == ASSUME RetrievalInv, rCached, rSearch.step \notin Early
  PROVE /\ Retrieval!Mine \in ScopeRow /\ Len(rScopes) \in Nat \ {0}
        /\ Retrieval!Mine = rScopes[Len(rScopes)]
  BY DEF RetrievalInv, ScopesShape, Searching, Early, Retrieval!Mine, Retrieval!Last

QuietStep == \/ Retrieval!LoadArtifacts \/ Retrieval!Cite \/ Retrieval!VectorLane
             \/ Retrieval!GraphLane

(* Four lanes leave the cache and its connection alone. *)
LEMMA QuietSteps == ASSUME RetrievalInv, QuietStep PROVE RetrievalInv'
  <1>1. CASE Retrieval!LoadArtifacts
    <2> DEFINE as == IF rCached /\ Retrieval!Mine.loaded THEN Retrieval!Mine.artifacts
                     ELSE Retrieval!Artifacts(Retrieval!Seen, rSearch.key)
    <2>1. as \subseteq Assertion
      <3>1. CASE rCached /\ Retrieval!Mine.loaded
        BY <1>1, <3>1, MineIsRow DEF Retrieval!LoadArtifacts, Retrieval!At, Early, ScopeRow
      <3>2. CASE ~(rCached /\ Retrieval!Mine.loaded)
        BY <3>2, ArtifactsIn
      <3> QED BY <3>1, <3>2
    <2>2. GoesOn /\ rSearch'.step = "rows"
      BY <1>1, <2>1 DEF Retrieval!LoadArtifacts, RetrievalInv, SearchShape, SearchFields,
         Retrieval!At, GoesOn
    <2> QED BY <1>1, <2>2, QuietSearchKeeps DEF Retrieval!LoadArtifacts, Retrieval!At, Early,
         Retrieval!world, Retrieval!cache
  <1>2. CASE Retrieval!Cite
    <2>2. GoesOn /\ rSearch'.step = "vector"
      BY <1>2 DEF Retrieval!Cite, RetrievalInv, SearchShape, SearchFields, Retrieval!At, GoesOn
    <2> QED BY <1>2, <2>2, QuietSearchKeeps DEF Retrieval!Cite, Retrieval!At, Early,
         Retrieval!world, Retrieval!cache
  <1>3. CASE Retrieval!VectorLane
    <2>2. GoesOn /\ rSearch'.step = "lexical"
      BY <1>3 DEF Retrieval!VectorLane, RetrievalInv, SearchShape, SearchFields, Retrieval!At,
         GoesOn
    <2> QED BY <1>3, <2>2, QuietSearchKeeps DEF Retrieval!VectorLane, Retrieval!At, Early,
         Retrieval!world, Retrieval!cache
  <1>4. CASE Retrieval!GraphLane
    <2>2. GoesOn /\ rSearch'.step = "fuse"
      BY <1>4 DEF Retrieval!GraphLane, RetrievalInv, SearchShape, SearchFields, Retrieval!At, GoesOn
    <2> QED BY <1>4, <2>2, QuietSearchKeeps DEF Retrieval!GraphLane, Retrieval!At, Early,
         Retrieval!world, Retrieval!cache
  <1> QED BY <1>1, <1>2, <1>3, <1>4 DEF QuietStep

(* The environment: nothing of the cache moves. *)
LEMMA OthersKeep ==
  ASSUME RetrievalInv,
         \/ \E a \in Assertion : \/ Retrieval!Project(a)
                                 \/ \E st \in Retrieval!State : Retrieval!Commit(a, st)
  PROVE  RetrievalInv'
  <1>1. UNCHANGED <<rScopes, rOwner, rMade, rConn, rCached>>
    BY DEF Retrieval!Project, Retrieval!Commit, Retrieval!cache
  <1>2. /\ rSearch'.step = rSearch.step /\ rSearch'.key = rSearch.key
        /\ rSearch'.previous = rSearch.previous /\ SearchShape'
    BY ZenonT(60) DEF Retrieval!Project, Retrieval!Commit, RetrievalInv, SearchShape, SearchFields
  <1> QED BY <1>1, <1>2 DEF RetrievalInv, ConnShape, ScopesShape, OwnTables, Searching, BuiltTables

(* The read that fixes the snapshot (dao.py:5866-5876). *)
LEMMA PinKeeps == ASSUME RetrievalInv, Retrieval!Pin PROVE RetrievalInv'
  <1>1. SearchShape' /\ rSearch'.step = "scope" /\ rSearch'.previous = rSearch.previous
    BY DEF Retrieval!Pin, RetrievalInv, SearchShape, SearchFields, Retrieval!At
  <1>2. /\ ConnShape' /\ rConn'.id = rConn.id /\ rConn'.tables = rConn.tables
        /\ rConn'.before = rConn.before
    BY DEF Retrieval!Pin, RetrievalInv, ConnShape, Retrieval!cache
  <1> QED BY <1>1, <1>2 DEF Retrieval!Pin, Retrieval!cache, Retrieval!world, RetrievalInv,
        ScopesShape, OwnTables, Searching, BuiltTables, Early, Retrieval!At

(* An empty cache has no indexes. *)
LEMMA NoScopes == ASSUME rScopes' = << >>, rMade' \in Nat, rCached' \in BOOLEAN
  PROVE ScopesShape' /\ BuiltTables(rScopes') = {}
  BY DEF ScopesShape, BuiltTables

(* An index belongs to its scope. *)
LEMMA TablesOfList ==
  ASSUME NEW list PROVE BuiltTables(list) \subseteq Retrieval!TablesOf(list)
  BY DEF BuiltTables, Retrieval!TablesOf

(* A search remembers the tables there before it, of its own connection only (dao.py:5856-5863). *)
LEMMA BeginKeeps ==
  ASSUME RetrievalInv, NEW k \in SearchScope, Retrieval!Begin(k)
  PROVE  RetrievalInv'
  <1>1. /\ SearchShape' /\ rSearch'.previous = Retrieval!TablesOf(rScopes')
        /\ rSearch'.step = IF rCached THEN "begin" ELSE "artifacts"
    BY DEF Retrieval!Begin, Retrieval!NoSearch, SearchShape, SearchFields
  <1>2. /\ DOMAIN rConn' = DOMAIN rConn /\ rConn'.id = rConn.id /\ rConn'.tables = rConn.tables
        /\ rConn'.before = rConn.tables
    BY DEF Retrieval!Begin, RetrievalInv, ConnShape
  <1>3. UNCHANGED <<rMade, rCached>>
    BY DEF Retrieval!Begin, Retrieval!world
  <1>4. CASE rCached /\ rOwner # rConn.id
    <2>1. rScopes' = << >> /\ rOwner' = rConn.id
      BY <1>4 DEF Retrieval!Begin
    <2>2. ScopesShape' /\ BuiltTables(rScopes') = {}
      BY <2>1, <1>3, NoScopes DEF RetrievalInv, ScopesShape
    <2>3. DOMAIN rConn.tables = {}
      BY <1>4 DEF RetrievalInv, OwnTables
    <2>4. ConnShape' /\ OwnTables'
      BY <1>2, <2>1, <2>2, <2>3 DEF RetrievalInv, ConnShape, OwnTables
    <2>5. Searching'
      BY <1>1, <1>2, <1>3, <1>4, <2>1, <2>3 DEF Searching, Early
    <2> QED BY <1>1, <2>2, <2>4, <2>5 DEF RetrievalInv
  <1>5. CASE ~(rCached /\ rOwner # rConn.id)
    <2>1. UNCHANGED <<rScopes, rOwner>>
      BY <1>5 DEF Retrieval!Begin
    <2>2. ScopesShape'
      BY <2>1, <1>3 DEF RetrievalInv, ScopesShape
    <2> QED BY <1>1, <1>2, <1>3, <1>5, <2>1, <2>2, TablesOfList DEF RetrievalInv, ConnShape,
               OwnTables,
          Searching, Early
  <1> QED BY <1>4, <1>5

(* What a rollback brings back was there when the search began, so dropping those tables leaves
   none (dao.py:5904-5911). *)
LEMMA GiveUpKeeps ==
  ASSUME RetrievalInv, Retrieval!GiveUp, rSearch.step # "idle" PROVE RetrievalInv'
  <1>1. SearchShape' /\ rSearch'.step = "idle"
    BY DEF Retrieval!GiveUp, Retrieval!NoSearch, SearchShape, SearchFields
  <1>2. UNCHANGED <<rMade, rCached, rOwner>>
    BY DEF Retrieval!GiveUp, Retrieval!world
  <1>3. CASE rCached
    <2>1. rScopes' = << >>
      BY <1>3 DEF Retrieval!GiveUp
    <2>2. /\ DOMAIN rConn' = DOMAIN rConn /\ rConn'.id = rConn.id
          /\ rConn'.tables = Retrieval!AfterRollback
      BY <1>3 DEF Retrieval!GiveUp, RetrievalInv, ConnShape
    <2>3. DOMAIN rConn'.tables = {}
      BY <1>3, <2>2 DEF Retrieval!AfterRollback, Retrieval!Dropped, RetrievalInv, Searching
    <2>4. ScopesShape' /\ BuiltTables(rScopes') = {}
      BY <2>1, <1>2, NoScopes DEF RetrievalInv, ScopesShape
    <2> QED BY <1>1, <1>2, <1>3, <2>2, <2>3, <2>4 DEF RetrievalInv, ConnShape, OwnTables, Searching
  <1>4. CASE ~rCached
    <2>1. UNCHANGED <<rScopes, rConn>>
      BY <1>4 DEF Retrieval!GiveUp
    <2> QED BY <1>1, <1>2, <1>4, <2>1 DEF RetrievalInv, ConnShape, OwnTables, Searching,
               ScopesShape,
          BuiltTables
  <1> QED BY <1>3, <1>4

(* The commit of a search keeps its scopes and their indexes (dao.py:5903). *)
LEMMA AnswerKeeps == ASSUME RetrievalInv, Retrieval!Answer PROVE RetrievalInv'
  <1>1. SearchShape' /\ rSearch'.step = "idle"
    BY DEF Retrieval!Answer, Retrieval!NoSearch, SearchShape, SearchFields
  <1>2. DOMAIN rConn' = DOMAIN rConn /\ rConn'.id = rConn.id /\ rConn'.tables = rConn.tables
    BY DEF Retrieval!Answer, RetrievalInv, ConnShape
  <1> QED BY <1>1, <1>2 DEF Retrieval!Answer, Retrieval!cache, Retrieval!world, RetrievalInv,
        ConnShape, ScopesShape, OwnTables, Searching, BuiltTables

(* A connection opened anew has no temporary tables and another identity (sqlite_engine.py:382). *)
LEMMA ReopenKeeps == ASSUME RetrievalInv, Retrieval!Reopen PROVE RetrievalInv'
  <1>1. DOMAIN rConn' = DOMAIN rConn /\ rConn'.id = rConn.id + 1 /\ DOMAIN rConn'.tables = {}
    BY DEF Retrieval!Reopen, RetrievalInv, ConnShape, Retrieval!NoTables
  <1> QED BY <1>1 DEF Retrieval!Reopen, Retrieval!cache, Retrieval!world, RetrievalInv, SearchShape,
        ConnShape, ScopesShape, OwnTables, Searching, BuiltTables, Retrieval!At

(* The last scope, rewritten in place. *)
LEMMA KeepMoves ==
  ASSUME RetrievalInv, rCached, rSearch.step \notin Early, NEW row \in ScopeRow,
         row.table = Retrieval!Mine.table, Retrieval!Keep(row), UNCHANGED <<rMade, rCached>>
  PROVE  /\ ScopesShape' /\ rScopes' # << >>
         /\ row.built = Retrieval!Mine.built => BuiltTables(rScopes') = BuiltTables(rScopes)
         /\ row.built => BuiltTables(rScopes') = BuiltTables(rScopes) \cup {row.table}
  <1> DEFINE n == Len(rScopes)
  <1>1. n \in 1..Len(rScopes) /\ Retrieval!Mine = rScopes[n] /\ rScopes \in Seq(ScopeRow)
    BY MineIsRow DEF RetrievalInv, ScopesShape
  <1>2. rScopes' = [rScopes EXCEPT ![n] = row]
    BY DEF Retrieval!Keep
  <1>3. /\ rScopes' \in Seq(ScopeRow) /\ Len(rScopes') = Len(rScopes)
        /\ \A i \in 1..Len(rScopes) : rScopes'[i] = IF i = n THEN row ELSE rScopes[i]
    BY <1>1, <1>2
  <1>4. \A i \in 1..Len(rScopes) : rScopes'[i].table = rScopes[i].table
    BY <1>1, <1>3
  <1>5. ScopesShape' /\ rScopes' # << >>
    BY <1>1, <1>3, <1>4 DEF RetrievalInv, ScopesShape
  <1>6. DOMAIN rScopes = 1..Len(rScopes) /\ DOMAIN rScopes' = 1..Len(rScopes)
    BY SMTT(60), <1>1, <1>3
  <1>7. ASSUME row.built = Retrieval!Mine.built PROVE BuiltTables(rScopes') = BuiltTables(rScopes)
    BY ZenonT(60), <1>1, <1>3, <1>4, <1>6, <1>7 DEF BuiltTables
  <1>8. ASSUME row.built PROVE BuiltTables(rScopes') = BuiltTables(rScopes) \cup {row.table}
    <2>1. BuiltTables(rScopes') \subseteq BuiltTables(rScopes) \cup {row.table}
      BY ZenonT(60), <1>3, <1>4, <1>6 DEF BuiltTables
    <2>2. row.table \in BuiltTables(rScopes')
      <3>1. rScopes'[n].built /\ rScopes'[n].table = row.table /\ n \in DOMAIN rScopes'
        BY <1>1, <1>3, <1>6, <1>8
      <3> QED BY <3>1 DEF BuiltTables
    <2>3. BuiltTables(rScopes) \subseteq BuiltTables(rScopes')
      <3>1. SUFFICES ASSUME NEW i \in DOMAIN rScopes, rScopes[i].built
                     PROVE  rScopes[i].table \in BuiltTables(rScopes')
        BY SMTT(60) DEF BuiltTables
      <3>2. rScopes'[i].built /\ rScopes'[i].table = rScopes[i].table /\ i \in DOMAIN rScopes'
        BY ZenonT(60), <1>3, <1>4, <1>6, <1>8, <3>1
      <3> QED BY <3>2 DEF BuiltTables
    <2> QED BY <2>1, <2>2, <2>3
  <1> QED BY <1>5, <1>7, <1>8

(* A scope is filled in place (dao.py:6060-6083). *)
LEMMA LoadRowsKeeps == ASSUME RetrievalInv, Retrieval!LoadRows PROVE RetrievalInv'
  <1> DEFINE rows == IF rCached /\ Retrieval!Mine.loaded THEN Retrieval!Mine.rows
                     ELSE Retrieval!Eligible(Retrieval!Seen, rSearch.key)
  <1>0. rSearch.step = "rows" /\ rSearch.step \notin Early
    BY DEF Retrieval!LoadRows, Retrieval!At, Early
  <1>1. rows \subseteq Assertion
    <2>1. CASE rCached /\ Retrieval!Mine.loaded
      BY <1>0, <2>1, MineIsRow DEF ScopeRow
    <2>2. CASE ~(rCached /\ Retrieval!Mine.loaded)
      BY <2>2, EligibleIn
    <2> QED BY <2>1, <2>2
  <1>2. GoesOn /\ rSearch'.step = "cite"
    BY <1>0, <1>1 DEF Retrieval!LoadRows, RetrievalInv, SearchShape, SearchFields, GoesOn
  <1>3. UNCHANGED <<rConn, rMade, rCached, rOwner>>
    BY DEF Retrieval!LoadRows, Retrieval!world
  <1>4. CASE rCached
    <2> DEFINE row == [Retrieval!Mine EXCEPT !.loaded = TRUE, !.rows = rows,
                                               !.artifacts = rSearch.artifacts]
    <2>1. Retrieval!Mine \in ScopeRow
      BY <1>0, <1>4, MineIsRow
    <2>2. row \in ScopeRow /\ row.table = Retrieval!Mine.table /\ row.built = Retrieval!Mine.built
      BY <1>1, <2>1 DEF ScopeRow, RetrievalInv, SearchShape
    <2>3. Retrieval!Keep(row)
      BY <1>4 DEF Retrieval!LoadRows
    <2> HIDE DEF row
    <2>4. ScopesShape' /\ rScopes' # << >> /\ BuiltTables(rScopes') = BuiltTables(rScopes)
      BY <1>0, <1>3, <1>4, <2>2, <2>3, KeepMoves
    <2> QED BY <1>0, <1>2, <1>3, <1>4, <2>4 DEF RetrievalInv, ConnShape, OwnTables, Searching,
               GoesOn
  <1>5. CASE ~rCached
    <2>1. rScopes' = rScopes
      BY <1>5 DEF Retrieval!LoadRows
    <2> QED BY <1>0, <1>2, <1>3, <2>1, QuietSearchKeeps DEF Early
  <1> QED BY <1>4, <1>5 DEF RetrievalInv, ScopesShape

(* A scope gets its index once (dao.py:6742-6790). *)
LEMMA LexicalKeeps ==
  ASSUME RetrievalInv, NEW words, Retrieval!LexicalLane(words) PROVE RetrievalInv'
  <1>0. rSearch.step = "lexical" /\ rSearch.step \notin Early
    BY DEF Retrieval!LexicalLane, Retrieval!At, Early
  <1>2. GoesOn /\ rSearch'.step = "graph"
    BY <1>0 DEF Retrieval!LexicalLane, RetrievalInv, SearchShape, SearchFields, GoesOn
  <1>3. UNCHANGED <<rMade, rCached, rOwner>>
    BY DEF Retrieval!LexicalLane, Retrieval!world
  <1>4. CASE rCached /\ ~Retrieval!Mine.built
    <2> DEFINE row == [Retrieval!Mine EXCEPT !.built = TRUE]
               id == Retrieval!Mine.table
    <2>1. Retrieval!Mine \in ScopeRow
      BY <1>0, <1>4, MineIsRow
    <2>2. row \in ScopeRow /\ row.table = id /\ row.built
      BY <2>1 DEF ScopeRow
    <2>3. /\ Retrieval!Keep(row)
          /\ rConn' = [rConn EXCEPT !.tables =
                            Retrieval!Created(@, Retrieval!Mine.table, Retrieval!IndexRows)]
      BY <1>4 DEF Retrieval!LexicalLane
    <2>5. /\ DOMAIN rConn' = DOMAIN rConn /\ rConn'.id = rConn.id /\ rConn'.before = rConn.before
          /\ rConn'.tables = Retrieval!Created(rConn.tables, id, Retrieval!IndexRows)
      BY <2>3 DEF RetrievalInv, ConnShape
    <2>6. DOMAIN rConn'.tables = DOMAIN rConn.tables \cup {id}
      BY <2>5 DEF Retrieval!Created
    <2> HIDE DEF row
    <2>7. ScopesShape' /\ rScopes' # << >> /\ BuiltTables(rScopes') = BuiltTables(rScopes) \cup {id}
      BY <1>0, <1>3, <1>4, <2>2, <2>3, KeepMoves
    <2> QED BY <1>0, <1>2, <1>3, <1>4, <2>5, <2>6, <2>7 DEF RetrievalInv, ConnShape, OwnTables,
          Searching, GoesOn
  <1>5. CASE ~(rCached /\ ~Retrieval!Mine.built)
    <2>1. UNCHANGED <<rScopes, rConn>>
      BY <1>5 DEF Retrieval!LexicalLane
    <2> QED BY <1>0, <1>2, <1>3, <2>1, QuietSearchKeeps DEF Early
  <1> QED BY <1>4, <1>5


-----------------------------------------------------------------------------
(* Scopes kept, moved to the end, made or evicted. *)

\* list holds scopes of rScopes, and their tables are still distinct.
Sublist(list) ==
    /\ list \in Seq(ScopeRow)
    /\ \A i \in 1..Len(list) : \E j \in 1..Len(rScopes) : list[i] = rScopes[j]
    /\ \A i, j \in 1..Len(list) : list[i].table = list[j].table => i = j

(* Eviction of the scope used longest ago. *)
LEMMA TailIsSublist ==
  ASSUME NEW list \in Seq(ScopeRow), Sublist(list), list # << >>
  PROVE  Sublist(Tail(list))
  <1>1. /\ Tail(list) \in Seq(ScopeRow) /\ Len(Tail(list)) = Len(list) - 1
        /\ \A i \in 1..Len(Tail(list)) : Tail(list)[i] = list[i + 1] /\ i + 1 \in 1..Len(list)
    BY HeadTailProperties
  <1> HIDE DEF Sublist
  <1>2. \A i \in 1..Len(Tail(list)) : \E j \in 1..Len(rScopes) : Tail(list)[i] = rScopes[j]
    BY <1>1 DEF Sublist
  <1>3. ASSUME NEW i \in 1..Len(Tail(list)), NEW j \in 1..Len(Tail(list)),
               Tail(list)[i].table = Tail(list)[j].table
        PROVE  i = j
    <2>1. i + 1 = j + 1
      BY <1>1, <1>3 DEF Sublist
    <2> QED BY <2>1
  <1> QED BY <1>1, <1>2, <1>3 DEF Sublist

\* Where the scopes of a list are found once scope i has moved to its end.
Moved(i, n) == [j \in 1..n |-> IF j < i THEN j ELSE IF j = n THEN i ELSE j + 1]

(* What move_to_end does to the order of the scopes. *)
LEMMA MovedToEnd ==
  ASSUME NEW list \in Seq(ScopeRow), NEW i \in 1..Len(list),
         NEW after, after = Append(Retrieval!RemoveAt(list, i), list[i])
  PROVE  /\ after \in Seq(ScopeRow) /\ Len(after) = Len(list)
         /\ \A j \in 1..Len(list) : after[j] = list[Moved(i, Len(list))[j]]
  <1> DEFINE front == SubSeq(list, 1, i - 1)
             back == SubSeq(list, i + 1, Len(list))
             n == Len(list)
  <1>0. n \in Nat /\ i \in Nat /\ i >= 1 /\ i <= n
    OBVIOUS
  <1>1. /\ front \in Seq(ScopeRow) /\ Len(front) = i - 1
        /\ \A j \in 1..(i - 1) : front[j] = list[j]
    BY <1>0, SubSeqProperties
  <1>2. /\ back \in Seq(ScopeRow) /\ Len(back) = n - i
        /\ \A j \in 1..(n - i) : back[j] = list[i + j]
    BY <1>0, SubSeqProperties
  <1>3. Retrieval!RemoveAt(list, i) = front \o back
    BY DEF Retrieval!RemoveAt
  <1> HIDE DEF front, back
  <1> DEFINE rest == front \o back
  <1>4. /\ rest \in Seq(ScopeRow) /\ Len(rest) = n - 1
        /\ \A j \in 1..(n - 1) : rest[j] = IF j < i THEN list[j] ELSE list[j + 1]
    <2>1. /\ rest \in Seq(ScopeRow) /\ Len(rest) = Len(front) + Len(back)
          /\ \A j \in 1..Len(front) + Len(back) :
                rest[j] = IF j <= Len(front) THEN front[j] ELSE back[j - Len(front)]
      BY <1>1, <1>2, ConcatProperties
    <2> HIDE DEF rest
    <2>2. Len(front) + Len(back) = n - 1
      BY <1>0, <1>1, <1>2
    <2>3. ASSUME NEW j \in 1..(n - 1) PROVE rest[j] = IF j < i THEN list[j] ELSE list[j + 1]
      <3>1. CASE j < i
        <4>1. j \in 1..(i - 1) /\ j <= Len(front)
          BY <1>0, <1>1, <2>3, <3>1
        <4> QED BY <1>1, <2>1, <2>2, <3>1, <4>1
      <3>2. CASE ~(j < i)
        <4>1. /\ j - (i - 1) \in 1..(n - i) /\ ~(j <= Len(front)) /\ i + (j - (i - 1)) = j + 1
              /\ j - Len(front) = j - (i - 1)
          BY <1>0, <1>1, <2>3, <3>2
        <4> QED BY ZenonT(60), <1>2, <2>1, <2>2, <3>2, <4>1
      <3> QED BY <3>1, <3>2
    <2> QED BY <2>1, <2>2, <2>3
  <1> HIDE DEF rest
  <1>5. list[i] \in ScopeRow
    OBVIOUS
  <1>6. /\ after \in Seq(ScopeRow) /\ Len(after) = n
        /\ after[n] = list[i]
        /\ \A j \in 1..(n - 1) : after[j] = rest[j]
    <2>1. after = Append(rest, list[i])
      BY <1>3 DEF rest
    <2> QED BY <1>0, <1>4, <1>5, <2>1, AppendProperties
  <1>7. ASSUME NEW j \in 1..n PROVE after[j] = list[Moved(i, n)[j]]
    <2>1. Moved(i, n)[j] = IF j < i THEN j ELSE IF j = n THEN i ELSE j + 1
      BY DEF Moved
    <2>2. CASE j = n
      BY <1>0, <1>6, <2>1, <2>2
    <2>3. CASE j # n
      <3>1. j \in 1..(n - 1)
        BY <1>0, <1>7, <2>3
      <3> QED BY <1>4, <1>6, <2>1, <2>3, <3>1
    <2> QED BY <2>2, <2>3
  <1> QED BY <1>6, <1>7

(* Moving a scope to the end loses none and keeps their tables apart. *)
LEMMA MovedIsSublist ==
  ASSUME NEW list \in Seq(ScopeRow), Sublist(list), NEW i \in 1..Len(list),
         NEW after, after = Append(Retrieval!RemoveAt(list, i), list[i])
  PROVE  Sublist(after) /\ \A j \in 1..Len(list) : \E k \in 1..Len(after) : after[k] = list[j]
  <1>0. Len(list) \in Nat /\ i \in 1..Len(list)
    OBVIOUS
  <1>1. /\ after \in Seq(ScopeRow) /\ Len(after) = Len(list)
        /\ \A j \in 1..Len(list) : after[j] = list[Moved(i, Len(list))[j]]
    BY ZenonT(60), MovedToEnd
  <1>2. \A j \in 1..Len(list) : Moved(i, Len(list))[j] \in 1..Len(list)
    BY <1>0 DEF Moved
  <1>3. \A j, k \in 1..Len(list) :
           Moved(i, Len(list))[j] = Moved(i, Len(list))[k] => j = k
    BY <1>0 DEF Moved
  <1>4. \A j \in 1..Len(list) : \E k \in 1..Len(list) : Moved(i, Len(list))[k] = j
    <2> SUFFICES ASSUME NEW j \in 1..Len(list)
                 PROVE  \E k \in 1..Len(list) : Moved(i, Len(list))[k] = j
      OBVIOUS
    <2>1. CASE j < i
      BY <1>0, <2>1 DEF Moved
    <2>2. CASE j = i
      BY <1>0, <2>2 DEF Moved
    <2>3. CASE j > i
      <3>1. j - 1 \in 1..Len(list) /\ ~(j - 1 < i) /\ j - 1 # Len(list) /\ (j - 1) + 1 = j
        BY <1>0, <2>3
      <3>2. Moved(i, Len(list))[j - 1] = j
        BY <3>1 DEF Moved
      <3> QED BY <3>1, <3>2
    <2> QED BY <1>0, <2>1, <2>2, <2>3
  <1>5. ASSUME NEW j \in 1..Len(after) PROVE \E k \in 1..Len(rScopes) : after[j] = rScopes[k]
    <2> DEFINE m == Moved(i, Len(list))[j]
    <2>1. j \in 1..Len(list)
      BY <1>1
    <2>2. m \in 1..Len(list) /\ after[j] = list[m]
      BY <1>1, <1>2, <2>1
    <2> HIDE DEF m
    <2> QED BY <2>2 DEF Sublist
  <1>6. ASSUME NEW j \in 1..Len(after), NEW k \in 1..Len(after), after[j].table = after[k].table
        PROVE  j = k
    <2> DEFINE m == Moved(i, Len(list))[j]
               p == Moved(i, Len(list))[k]
    <2>1. j \in 1..Len(list) /\ k \in 1..Len(list)
      BY <1>1
    <2>2. /\ m \in 1..Len(list) /\ after[j] = list[m]
          /\ p \in 1..Len(list) /\ after[k] = list[p]
          /\ m = p => j = k
      BY <1>1, <1>2, <1>3, <2>1
    <2> HIDE DEF m, p
    <2>3. m = p
      BY <1>6, <2>2 DEF Sublist
    <2> QED BY <2>2, <2>3
  <1>7. ASSUME NEW j \in 1..Len(list) PROVE \E k \in 1..Len(after) : after[k] = list[j]
    <2>1. PICK k \in 1..Len(list) : Moved(i, Len(list))[k] = j
      BY <1>4
    <2>2. after[k] = list[j] /\ k \in 1..Len(after)
      BY <1>1, <2>1
    <2> QED BY <2>2
  <1>8. Sublist(after)
    BY <1>1, <1>5, <1>6 DEF Sublist
  <1> QED BY <1>7, <1>8

\* list holds scopes of rScopes and perhaps a new one, which has no index yet.
Fresh(row) == row \in ScopeRow /\ row.table = rMade + 1 /\ ~row.built /\ ~row.loaded
Renewed(list) ==
    /\ list \in Seq(ScopeRow)
    /\ \A i \in 1..Len(list) : \/ \E j \in 1..Len(rScopes) : list[i] = rScopes[j]
                               \/ Fresh(list[i])
    /\ \A i, j \in 1..Len(list) : list[i].table = list[j].table => i = j

(* Of the scopes there before, those that stay have an index if they had one, and a new one has
   none. *)
LEMMA RenewedFits ==
  ASSUME RetrievalInv, NEW list, Renewed(list)
  PROVE  /\ \A t \in Retrieval!TablesOf(rScopes) \cap Retrieval!TablesOf(list) :
               t \in BuiltTables(rScopes) <=> t \in BuiltTables(list)
         /\ BuiltTables(list) \subseteq Retrieval!TablesOf(rScopes)
  <1>1. /\ rScopes \in Seq(ScopeRow) /\ rMade \in Nat /\ list \in Seq(ScopeRow)
        /\ \A i \in 1..Len(rScopes) : rScopes[i].table <= rMade
        /\ \A i, j \in 1..Len(rScopes) : rScopes[i].table = rScopes[j].table => i = j
    BY DEF RetrievalInv, ScopesShape, Renewed
  <1>2. DOMAIN rScopes = 1..Len(rScopes) /\ DOMAIN list = 1..Len(list)
    BY <1>1
  <1>3. ASSUME NEW i \in 1..Len(rScopes)
        PROVE  rScopes[i].table \in BuiltTables(rScopes) <=> rScopes[i].built
    BY <1>1, <1>2, <1>3 DEF BuiltTables
  <1>4. ASSUME NEW i \in 1..Len(list)
        PROVE  list[i].table \in BuiltTables(list) <=> list[i].built
    BY <1>2, <1>4 DEF BuiltTables, Renewed
  <1>5. ASSUME NEW i \in 1..Len(rScopes), NEW k \in 1..Len(list), rScopes[i].table = list[k].table
        PROVE  rScopes[i].built <=> list[k].built
    <2>1. CASE Fresh(list[k])
      <3>1. rScopes[i].table = rMade + 1 /\ rScopes[i].table <= rMade
        BY <1>1, <1>5, <2>1 DEF Fresh
      <3> QED BY <1>1, <3>1
    <2>2. CASE ~Fresh(list[k])
      <3>1. PICK j \in 1..Len(rScopes) : list[k] = rScopes[j]
        BY <1>5, <2>2 DEF Renewed
      <3>2. i = j
        BY <1>1, <1>5, <3>1
      <3> QED BY <3>1, <3>2
    <2> QED BY <2>1, <2>2
  <1>6. ASSUME NEW t \in Retrieval!TablesOf(rScopes) \cap Retrieval!TablesOf(list)
        PROVE  t \in BuiltTables(rScopes) <=> t \in BuiltTables(list)
    <2>1. PICK i \in 1..Len(rScopes) : t = rScopes[i].table
      BY <1>2, <1>6 DEF Retrieval!TablesOf
    <2>2. PICK k \in 1..Len(list) : t = list[k].table
      BY <1>2, <1>6 DEF Retrieval!TablesOf
    <2>3. rScopes[i].built <=> list[k].built
      BY <1>5, <2>1, <2>2
    <2> QED BY <1>3, <1>4, <2>1, <2>2, <2>3
  <1>7. ASSUME NEW k \in 1..Len(list), list[k].built
        PROVE  list[k].table \in Retrieval!TablesOf(rScopes)
    <2>1. PICK j \in 1..Len(rScopes) : list[k] = rScopes[j]
      BY <1>7 DEF Renewed, Fresh
    <2> QED BY <1>2, <2>1 DEF Retrieval!TablesOf
  <1>8. BuiltTables(list) \subseteq Retrieval!TablesOf(rScopes)
    BY <1>2, <1>7 DEF BuiltTables
  <1> QED BY <1>6, <1>8

(* A new scope has a table of its own. *)
LEMMA AppendedIsRenewed ==
  ASSUME RetrievalInv, NEW list, Sublist(list), NEW row, Fresh(row)
  PROVE  Renewed(Append(list, row))
  <1>0. /\ list \in Seq(ScopeRow) /\ row \in ScopeRow /\ rMade \in Nat
        /\ \A i \in 1..Len(rScopes) : rScopes[i].table <= rMade
    BY DEF RetrievalInv, ScopesShape, Sublist, Fresh
  <1> DEFINE after == Append(list, row)
  <1>1. /\ after \in Seq(ScopeRow) /\ Len(after) = Len(list) + 1 /\ Len(list) \in Nat
        /\ \A i \in 1..Len(list) : after[i] = list[i]
        /\ after[Len(list) + 1] = row
    BY <1>0, AppendProperties
  <1> HIDE DEF after
  <1>2. ASSUME NEW i \in 1..Len(after)
        PROVE  \/ \E j \in 1..Len(rScopes) : after[i] = rScopes[j]
               \/ Fresh(after[i])
    <2>1. CASE i \in 1..Len(list)
      BY ZenonT(60), <1>1, <2>1 DEF Sublist
    <2>2. CASE i = Len(list) + 1
      BY <1>1, <2>2
    <2> QED BY <1>1, <2>1, <2>2
  <1>3. ASSUME NEW i \in 1..Len(list) PROVE list[i].table # row.table
    <2>1. PICK j \in 1..Len(rScopes) : list[i] = rScopes[j]
      BY <1>3 DEF Sublist
    <2>2. rScopes[j] \in ScopeRow
      BY <2>1 DEF RetrievalInv, ScopesShape
    <2>3. rScopes[j].table \in Nat /\ rScopes[j].table <= rMade
      BY <1>0, <2>1, <2>2 DEF ScopeRow
    <2> QED BY <1>0, <2>1, <2>3 DEF Fresh
  <1>4. ASSUME NEW i \in 1..Len(after), NEW j \in 1..Len(after), after[i].table = after[j].table
        PROVE  i = j
    <2>1. /\ i \in 1..Len(list) \/ i = Len(list) + 1
          /\ j \in 1..Len(list) \/ j = Len(list) + 1
      BY <1>1
    <2>2. CASE i \in 1..Len(list) /\ j \in 1..Len(list)
      BY <1>1, <1>4, <2>2 DEF Sublist
    <2>3. CASE i = Len(list) + 1 \/ j = Len(list) + 1
      BY <1>1, <1>3, <1>4, <2>1, <2>3
    <2> QED BY <2>1, <2>2, <2>3
  <1>5. Renewed(after)
    BY <1>1, <1>2, <1>4 DEF Renewed
  <1> QED BY <1>5 DEF after

\* What UseScope leaves of the scopes (dao.py:5872-5899): its own comes last, and after a
\* change there is no other.
ScopesMoved ==
    /\ Renewed(rScopes') /\ rScopes' # << >>
    /\ \A j \in 1..Len(rScopes') : rScopes'[j].table <= rMade'
    /\ Retrieval!Mine'.key = rSearch.key
    /\ Retrieval!Changed => \A j \in 1..Len(rScopes') : Fresh(rScopes'[j])

(* UseScope moves, makes and evicts scopes as ScopesMoved says. *)
LEMMA UseScopeMoves == ASSUME RetrievalInv, Retrieval!UseScope PROVE ScopesMoved /\ rMade' \in Nat
  <1> DEFINE kept == IF Retrieval!Changed THEN << >> ELSE rScopes
             known == {i \in DOMAIN kept : kept[i].key = rSearch.key}
             room == IF Retrieval!Full(kept) THEN Tail(kept) ELSE kept
             new == [key |-> rSearch.key, table |-> rMade + 1, loaded |-> FALSE, built |-> FALSE,
                     artifacts |-> {}, rows |-> {}]
  <1>1. /\ rSearch.step = "scope" /\ rSearch.key \in SearchScope /\ rMade \in Nat
        /\ rScopes \in Seq(ScopeRow) /\ new \in ScopeRow
    BY DEF Retrieval!UseScope, Retrieval!At, RetrievalInv, SearchShape, ScopesShape, ScopeRow
  <1>2. kept \in Seq(ScopeRow) /\ Sublist(kept) /\ (Retrieval!Changed => kept = << >>)
    BY <1>1 DEF RetrievalInv, ScopesShape, Sublist
  <1>3. \/ \E i \in known : /\ rScopes' = Append(Retrieval!RemoveAt(kept, i), kept[i])
                            /\ rMade' = rMade
        \/ rScopes' = Append(room, new) /\ rMade' = rMade + 1
    BY DEF Retrieval!UseScope
  <1>4. ASSUME NEW i \in known, rScopes' = Append(Retrieval!RemoveAt(kept, i), kept[i]),
               rMade' = rMade
        PROVE  ScopesMoved
    <2>1. i \in 1..Len(kept) /\ kept[i].key = rSearch.key /\ ~Retrieval!Changed
      BY <1>2
    <2> HIDE DEF kept
    <2>2. Sublist(rScopes')
      BY <1>2, <1>4, <2>1, MovedIsSublist
    <2>3. /\ rScopes' \in Seq(ScopeRow) /\ Len(rScopes') = Len(kept)
          /\ \A j \in 1..Len(kept) : rScopes'[j] = kept[Moved(i, Len(kept))[j]]
      BY <1>2, <1>4, <2>1, MovedToEnd
    <2>4. Renewed(rScopes') /\ rScopes' # << >>
      BY <1>2, <2>1, <2>2, <2>3 DEF Sublist, Renewed
    <2>5. \A j \in 1..Len(rScopes') : rScopes'[j].table <= rMade'
      BY <1>4, <2>2 DEF Sublist, RetrievalInv, ScopesShape
    <2>6. Len(kept) \in 1..Len(kept) /\ Moved(i, Len(kept))[Len(kept)] = i
      BY <1>2, <2>1 DEF Moved
    <2>7. Retrieval!Mine'.key = rSearch.key
      BY <2>1, <2>3, <2>6 DEF Retrieval!Mine, Retrieval!Last
    <2> QED BY <2>1, <2>4, <2>5, <2>7 DEF ScopesMoved
  <1>5. ASSUME rScopes' = Append(room, new), rMade' = rMade + 1
        PROVE  ScopesMoved
    <2>1. Sublist(room) /\ (Retrieval!Changed => room = << >>)
      <3>1. CASE Retrieval!Full(kept)
        <4>1. kept # << >>
          BY <1>2, <3>1, ComponentsAssumption DEF Retrieval!Full
        <4>2. ~Retrieval!Changed
          BY <1>2, <4>1
        <4> HIDE DEF kept
        <4> QED BY <1>2, <3>1, <4>1, <4>2, TailIsSublist
      <3>2. CASE ~Retrieval!Full(kept)
        BY <1>2, <3>2
      <3> QED BY <3>1, <3>2
    <2>2. Fresh(new) /\ new.key = rSearch.key
      BY <1>1 DEF Fresh
    <2> HIDE DEF room, new
    <2>3. Renewed(rScopes')
      BY <1>5, <2>1, <2>2, AppendedIsRenewed
    <2>4. /\ rScopes' # << >> /\ Len(rScopes') = Len(room) + 1 /\ Len(room) \in Nat
          /\ rScopes'[Len(rScopes')] = new
      BY <1>5, <2>1, <2>2, AppendProperties DEF Sublist, Fresh
    <2>5. ASSUME NEW j \in 1..Len(rScopes') PROVE rScopes'[j].table <= rMade'
      <3>1. rScopes'[j] \in ScopeRow
        BY <2>3 DEF Renewed
      <3>2. \/ \E k \in 1..Len(rScopes) : rScopes'[j] = rScopes[k]
            \/ Fresh(rScopes'[j])
        BY <2>3 DEF Renewed
      <3> QED BY <1>1, <1>5, <3>1, <3>2 DEF Fresh, RetrievalInv, ScopesShape, ScopeRow
    <2>6. Retrieval!Mine'.key = rSearch.key
      BY <2>2, <2>4 DEF Retrieval!Mine, Retrieval!Last
    <2>7. Retrieval!Changed => \A j \in 1..Len(rScopes') : Fresh(rScopes'[j])
      BY <2>1, <2>2, <2>4
    <2> QED BY <2>3, <2>4, <2>5, <2>6, <2>7 DEF ScopesMoved
  <1> QED BY <1>1, <1>3, <1>4, <1>5

(* The tables of the scopes that go are dropped, the others stay (dao.py:5872-5899). *)
LEMMA UseScopeKeeps == ASSUME RetrievalInv, Retrieval!UseScope PROVE RetrievalInv'
  <1>1. rSearch.step = "scope" /\ rSearch.key \in SearchScope
    BY DEF Retrieval!UseScope, Retrieval!At, RetrievalInv, SearchShape
  <1>2. /\ SearchShape' /\ rSearch'.step = "artifacts" /\ rSearch'.previous = rSearch.previous
    BY <1>1 DEF Retrieval!UseScope, RetrievalInv, SearchShape, SearchFields
  <1>3. UNCHANGED <<rCached, rOwner>>
    BY DEF Retrieval!UseScope, Retrieval!world
  <1>4. /\ DOMAIN rConn' = DOMAIN rConn /\ rConn'.id = rConn.id /\ rConn'.before = rConn.before
        /\ rConn'.tables = Retrieval!Dropped(rConn.tables,
                               Retrieval!TablesOf(rScopes) \ Retrieval!TablesOf(rScopes'))
    BY DEF Retrieval!UseScope, RetrievalInv, ConnShape
  <1>5. DOMAIN rConn'.tables =
           DOMAIN rConn.tables \ (Retrieval!TablesOf(rScopes) \ Retrieval!TablesOf(rScopes'))
    BY <1>4 DEF Retrieval!Dropped
  <1>6. ScopesShape' /\ rScopes' # << >> /\ Renewed(rScopes')
    BY <1>3, UseScopeMoves DEF ScopesMoved, Renewed, RetrievalInv, ScopesShape
  <1>7. /\ \A t \in Retrieval!TablesOf(rScopes) \cap Retrieval!TablesOf(rScopes') :
              t \in BuiltTables(rScopes) <=> t \in BuiltTables(rScopes')
        /\ BuiltTables(rScopes') \subseteq Retrieval!TablesOf(rScopes)
    BY <1>6, RenewedFits
  <1>8. ASSUME rOwner = rConn.id PROVE DOMAIN rConn'.tables = BuiltTables(rScopes')
    <2>1. DOMAIN rConn.tables = BuiltTables(rScopes)
      BY <1>8 DEF RetrievalInv, OwnTables
    <2> QED BY <1>5, <1>7, <2>1, TablesOfList
  <1>9. OwnTables'
    BY <1>3, <1>4, <1>5, <1>8 DEF RetrievalInv, OwnTables
  <1>10. Searching' /\ ConnShape'
    BY <1>1, <1>2, <1>3, <1>4, <1>6 DEF RetrievalInv, Searching, ConnShape, Early
  <1> QED BY <1>2, <1>6, <1>9, <1>10 DEF RetrievalInv

(* RetrievalInv is inductive. *)
LEMMA RetrievalStep == ASSUME RetrievalInv, [Retrieval!Next]_(Retrieval!vars) PROVE RetrievalInv'
  <1>1. CASE Retrieval!Search
    <2>1. \/ \E k \in SearchScope : Retrieval!Begin(k)
          \/ Retrieval!Pin
          \/ Retrieval!UseScope
          \/ Retrieval!LoadRows
          \/ QuietStep
          \/ \E words \in {Assertion, Assertion \ Cited} :
                Retrieval!LexicalLane(words) \/ Retrieval!Abort(words)
          \/ Retrieval!Answer
      BY <1>1 DEF Retrieval!Search, QuietStep
    <2>2. ASSUME NEW words, Retrieval!Abort(words) PROVE RetrievalInv'
      BY <2>2, GiveUpKeeps DEF Retrieval!Abort, Retrieval!At
    <2> QED BY <2>1, <2>2, BeginKeeps, PinKeeps, UseScopeKeeps, LoadRowsKeeps, QuietSteps,
          LexicalKeeps, AnswerKeeps
  <1>2. CASE Retrieval!Fail
    BY <1>2, GiveUpKeeps DEF Retrieval!Fail, Retrieval!At
  <1>3. CASE Retrieval!Reopen
    BY <1>3, ReopenKeeps
  <1>4. CASE \E a \in Assertion : \/ Retrieval!Project(a)
                                  \/ \E st \in Retrieval!State : Retrieval!Commit(a, st)
    BY <1>4, OthersKeep
  <1>5. CASE UNCHANGED Retrieval!vars
    BY <1>5 DEF Retrieval!vars, RetrievalInv, SearchShape, ConnShape, ScopesShape, OwnTables,
       Searching, BuiltTables
  <1> QED BY <1>1, <1>2, <1>3, <1>4, <1>5 DEF Retrieval!Next

(* A new connection has no scopes. *)
LEMMA RetrievalInit == Retrieval!Init => RetrievalInv
  <1> SUFFICES ASSUME Retrieval!Init PROVE RetrievalInv
    OBVIOUS
  <1>1. SearchShape /\ rSearch.step = "idle"
    BY DEF Retrieval!Init, Retrieval!NoSearch, SearchShape, SearchFields
  <1>2. ConnShape /\ rConn.id = 1 /\ rOwner = 0 /\ DOMAIN rConn.tables = {}
    BY DEF Retrieval!Init, Retrieval!NoTables, ConnShape
  <1>3. rScopes = << >> /\ rMade = 0 /\ rCached \in BOOLEAN
    BY DEF Retrieval!Init
  <1>4. ScopesShape
    BY <1>3 DEF ScopesShape
  <1> QED BY <1>1, <1>2, <1>4 DEF RetrievalInv, OwnTables, Searching

(* Between two searches every temporary index belongs to a retained scope and a retained index
   exists: no eviction, error or cancellation leaks or loses one (dao.py:5856-5948). *)
THEOREM TablesMatch == Spec => []TablesMatchScopes
  <1>1. Init => RetrievalInv
    BY RetrievalInit DEF Init
  <1>2. RetrievalInv /\ [Next]_vars => RetrievalInv'
    BY RetrievalParted, RetrievalStep
  <1>3. RetrievalInv => TablesMatchScopes
    BY DEF RetrievalInv, OwnTables, BuiltTables, TablesMatchScopes, Retrieval!TablesMatchScopes
  <1> QED BY <1>1, <1>2, <1>3, PTL DEF Spec

-----------------------------------------------------------------------------
(* What scopes and searches hold, against the catalog.                     *)

\* The snapshot of a search is fixed.
Pinned == rCached /\ rSearch.step \notin {"idle", "begin"}
\* What a retained scope holds is what the catalog m has for its key.
Holds(m, indexes, s) ==
    /\ s.loaded => /\ s.artifacts = Retrieval!Artifacts(m, s.key)
                   /\ s.rows = Retrieval!Eligible(m, s.key)
    /\ s.built => indexes[s.table] = Retrieval!Eligible(m, s.key)
Coherent(m) == \A i \in 1..Len(rScopes) : Holds(m, rConn.tables, rScopes[i])
VersionShape == /\ rCommits \in Nat /\ rFaults \in Nat
                /\ rVersion \in Int /\ rVersion <= rCommits
                /\ rConn.version \in Nat /\ rConn.version <= rCommits
\* Scopes of the version of the catalog, or of a search's snapshot, hold what it has.
CacheCoherent ==
    /\ rOwner = rConn.id /\ rVersion = rCommits => Coherent(rMem)
    /\ Pinned => /\ rConn.version = rCommits => rSearch.at = rMem
                 /\ rVersion = rConn.version => Coherent(rSearch.at)
                 /\ rSearch.step # "scope" => /\ rVersion = rConn.version
                                              /\ Retrieval!Mine.key = rSearch.key
\* Between what a search must answer and what it may lies what the scope has now.
EligibleNow(m) == /\ rSearch.always \subseteq Retrieval!Eligible(m, rSearch.key)
                  /\ Retrieval!Eligible(m, rSearch.key) \subseteq rSearch.ever
Measured == /\ rSearch.step # "idle" => EligibleNow(rMem)
            /\ Pinned => EligibleNow(rSearch.at)
\* What each read adds: everything the scope had all the time, nothing it never had.
HasArtifacts == rSearch.step \notin Early \cup {"artifacts"} =>
    /\ rSearch.always \subseteq rSearch.artifacts
    /\ rCached => rSearch.artifacts = Retrieval!Artifacts(rSearch.at, rSearch.key)
HasRows == rSearch.step \notin Early \cup {"artifacts", "rows"} =>
    /\ rSearch.always \subseteq rSearch.rows /\ rSearch.rows \subseteq rSearch.ever
    /\ rCached => rSearch.rows = Retrieval!Eligible(rSearch.at, rSearch.key)
\* Of the cited ones the first, whose number makes up for what a limit left out.
HasTyped == rSearch.step \in {"vector", "lexical"} =>
    /\ rSearch.typed \subseteq rSearch.ever \cap Assertion
    /\ rCached => rSearch.typed \subseteq rSearch.rows
    /\ IF rSearch.cut THEN rCached => Limit <= Cardinality(rSearch.typed)
       ELSE rSearch.always \cap Cited \subseteq rSearch.typed
\* What the lanes hold; only the lexical one must miss nothing.
HasLanes ==
    /\ rSearch.step # "idle" =>
          /\ rSearch.near \subseteq rSearch.ever \cap Assertion
          /\ rSearch.matched \subseteq rSearch.ever \cap Assertion
          /\ \A p \in rSearch.proofs : Retrieval!Last(p) \in rSearch.ever \cap Assertion
    /\ rSearch.step \in {"graph", "fuse"} =>
          IF rSearch.cut THEN rCached => Limit <= Cardinality(rSearch.matched)
          ELSE rSearch.always \subseteq rSearch.matched
HasExact == rSearch.step \notin Early \cup {"artifacts", "rows", "cite"} =>
    rSearch.exact \in Retrieval!Picks(rSearch.rows \cap Cited)
SearchGoes == HasArtifacts /\ HasRows /\ HasTyped /\ HasLanes /\ HasExact
FreshInv == VersionShape /\ CacheCoherent /\ Measured /\ SearchGoes

(* What a scope may see is registered (dao.py:6036-6085). *)
LEMMA EligibleIsRegistered ==
  ASSUME NEW m, NEW k PROVE Retrieval!Eligible(m, k) \subseteq Retrieval!Artifacts(m, k)
  BY DEF Retrieval!Eligible, Retrieval!Artifacts

(* What a search reads has all it must answer, and nothing it must not. *)
LEMMA SeenNow ==
  ASSUME FreshInv, rSearch.step \notin {"idle", "begin"}
  PROVE  EligibleNow(Retrieval!Seen)
  BY DEF FreshInv, Measured, Pinned, Retrieval!Seen

(* The scope of a search holds what its snapshot has. *)
LEMMA MineHolds ==
  ASSUME RetrievalInv, FreshInv, rCached, rSearch.step \notin Early
  PROVE  Holds(rSearch.at, rConn.tables, Retrieval!Mine) /\ Retrieval!Mine.key = rSearch.key
  <1>1. Len(rScopes) \in 1..Len(rScopes) /\ Retrieval!Mine = rScopes[Len(rScopes)]
    BY MineIsRow
  <1>2. Coherent(rSearch.at) /\ Retrieval!Mine.key = rSearch.key
    BY DEF FreshInv, CacheCoherent, Pinned, Early
  <1> QED BY <1>1, <1>2 DEF Coherent

\* The search moves on over the same snapshot, measured against the same moments.
SameSearch == /\ rSearch'.key = rSearch.key /\ rSearch'.at = rSearch.at
              /\ rSearch'.always = rSearch.always /\ rSearch'.ever = rSearch.ever

\* Neither lane nor the exact rows change.
SameLanes == /\ rSearch'.near = rSearch.near /\ rSearch'.matched = rSearch.matched
             /\ rSearch'.proofs = rSearch.proofs /\ rSearch'.exact = rSearch.exact
             /\ rSearch'.cut = rSearch.cut

(* Lanes that leave the cache alone keep it coherent. *)
LEMMA QuietFresh ==
  ASSUME FreshInv, SameSearch,
         UNCHANGED <<rMem, rCommits, rCached, rConn, rScopes, rVersion, rOwner, rFaults>>,
         rSearch.step \notin Early, rSearch'.step \notin Early
  PROVE  VersionShape' /\ CacheCoherent' /\ Measured'
  <1>1. Retrieval!Mine' = Retrieval!Mine
    BY DEF Retrieval!Mine
  <1>2. VersionShape'
    BY DEF FreshInv, VersionShape
  <1>3. \A m : Coherent(m)' <=> Coherent(m)
    BY DEF Coherent, Holds
  <1>4. CacheCoherent'
    BY <1>1, <1>3 DEF FreshInv, CacheCoherent, Pinned, SameSearch, Early
  <1>5. Measured'
    BY DEF FreshInv, Measured, EligibleNow, Pinned, SameSearch, Early
  <1> QED BY <1>2, <1>4, <1>5

(* What the search reads first: the registered artifacts of its scope. *)
LEMMA LoadArtifactsFresh ==
  ASSUME RetrievalInv, FreshInv, Retrieval!LoadArtifacts PROVE FreshInv'
  <1> DEFINE as == IF rCached /\ Retrieval!Mine.loaded THEN Retrieval!Mine.artifacts
                   ELSE Retrieval!Artifacts(Retrieval!Seen, rSearch.key)
  <1>1. rSearch.step = "artifacts" /\ rSearch.step \notin Early
    BY DEF Retrieval!LoadArtifacts, Retrieval!At, Early
  <1>2. as = Retrieval!Artifacts(Retrieval!Seen, rSearch.key)
    BY <1>1, MineHolds DEF Holds, Retrieval!Seen
  <1>3. /\ SameSearch /\ rSearch'.step = "rows" /\ rSearch'.artifacts = as /\ SameLanes
    BY <1>1 DEF Retrieval!LoadArtifacts, RetrievalInv, SearchShape, SearchFields, SameSearch,
       SameLanes
  <1> HIDE DEF as
  <1>4. VersionShape' /\ CacheCoherent' /\ Measured'
    BY <1>1, <1>3, QuietFresh DEF Retrieval!LoadArtifacts, Retrieval!world, Retrieval!cache, Early
  <1>5. rSearch.always \subseteq as
    BY <1>1, <1>2, SeenNow, EligibleIsRegistered DEF EligibleNow
  <1>6. rCached' = rCached
    BY DEF Retrieval!LoadArtifacts, Retrieval!world
  <1>7. HasArtifacts'
    BY <1>2, <1>3, <1>5, <1>6 DEF HasArtifacts, SameSearch, Retrieval!Seen
  <1>8. HasRows' /\ HasTyped' /\ HasLanes' /\ HasExact'
    BY <1>1, <1>3 DEF FreshInv, SearchGoes, HasRows, HasTyped, HasLanes, HasExact, SameSearch,
       SameLanes
  <1> QED BY <1>4, <1>7, <1>8 DEF FreshInv, SearchGoes

(* The instance counts as the module does. *)
LEMMA CardinalityHere == \A S : Retrieval!Cardinality(S) = Cardinality(S)
  BY Zenon DEF Cardinality, Retrieval!Cardinality

(* What is less. *)
LEMMA MinIs ==
  ASSUME NEW m \in Nat, NEW n \in Nat
  PROVE  Retrieval!Min({m, n}) = IF m <= n THEN m ELSE n
  <1>1. \E x \in {m, n} : \A y \in {m, n} : x <= y
    OBVIOUS
  <1>2. /\ Retrieval!Min({m, n}) \in {m, n}
        /\ \A y \in {m, n} : Retrieval!Min({m, n}) <= y
    BY Zenon, <1>1 DEF Retrieval!Min
  <1> QED BY <1>2

(* A part as large as the whole. *)
LEMMA SameSize ==
  ASSUME NEW all, IsFiniteSet(all), NEW some \in SUBSET all, Cardinality(some) = Cardinality(all)
  PROVE  some = all
  BY FS_Subset

(* Sets of assertions are finite, larger ones have more of them. *)
LEMMA AssertionsCount ==
  ASSUME NEW as \in SUBSET Assertion, NEW bs \in SUBSET as
  PROVE  /\ IsFiniteSet(as) /\ IsFiniteSet(bs)
         /\ Cardinality(as) \in Nat /\ Cardinality(bs) \in Nat
         /\ Cardinality(bs) <= Cardinality(as)
  <1>1. IsFiniteSet(as)
    BY PathsAssumption, FS_Subset
  <1>2. IsFiniteSet(bs) /\ Cardinality(bs) <= Cardinality(as)
    BY <1>1, FS_Subset
  <1> QED BY <1>1, <1>2, FS_CardinalityType

(* A LIMIT leaves all rows of a query, or as many as it says (dao.py:6495, 6612, 6816). *)
LEMMA CutIs ==
  ASSUME NEW rows \in SUBSET Assertion, NEW n \in Nat, NEW s \in Retrieval!Cut(rows, n)
  PROVE  s \subseteq rows /\ (s = rows \/ Cardinality(s) = n) /\ Cardinality(s) <= n
  <1>1. s \in SUBSET rows /\ Cardinality(s) = Retrieval!Min({n, Cardinality(rows)})
    BY CardinalityHere DEF Retrieval!Cut
  <1>2. IsFiniteSet(rows) /\ Cardinality(rows) \in Nat
    BY AssertionsCount
  <1>3. Retrieval!Min({n, Cardinality(rows)}) = IF n <= Cardinality(rows) THEN n ELSE Cardinality(rows)
    BY <1>2, MinIs
  <1>4. CASE n <= Cardinality(rows)
    BY <1>1, <1>3, <1>4
  <1>5. CASE ~(n <= Cardinality(rows))
    <2>1. Cardinality(s) = Cardinality(rows)
      BY <1>1, <1>3, <1>5
    <2>2. s = rows
      BY <1>1, <1>2, <2>1, SameSize
    <2> QED BY <1>2, <1>5, <2>1, <2>2
  <1> QED BY <1>4, <1>5

(* Cited assertions of the scope (dao.py:6433-6503). *)
LEMMA CiteFresh == ASSUME RetrievalInv, FreshInv, Retrieval!Cite PROVE FreshInv'
  <1> DEFINE found == Retrieval!Identified
  <1>0. PICK exact \in Retrieval!Picks(rSearch.rows \cap Cited), lane \in Retrieval!Cut(found, Pool) :
           rSearch' = [rSearch EXCEPT !.step = "vector", !.exact = exact,
                         !.typed = lane \cup exact, !.cut = lane # found]
    BY DEF Retrieval!Cite
  <1>1. rSearch.step = "cite" /\ rSearch.step \notin Early
    BY DEF Retrieval!Cite, Retrieval!At, Early
  <1>2. /\ SameSearch /\ rSearch'.step = "vector" /\ rSearch'.typed = lane \cup exact
        /\ rSearch'.artifacts = rSearch.artifacts /\ rSearch'.rows = rSearch.rows
        /\ rSearch'.near = rSearch.near /\ rSearch'.matched = rSearch.matched
        /\ rSearch'.proofs = rSearch.proofs /\ rSearch'.exact = exact
        /\ rSearch'.cut = (lane # found)
    BY <1>0, <1>1 DEF RetrievalInv, SearchShape, SearchFields, SameSearch
  <1>3. VersionShape' /\ CacheCoherent' /\ Measured'
    BY <1>1, <1>2, QuietFresh DEF Retrieval!Cite, Retrieval!world, Retrieval!cache, Early
  <1>4. EligibleNow(Retrieval!Seen)
    BY <1>1, SeenNow
  <1>5. /\ rSearch.always \subseteq rSearch.rows
        /\ rSearch.rows \subseteq rSearch.ever \cap Assertion
        /\ rCached => rSearch.rows = Retrieval!Eligible(rSearch.at, rSearch.key)
    BY <1>1 DEF FreshInv, SearchGoes, HasRows, RetrievalInv, SearchShape, Early
  <1>6. /\ found \subseteq rSearch.ever \cap Assertion /\ rSearch.always \cap Cited \subseteq found
        /\ rCached => found \subseteq rSearch.rows
    BY <1>4, <1>5, EligibleIn DEF EligibleNow, Retrieval!Seen, Retrieval!Identified
  <1> HIDE DEF found
  <1>7. exact \subseteq rSearch.rows
    BY DEF Retrieval!Picks
  <1>8. lane \subseteq found /\ (lane = found \/ Cardinality(lane) = Pool)
    BY <1>6, PathsAssumption, CutIs
  <1>9. lane # found => Limit <= Cardinality(lane \cup exact)
    <2>1. Cardinality(lane) \in Nat /\ Cardinality(lane \cup exact) \in Nat
          /\ Cardinality(lane) <= Cardinality(lane \cup exact)
      BY <1>5, <1>6, <1>7, <1>8, AssertionsCount
    <2> QED BY <1>8, <2>1, PathsAssumption
  <1>10. rCached' = rCached
    BY DEF Retrieval!Cite, Retrieval!world
  <1>11. HasTyped'
    BY <1>2, <1>5, <1>6, <1>7, <1>8, <1>9, <1>10 DEF HasTyped, SameSearch
  <1>12. HasExact'
    BY <1>2 DEF HasExact
  <1>13. HasLanes'
    BY <1>1, <1>2 DEF FreshInv, SearchGoes, HasLanes, SameSearch
  <1>14. HasArtifacts' /\ HasRows'
    BY <1>1, <1>2, <1>10 DEF FreshInv, SearchGoes, HasArtifacts, HasRows, SameSearch, Early
  <1> QED BY <1>3, <1>11, <1>12, <1>13, <1>14 DEF FreshInv, SearchGoes

(* Vector hits are rows of the scope (dao.py:6573-6673). *)
LEMMA VectorFresh == ASSUME RetrievalInv, FreshInv, Retrieval!VectorLane PROVE FreshInv'
  <1>1. rSearch.step = "vector" /\ rSearch.step \notin Early
    BY DEF Retrieval!VectorLane, Retrieval!At, Early
  <1>0. PICK hits \in Retrieval!Cut(Retrieval!Searchable \cap rVec, Near) \cup {{}} :
           rSearch' = [rSearch EXCEPT !.step = "lexical",
              !.near = Retrieval!Allowed({a \in hits : Retrieval!Seen[a] \notin {"none", "gone"}})]
    BY DEF Retrieval!VectorLane
  <1>2. /\ SameSearch /\ rSearch'.step = "lexical" /\ rSearch'.typed = rSearch.typed
        /\ rSearch'.artifacts = rSearch.artifacts /\ rSearch'.rows = rSearch.rows
        /\ rSearch'.matched = rSearch.matched /\ rSearch'.cut = rSearch.cut
        /\ rSearch'.proofs = rSearch.proofs /\ rSearch'.exact = rSearch.exact
    BY <1>0 DEF RetrievalInv, SearchShape, SearchFields, SameSearch
  <1>3. VersionShape' /\ CacheCoherent' /\ Measured'
    BY <1>1, <1>2, QuietFresh DEF Retrieval!VectorLane, Retrieval!world, Retrieval!cache, Early
  <1>4. rSearch'.near \subseteq rSearch.rows
    <2>1. hits \subseteq rSearch.rows
      BY DEF Retrieval!Cut, Retrieval!Searchable
    <2>2. rSearch'.near = Retrieval!Allowed({a \in hits : Retrieval!Seen[a] \notin {"none", "gone"}})
      BY <1>0 DEF RetrievalInv, SearchShape, SearchFields
    <2> QED BY <2>1, <2>2 DEF Retrieval!Allowed
  <1>5. rSearch.rows \subseteq rSearch.ever \cap Assertion
    BY <1>1 DEF FreshInv, SearchGoes, HasRows, RetrievalInv, SearchShape, Early
  <1>7. rCached' = rCached
    BY DEF Retrieval!VectorLane, Retrieval!world
  <1>8. HasLanes'
    BY <1>1, <1>2, <1>4, <1>5 DEF FreshInv, SearchGoes, HasLanes, SameSearch
  <1>9. HasArtifacts' /\ HasRows' /\ HasTyped' /\ HasExact'
    BY <1>1, <1>2, <1>7 DEF FreshInv, SearchGoes, HasArtifacts, HasRows, HasTyped, HasExact,
       SameSearch, Early
  <1> QED BY <1>3, <1>8, <1>9 DEF FreshInv, SearchGoes

(* A path ends in an assertion of its own. *)
LEMMA LastIsIn ==
  ASSUME NEW p \in Seq(Assertion), p # << >>
  PROVE  Retrieval!Last(p) \in Retrieval!Range(p)
  BY DEF Retrieval!Last, Retrieval!Range

(* A path ends in a row of the scope (dao.py:7213-7366). *)
LEMMA GraphFresh == ASSUME RetrievalInv, FreshInv, Retrieval!GraphLane PROVE FreshInv'
  <1>1. rSearch.step = "graph" /\ rSearch.step \notin Early
    BY SMTT(60) DEF Retrieval!GraphLane, Retrieval!At, Early
  <1>10. PICK seeds : \E proofs \in SUBSET Retrieval!Proofs(seeds) :
            rSearch' = [rSearch EXCEPT !.step = "fuse", !.proofs = proofs]
    BY Zenon DEF Retrieval!GraphLane
  <1>2. PICK proofs \in SUBSET Retrieval!Proofs(seeds) :
           rSearch' = [rSearch EXCEPT !.step = "fuse", !.proofs = proofs]
    BY <1>10
  <1>3. /\ SameSearch /\ rSearch'.step = "fuse" /\ rSearch'.proofs = proofs
        /\ rSearch'.artifacts = rSearch.artifacts /\ rSearch'.rows = rSearch.rows
        /\ rSearch'.near = rSearch.near /\ rSearch'.matched = rSearch.matched
        /\ rSearch'.exact = rSearch.exact /\ rSearch'.cut = rSearch.cut
    BY <1>2 DEF RetrievalInv, SearchShape, SearchFields, SameSearch
  <1>4. VersionShape' /\ CacheCoherent' /\ Measured'
    BY <1>1, <1>3, QuietFresh DEF Retrieval!GraphLane, Retrieval!world, Retrieval!cache, Early
  <1>5. rSearch.rows \subseteq rSearch.ever \cap Assertion
    BY <1>1 DEF FreshInv, SearchGoes, HasRows, RetrievalInv, SearchShape, Early
  <1>6. ASSUME NEW p \in proofs PROVE Retrieval!Last(p) \in rSearch.ever \cap Assertion
    <2>1. p \in GraphPath /\ Retrieval!Range(p) \subseteq rSearch.rows
      BY DEF Retrieval!Proofs
    <2>2. p \in Seq(Assertion) /\ p # << >>
      BY <2>1, PathsAssumption
    <2> QED BY <1>5, <2>1, <2>2, LastIsIn
  <1>7. rCached' = rCached
    BY DEF Retrieval!GraphLane, Retrieval!world
  <1>8. HasLanes'
    BY <1>1, <1>3, <1>6, <1>7 DEF FreshInv, SearchGoes, HasLanes, SameSearch
  <1>9. HasArtifacts' /\ HasRows' /\ HasTyped' /\ HasExact'
    BY <1>1, <1>3, <1>7 DEF FreshInv, SearchGoes, HasArtifacts, HasRows, HasTyped, HasExact,
       SameSearch, Early
  <1> QED BY <1>4, <1>8, <1>9 DEF FreshInv, SearchGoes

\* While a search reads, its scopes follow its snapshot: what is rewritten in the last
\* one must be what that snapshot has.
LEMMA KeptFresh ==
  ASSUME RetrievalInv, FreshInv, rCached, rSearch.step \notin Early, rSearch'.step \notin Early,
         SameSearch, UNCHANGED <<rMem, rCommits, rCached, rVersion, rOwner, rFaults>>,
         rConn'.version = rConn.version, rConn'.id = rConn.id,
         NEW row \in ScopeRow, row.key = rSearch.key, Retrieval!Keep(row),
         Holds(rSearch.at, rConn'.tables, row),
         \A i \in 1..Len(rScopes) :
            i # Len(rScopes) /\ Holds(rSearch.at, rConn.tables, rScopes[i])
               => Holds(rSearch.at, rConn'.tables, rScopes[i])
  PROVE  VersionShape' /\ CacheCoherent' /\ Measured'
  <1> DEFINE n == Len(rScopes)
  <1>1. n \in 1..Len(rScopes) /\ rScopes \in Seq(ScopeRow)
    BY MineIsRow DEF RetrievalInv, ScopesShape
  <1>2. rScopes' = [rScopes EXCEPT ![n] = row]
    BY DEF Retrieval!Keep
  <1>3. /\ rScopes' \in Seq(ScopeRow) /\ Len(rScopes') = n
        /\ \A i \in 1..n : rScopes'[i] = IF i = n THEN row ELSE rScopes[i]
    BY <1>1, <1>2
  <1>4. Retrieval!Mine' = row
    BY <1>1, <1>3 DEF Retrieval!Mine, Retrieval!Last
  <1>5. VersionShape'
    BY DEF FreshInv, VersionShape
  <1>6. Measured'
    BY DEF FreshInv, Measured, EligibleNow, Pinned, SameSearch, Early
  <1>7. Coherent(rSearch.at) /\ rVersion = rConn.version
    BY DEF FreshInv, CacheCoherent, Pinned, Early
  <1>8. Coherent(rSearch.at)'
    BY <1>1, <1>3, <1>7 DEF Coherent, SameSearch
  <1>9. rConn.version = rCommits => rSearch.at = rMem
    BY DEF FreshInv, CacheCoherent, Pinned, Early
  <1>10. CacheCoherent'
    BY <1>4, <1>7, <1>8, <1>9 DEF CacheCoherent, Pinned, SameSearch, Early
  <1> QED BY <1>5, <1>6, <1>10

(* Rows are read from the snapshot, or from a scope that agrees with it (dao.py:6060-6083). *)
LEMMA LoadRowsFresh == ASSUME RetrievalInv, FreshInv, Retrieval!LoadRows PROVE FreshInv'
  <1> DEFINE rows == IF rCached /\ Retrieval!Mine.loaded THEN Retrieval!Mine.rows
                     ELSE Retrieval!Eligible(Retrieval!Seen, rSearch.key)
  <1>1. rSearch.step = "rows" /\ rSearch.step \notin Early
    BY DEF Retrieval!LoadRows, Retrieval!At, Early
  <1>2. rows = Retrieval!Eligible(Retrieval!Seen, rSearch.key)
    BY <1>1, MineHolds DEF Holds, Retrieval!Seen
  <1>3. /\ SameSearch /\ rSearch'.step = "cite" /\ rSearch'.rows = rows
        /\ rSearch'.artifacts = rSearch.artifacts /\ SameLanes
    BY <1>1 DEF Retrieval!LoadRows, RetrievalInv, SearchShape, SearchFields, SameSearch, SameLanes
  <1>4. UNCHANGED <<rMem, rCommits, rCached, rConn, rVersion, rOwner, rFaults>>
    BY DEF Retrieval!LoadRows, Retrieval!world
  <1>5. VersionShape' /\ CacheCoherent' /\ Measured'
    <2>1. CASE rCached
      <3> DEFINE row == [Retrieval!Mine EXCEPT !.loaded = TRUE, !.rows = rows,
                                                 !.artifacts = rSearch.artifacts]
      <3>1. Retrieval!Mine \in ScopeRow /\ Holds(rSearch.at, rConn.tables, Retrieval!Mine)
            /\ Retrieval!Mine.key = rSearch.key
        BY <1>1, <2>1, MineIsRow, MineHolds
      <3>2. rows \subseteq Assertion /\ rSearch.artifacts \subseteq Assertion
        BY <1>2, EligibleIn DEF RetrievalInv, SearchShape
      <3>3. /\ row \in ScopeRow /\ row.key = rSearch.key /\ row.table = Retrieval!Mine.table
            /\ row.built = Retrieval!Mine.built /\ row.loaded = TRUE
            /\ row.artifacts = rSearch.artifacts /\ row.rows = rows
        BY <3>1, <3>2 DEF ScopeRow
      <3>4. Retrieval!Keep(row)
        BY <2>1 DEF Retrieval!LoadRows
      <3> HIDE DEF row
      <3>5. rSearch.artifacts = Retrieval!Artifacts(rSearch.at, rSearch.key)
        BY <1>1, <2>1 DEF FreshInv, SearchGoes, HasArtifacts, Early
      <3>6. Holds(rSearch.at, rConn.tables, row)
        BY <1>2, <2>1, <3>1, <3>3, <3>5 DEF Holds, Retrieval!Seen
      <3> QED BY <1>1, <1>3, <1>4, <2>1, <3>3, <3>4, <3>6, KeptFresh DEF Early
    <2>2. CASE ~rCached
      <3>1. rScopes' = rScopes
        BY <2>2 DEF Retrieval!LoadRows
      <3> QED BY <1>1, <1>3, <1>4, <3>1, QuietFresh DEF Early
    <2> QED BY <2>1, <2>2
  <1>6. EligibleNow(Retrieval!Seen)
    BY <1>1, SeenNow
  <1> HIDE DEF rows
  <1>7. HasRows'
    BY <1>2, <1>3, <1>4, <1>6 DEF HasRows, SameSearch, EligibleNow, Retrieval!Seen
  <1>8. HasArtifacts' /\ HasTyped' /\ HasLanes' /\ HasExact'
    BY <1>1, <1>3, <1>4 DEF FreshInv, SearchGoes, HasArtifacts, HasTyped, HasLanes, HasExact,
       SameSearch, SameLanes, Early
  <1> QED BY <1>5, <1>7, <1>8 DEF FreshInv, SearchGoes

\* The index of a scope, kept or made now, has every row of it.
LEMMA IndexIsEligible ==
  ASSUME RetrievalInv, FreshInv, rSearch.step \notin Early
  PROVE  Retrieval!IndexRows = Retrieval!Eligible(Retrieval!Seen, rSearch.key)
  BY MineHolds DEF Retrieval!IndexRows, Holds, Retrieval!Seen

(* The words find whatever is not cited and the citations what is, so that the pool of the lexical
   lane misses nothing the scope had all the time, unless a limit cut it; with the cache every row
   of it counts (dao.py:6675-6832). *)
LEMMA PoolIsWhole ==
  ASSUME RetrievalInv, FreshInv, rSearch.step = "lexical",
         NEW words \in {Assertion, Assertion \ Cited}, NEW passages \in Retrieval!Passages(words),
         NEW pool, pool = passages \cup rSearch.typed
  PROVE  /\ pool \subseteq rSearch.ever \cap Assertion
         /\ Retrieval!Allowed(pool) \subseteq pool
         /\ IF rSearch.cut \/ passages # Retrieval!Hits(words)
            THEN rCached => Limit <= Cardinality(Retrieval!Allowed(pool))
            ELSE rSearch.always \subseteq Retrieval!Allowed(pool)
  <1>1. rSearch.step \notin Early
    BY DEF Early
  <1>2. EligibleNow(Retrieval!Seen)
    BY <1>1, SeenNow DEF Early
  <1>3. /\ rSearch.always \subseteq rSearch.artifacts /\ rSearch.always \subseteq rSearch.rows
        /\ rSearch.typed \subseteq rSearch.ever \cap Assertion
        /\ ~rSearch.cut => rSearch.always \cap Cited \subseteq rSearch.typed
    BY <1>1 DEF FreshInv, SearchGoes, HasArtifacts, HasRows, HasTyped, Early
  <1>4. Retrieval!Hits(words) = Retrieval!Eligible(Retrieval!Seen, rSearch.key) \cap words
    BY <1>1, IndexIsEligible DEF Retrieval!Hits
  <1>5. PICK hits : hits = Retrieval!Hits(words)
    OBVIOUS
  <1>6. hits \subseteq rSearch.ever \cap Assertion
    BY <1>2, <1>4, <1>5, EligibleIn DEF EligibleNow
  <1>7. passages \subseteq hits /\ (passages = hits \/ Cardinality(passages) = Pool)
    BY <1>5, <1>6, PathsAssumption, CutIs DEF Retrieval!Passages
  <1>8. pool \subseteq rSearch.ever \cap Assertion /\ Retrieval!Allowed(pool) \subseteq pool
    BY <1>3, <1>6, <1>7 DEF Retrieval!Allowed
  <1>9. ASSUME ~rSearch.cut, passages = hits PROVE rSearch.always \subseteq Retrieval!Allowed(pool)
    <2>1. ASSUME NEW a \in rSearch.always PROVE a \in pool
      <3>1. a \in Retrieval!Eligible(Retrieval!Seen, rSearch.key)
        BY <1>2 DEF EligibleNow
      <3>2. a \in Assertion
        BY <3>1, EligibleIn
      <3>3. CASE a \in Cited
        BY <1>3, <1>9, <3>3
      <3>4. CASE a \notin Cited
        BY <1>4, <1>5, <1>9, <3>1, <3>2, <3>4
      <3> QED BY <3>3, <3>4
    <2>2. \A a \in rSearch.always : TopicOf[a] \in Retrieval!AllowedEntities
      BY <1>3 DEF Retrieval!AllowedEntities, Retrieval!Subjects
    <2> QED BY <2>1, <2>2 DEF Retrieval!Allowed
  <1>10. ASSUME rCached, rSearch.cut \/ passages # hits
         PROVE  Limit <= Cardinality(Retrieval!Allowed(pool))
    <2>1. /\ rSearch.rows = Retrieval!Eligible(rSearch.at, rSearch.key)
          /\ rSearch.artifacts = Retrieval!Artifacts(rSearch.at, rSearch.key)
          /\ rSearch.typed \subseteq rSearch.rows
          /\ rSearch.cut => Limit <= Cardinality(rSearch.typed)
      BY <1>1, <1>10 DEF FreshInv, SearchGoes, HasArtifacts, HasRows, HasTyped, Early
    <2>2. rSearch.rows \subseteq rSearch.artifacts
      BY <2>1, EligibleIsRegistered
    <2>3. hits \subseteq rSearch.rows
      BY <1>4, <1>5, <1>10, <2>1 DEF Retrieval!Seen
    <2>4. pool \subseteq rSearch.rows
      BY <1>7, <2>1, <2>3
    <2>5. \A a \in pool : TopicOf[a] \in Retrieval!AllowedEntities
      BY <2>2, <2>4 DEF Retrieval!AllowedEntities, Retrieval!Subjects
    <2>6. Retrieval!Allowed(pool) = pool
      BY <2>5 DEF Retrieval!Allowed
    <2>7. /\ Cardinality(passages) \in Nat /\ Cardinality(pool) \in Nat
          /\ Cardinality(rSearch.typed) \in Nat
          /\ Cardinality(passages) <= Cardinality(pool)
          /\ Cardinality(rSearch.typed) <= Cardinality(pool)
      BY <1>8, AssertionsCount
    <2>8. Limit \in Nat /\ Pool \in Nat /\ Limit <= Pool
      BY PathsAssumption
    <2>9. Limit <= Cardinality(rSearch.typed) \/ Limit <= Cardinality(passages)
      BY <1>7, <1>10, <2>1, <2>8
    <2>10. Limit <= Cardinality(pool)
      BY <2>7, <2>8, <2>9
    <2> QED BY <2>6, <2>10
  <1> QED BY <1>5, <1>8, <1>9, <1>10

(* The lexical lane completes the candidates and leaves an index of the snapshot
   (dao.py:6742-6932). *)
LEMMA LexicalFresh ==
  ASSUME RetrievalInv, FreshInv, NEW words \in {Assertion, Assertion \ Cited},
         Retrieval!LexicalLane(words)
  PROVE  FreshInv'
  <1>1. rSearch.step = "lexical" /\ rSearch.step \notin Early
    BY DEF Retrieval!LexicalLane, Retrieval!At, Early
  <1>2. PICK passages \in Retrieval!Passages(words) :
           rSearch' = [rSearch EXCEPT !.step = "graph", !.typed = {},
                         !.matched = Retrieval!Allowed(passages \cup rSearch.typed),
                         !.cut = rSearch.cut \/ passages # Retrieval!Hits(words)]
    BY DEF Retrieval!LexicalLane
  <1> DEFINE pool == passages \cup rSearch.typed
  <1>3. /\ SameSearch /\ rSearch'.step = "graph" /\ rSearch'.matched = Retrieval!Allowed(pool)
        /\ rSearch'.cut = (rSearch.cut \/ passages # Retrieval!Hits(words))
        /\ rSearch'.artifacts = rSearch.artifacts /\ rSearch'.rows = rSearch.rows
        /\ rSearch'.near = rSearch.near /\ rSearch'.proofs = rSearch.proofs
        /\ rSearch'.exact = rSearch.exact
    BY <1>2 DEF RetrievalInv, SearchShape, SearchFields, SameSearch
  <1>5. UNCHANGED <<rMem, rCommits, rCached, rVersion, rOwner, rFaults>>
    BY DEF Retrieval!LexicalLane, Retrieval!world
  <1>6. VersionShape' /\ CacheCoherent' /\ Measured'
    <2>1. CASE rCached /\ ~Retrieval!Mine.built
      <3> DEFINE row == [Retrieval!Mine EXCEPT !.built = TRUE]
                 id == Retrieval!Mine.table
      <3>1. Retrieval!Mine \in ScopeRow /\ Holds(rSearch.at, rConn.tables, Retrieval!Mine)
            /\ Retrieval!Mine.key = rSearch.key /\ Retrieval!Mine = rScopes[Len(rScopes)]
            /\ Len(rScopes) \in 1..Len(rScopes)
        BY <1>1, <2>1, MineIsRow, MineHolds
      <3>2. /\ row \in ScopeRow /\ row.key = rSearch.key /\ row.table = id /\ row.built = TRUE
            /\ row.loaded = Retrieval!Mine.loaded /\ row.artifacts = Retrieval!Mine.artifacts
            /\ row.rows = Retrieval!Mine.rows
        BY <3>1 DEF ScopeRow
      <3>3. /\ Retrieval!Keep(row)
            /\ rConn' = [rConn EXCEPT !.tables =
                              Retrieval!Created(@, Retrieval!Mine.table, Retrieval!IndexRows)]
        BY <2>1 DEF Retrieval!LexicalLane
      <3>4. /\ rConn'.id = rConn.id /\ rConn'.version = rConn.version
            /\ rConn'.tables = Retrieval!Created(rConn.tables, id, Retrieval!IndexRows)
        BY <3>3 DEF RetrievalInv, ConnShape
      <3>5. Retrieval!IndexRows = Retrieval!Eligible(rSearch.at, rSearch.key)
        BY <1>1, <2>1, IndexIsEligible DEF Retrieval!Seen
      <3> HIDE DEF row
      <3>6. rConn'.tables[id] = Retrieval!Eligible(rSearch.at, rSearch.key)
        BY <3>4, <3>5 DEF Retrieval!Created
      <3>7. Holds(rSearch.at, rConn'.tables, row)
        BY <3>1, <3>2, <3>6 DEF Holds
      <3>8. ASSUME NEW i \in 1..Len(rScopes), i # Len(rScopes),
                   Holds(rSearch.at, rConn.tables, rScopes[i])
            PROVE  Holds(rSearch.at, rConn'.tables, rScopes[i])
        <4>1. rScopes[i].table # id
          BY <3>1, <3>8 DEF RetrievalInv, ScopesShape
        <4>2. rScopes[i].built => rScopes[i].table \in DOMAIN rConn.tables
          <5>1. rOwner = rConn.id /\ i \in DOMAIN rScopes
            BY <1>1, <2>1 DEF RetrievalInv, Searching, ScopesShape, Early
          <5> QED BY <5>1 DEF RetrievalInv, OwnTables, BuiltTables
        <4>3. rScopes[i].built => rConn'.tables[rScopes[i].table] = rConn.tables[rScopes[i].table]
          BY <3>4, <4>1, <4>2 DEF Retrieval!Created
        <4> QED BY <3>8, <4>3 DEF Holds
      <3> QED BY <1>1, <1>3, <1>5, <2>1, <3>2, <3>3, <3>4, <3>7, <3>8, KeptFresh DEF Early
    <2>2. CASE ~(rCached /\ ~Retrieval!Mine.built)
      <3>1. UNCHANGED <<rScopes, rConn>>
        BY <2>2 DEF Retrieval!LexicalLane
      <3> QED BY <1>1, <1>3, <1>5, <3>1, QuietFresh DEF Early
    <2> QED BY <2>1, <2>2
  <1>7. /\ Retrieval!Allowed(pool) \subseteq rSearch.ever \cap Assertion
        /\ IF rSearch.cut \/ passages # Retrieval!Hits(words)
           THEN rCached => Limit <= Cardinality(Retrieval!Allowed(pool))
           ELSE rSearch.always \subseteq Retrieval!Allowed(pool)
    <2>1. pool = passages \cup rSearch.typed /\ passages \in Retrieval!Passages(words)
      BY <1>2
    <2> HIDE DEF pool
    <2>2. /\ pool \subseteq rSearch.ever \cap Assertion
          /\ Retrieval!Allowed(pool) \subseteq pool
          /\ IF rSearch.cut \/ passages # Retrieval!Hits(words)
             THEN rCached => Limit <= Cardinality(Retrieval!Allowed(pool))
             ELSE rSearch.always \subseteq Retrieval!Allowed(pool)
      BY <1>1, <2>1, PoolIsWhole, Zenon
    <2> QED BY <2>2
  <1> HIDE DEF pool
  <1>8. HasLanes'
    BY <1>1, <1>3, <1>5, <1>7 DEF FreshInv, SearchGoes, HasLanes, SameSearch
  <1>9. HasArtifacts' /\ HasRows' /\ HasTyped' /\ HasExact'
    BY <1>1, <1>3, <1>5 DEF FreshInv, SearchGoes, HasArtifacts, HasRows, HasTyped, HasExact,
       SameSearch, Early
  <1> QED BY <1>6, <1>8, <1>9 DEF FreshInv, SearchGoes

\* The catalog moves on, the search is measured against what it becomes.
LEMMA CommitFresh ==
  ASSUME RetrievalInv, FreshInv, NEW a \in Assertion, NEW st \in Retrieval!State,
         Retrieval!Commit(a, st)
  PROVE  FreshInv'
  <1>1. UNCHANGED <<rCached, rConn, rScopes, rVersion, rOwner, rFaults>> /\ rCommits' = rCommits + 1
    BY DEF Retrieval!Commit, Retrieval!cache
  <1>2. VersionShape'
    BY <1>1 DEF FreshInv, VersionShape
  <1>3. rVersion # rCommits' /\ rConn.version # rCommits'
    BY <1>1 DEF FreshInv, VersionShape
  <1>4. \A m : Coherent(m)' <=> Coherent(m)
    BY <1>1 DEF Coherent
  <1>5. Retrieval!Mine' = Retrieval!Mine
    BY <1>1 DEF Retrieval!Mine
  <1>6. CASE rSearch.step = "idle"
    <2>1. rSearch' = rSearch
      BY <1>6 DEF Retrieval!Commit, Retrieval!At
    <2>2. CacheCoherent'
      BY <1>1, <1>3, <1>6, <2>1 DEF CacheCoherent, Pinned
    <2>3. Measured' /\ SearchGoes'
      BY <1>1, <1>6, <2>1 DEF FreshInv, Measured, Pinned, SearchGoes, HasArtifacts, HasRows,
         HasTyped, HasLanes, HasExact, Early
    <2> QED BY <1>2, <2>2, <2>3 DEF FreshInv
  <1>7. CASE rSearch.step # "idle"
    <2> DEFINE now == Retrieval!Eligible(rMem', rSearch.key)
    <2>1. /\ rSearch'.step = rSearch.step /\ rSearch'.key = rSearch.key /\ rSearch'.at = rSearch.at
          /\ rSearch'.artifacts = rSearch.artifacts /\ rSearch'.rows = rSearch.rows
          /\ rSearch'.typed = rSearch.typed /\ SameLanes
          /\ rSearch'.always = rSearch.always \cap now
          /\ rSearch'.ever = rSearch.ever \cup now
      BY <1>7 DEF Retrieval!Commit, Retrieval!At, RetrievalInv, SearchShape, SearchFields, SameLanes
    <2>2. CacheCoherent'
      BY <1>1, <1>3, <1>4, <1>5, <2>1 DEF FreshInv, CacheCoherent, Pinned
    <2>3. Measured'
      BY <1>1, <2>1 DEF FreshInv, Measured, EligibleNow, Pinned
    <2>4. HasArtifacts' /\ HasRows'
      BY <1>1, <2>1 DEF FreshInv, SearchGoes, HasArtifacts, HasRows
    <2>5. HasTyped' /\ HasLanes' /\ HasExact'
      BY <1>1, <2>1 DEF FreshInv, SearchGoes, HasTyped, HasLanes, HasExact, SameLanes
    <2> QED BY <1>2, <2>2, <2>3, <2>4, <2>5 DEF FreshInv, SearchGoes
  <1> QED BY <1>6, <1>7

\* A search that is over, or has not begun to read.
LEMMA IdleFresh ==
  ASSUME FreshInv, VersionShape', rSearch'.step = "idle",
         rOwner' = rConn'.id /\ rVersion' = rCommits' => Coherent(rMem)'
  PROVE  FreshInv'
  BY DEF FreshInv, CacheCoherent, Measured, Pinned, SearchGoes, HasArtifacts, HasRows, HasTyped,
     HasLanes, HasExact, Early

(* An answer leaves the scopes as they are (dao.py:7653-7824). *)
LEMMA AnswerFresh == ASSUME RetrievalInv, FreshInv, Retrieval!Answer PROVE FreshInv'
  <1>1. rSearch'.step = "idle"
    BY DEF Retrieval!Answer, Retrieval!NoSearch
  <1>2. /\ rConn'.id = rConn.id /\ rConn'.tables = rConn.tables /\ rConn'.version = rConn.version
        /\ UNCHANGED <<rMem, rCommits, rScopes, rVersion, rOwner, rFaults>>
    BY DEF Retrieval!Answer, RetrievalInv, ConnShape, Retrieval!world, Retrieval!cache
  <1>3. VersionShape' /\ (Coherent(rMem)' <=> Coherent(rMem))
    BY <1>2 DEF FreshInv, VersionShape, Coherent
  <1> QED BY <1>1, <1>2, <1>3, IdleFresh DEF FreshInv, CacheCoherent

(* Whoever gives up forgets the version, and with it the scopes (dao.py:5904-5911). *)
LEMMA GiveUpFresh ==
  ASSUME RetrievalInv, FreshInv, Retrieval!GiveUp, rFaults' \in Nat PROVE FreshInv'
  <1>1. rSearch'.step = "idle"
    BY DEF Retrieval!GiveUp, Retrieval!NoSearch
  <1>2. UNCHANGED <<rMem, rCommits, rOwner>>
    BY DEF Retrieval!GiveUp, Retrieval!world
  <1>3. CASE rCached
    <2>1. rVersion' = -1 /\ rConn'.version = rConn.version
      BY <1>3 DEF Retrieval!GiveUp, RetrievalInv, ConnShape
    <2>2. VersionShape' /\ rVersion' # rCommits'
      BY <1>2, <2>1 DEF FreshInv, VersionShape
    <2> QED BY <1>1, <2>2, IdleFresh
  <1>4. CASE ~rCached
    <2>1. UNCHANGED <<rScopes, rVersion, rConn>>
      BY <1>4 DEF Retrieval!GiveUp
    <2>2. VersionShape' /\ (Coherent(rMem)' <=> Coherent(rMem))
      BY <1>2, <2>1 DEF FreshInv, VersionShape, Coherent
    <2> QED BY <1>1, <1>2, <2>1, <2>2, IdleFresh DEF FreshInv, CacheCoherent
  <1> QED BY <1>3, <1>4 DEF RetrievalInv, ScopesShape

(* Scopes of another connection are not trusted (sqlite_engine.py:382-388). *)
LEMMA ReopenFresh == ASSUME RetrievalInv, FreshInv, Retrieval!Reopen PROVE FreshInv'
  <1>1. rSearch'.step = "idle" /\ UNCHANGED <<rCommits, rVersion, rOwner>>
    BY DEF Retrieval!Reopen, Retrieval!At, Retrieval!world, Retrieval!cache
  <1>2. rConn'.version = 0 /\ rConn'.id = rConn.id + 1 /\ rFaults' = rFaults + 1
    BY DEF Retrieval!Reopen, Retrieval!Fault
  <1>3. VersionShape' /\ rOwner' # rConn'.id
    BY <1>1, <1>2 DEF FreshInv, VersionShape, RetrievalInv, ConnShape
  <1> QED BY <1>1, <1>3, IdleFresh

(* Projections change no scope. *)
LEMMA ProjectFresh ==
  ASSUME FreshInv, NEW a \in Assertion, Retrieval!Project(a) PROVE FreshInv'
  <1>1. UNCHANGED <<rMem, rCommits, rCached, rConn, rScopes, rVersion, rOwner, rSearch, rFaults>>
    BY DEF Retrieval!Project, Retrieval!cache
  <1>2. Retrieval!Mine' = Retrieval!Mine /\ (\A m : Coherent(m)' <=> Coherent(m))
    BY <1>1 DEF Retrieval!Mine, Coherent
  <1>3. CacheCoherent'
    BY <1>1, <1>2 DEF FreshInv, CacheCoherent, Pinned
  <1> QED BY <1>1, <1>3 DEF FreshInv, VersionShape, Measured, EligibleNow, Pinned, SearchGoes,
        HasArtifacts, HasRows, HasTyped, HasLanes, HasExact

(* A search begins with the scopes of its connection, or with none (dao.py:5856-5866). *)
LEMMA BeginFresh ==
  ASSUME RetrievalInv, FreshInv, NEW k \in SearchScope, Retrieval!Begin(k) PROVE FreshInv'
  <1>1. /\ rSearch'.step = IF rCached THEN "begin" ELSE "artifacts"
        /\ rSearch'.key = k /\ rSearch'.always = Retrieval!Eligible(rMem, k)
        /\ rSearch'.ever = Retrieval!Eligible(rMem, k)
        /\ rSearch'.near = {} /\ rSearch'.matched = {} /\ rSearch'.proofs = {}
    BY DEF Retrieval!Begin, Retrieval!NoSearch
  <1>2. /\ rConn'.id = rConn.id /\ rConn'.tables = rConn.tables /\ rConn'.version = rConn.version
        /\ UNCHANGED <<rMem, rCommits, rCached, rFaults>>
    BY DEF Retrieval!Begin, RetrievalInv, ConnShape, Retrieval!world
  <1>3. /\ VersionShape'
        /\ rOwner' = rConn'.id /\ rVersion' = rCommits' => Coherent(rMem)'
    <2>1. CASE rCached /\ rOwner # rConn.id
      <3>1. rVersion' = -1
        BY <2>1 DEF Retrieval!Begin
      <3> QED BY <1>2, <3>1 DEF FreshInv, VersionShape
    <2>2. CASE ~(rCached /\ rOwner # rConn.id)
      <3>1. UNCHANGED <<rScopes, rVersion, rOwner>>
        BY <2>2 DEF Retrieval!Begin
      <3>2. VersionShape' /\ (Coherent(rMem)' <=> Coherent(rMem))
        BY <1>2, <3>1 DEF FreshInv, VersionShape, Coherent
      <3> QED BY <1>2, <3>1, <3>2 DEF FreshInv, CacheCoherent
    <2> QED BY <2>1, <2>2
  <1>4. ~Pinned'
    BY <1>1, <1>2 DEF Pinned
  <1>5. CacheCoherent'
    BY <1>3, <1>4 DEF CacheCoherent
  <1>6. Measured'
    BY <1>1, <1>2, <1>4 DEF Measured, EligibleNow
  <1>7. SearchGoes'
    BY <1>1 DEF SearchGoes, HasArtifacts, HasRows, HasTyped, HasLanes, HasExact, Early
  <1> QED BY <1>3, <1>5, <1>6, <1>7 DEF FreshInv

(* The version is read after the snapshot is fixed, so that equal versions mean equal rows
   (dao.py:5866-5876). *)
LEMMA PinFresh == ASSUME RetrievalInv, FreshInv, Retrieval!Pin PROVE FreshInv'
  <1>1. /\ rSearch.step = "begin"
        /\ UNCHANGED <<rMem, rCommits, rCached, rScopes, rVersion, rOwner, rFaults>>
    BY DEF Retrieval!Pin, Retrieval!At, Retrieval!world, Retrieval!cache
  <1>2. /\ rSearch'.step = "scope" /\ rSearch'.at = rMem /\ rSearch'.key = rSearch.key
        /\ rSearch'.always = rSearch.always /\ rSearch'.ever = rSearch.ever
        /\ SameLanes
    BY DEF Retrieval!Pin, RetrievalInv, SearchShape, SearchFields, SameLanes
  <1>3. rConn'.id = rConn.id /\ rConn'.tables = rConn.tables /\ rConn'.version = rCommits
    BY DEF Retrieval!Pin, RetrievalInv, ConnShape
  <1>4. VersionShape'
    BY <1>1, <1>3 DEF FreshInv, VersionShape
  <1>5. \A m : Coherent(m)' <=> Coherent(m)
    BY <1>1, <1>3 DEF Coherent
  <1>6. CacheCoherent'
    <2>1. ASSUME rOwner' = rConn'.id, rVersion' = rCommits' PROVE Coherent(rMem)'
      BY <1>1, <1>3, <1>5, <2>1 DEF FreshInv, CacheCoherent
    <2>2. ASSUME Pinned' PROVE rOwner' = rConn'.id
      BY <1>1, <1>3, <2>2 DEF Pinned, RetrievalInv, Searching
    <2>3. ASSUME Pinned', rVersion' = rConn'.version PROVE Coherent(rSearch.at)'
      BY <1>1, <1>2, <1>3, <1>5, <2>1, <2>2, <2>3
    <2> QED BY <1>1, <1>2, <2>1, <2>3 DEF CacheCoherent
  <1>7. Measured'
    BY <1>1, <1>2 DEF FreshInv, Measured, EligibleNow, Pinned
  <1>8. SearchGoes'
    BY <1>1, <1>2 DEF FreshInv, SearchGoes, HasArtifacts, HasRows, HasTyped, HasLanes, HasExact,
       SameLanes, Early
  <1> QED BY <1>4, <1>6, <1>7, <1>8 DEF FreshInv

\* A scope found again holds what it held, as its index was not dropped; a new one
\* holds nothing yet.
LEMMA UseScopeFresh == ASSUME RetrievalInv, FreshInv, Retrieval!UseScope PROVE FreshInv'
  <1>1. rSearch.step = "scope" /\ UNCHANGED <<rMem, rCommits, rCached, rOwner, rFaults>>
    BY DEF Retrieval!UseScope, Retrieval!At, Retrieval!world
  <1>2. /\ SameSearch /\ rSearch'.step = "artifacts" /\ SameLanes
    BY <1>1 DEF Retrieval!UseScope, RetrievalInv, SearchShape, SearchFields, SameSearch, SameLanes
  <1>3. /\ rConn'.id = rConn.id /\ rConn'.version = rConn.version /\ rVersion' = rConn.version
        /\ rConn'.tables = Retrieval!Dropped(rConn.tables,
                               Retrieval!TablesOf(rScopes) \ Retrieval!TablesOf(rScopes'))
    BY DEF Retrieval!UseScope, RetrievalInv, ConnShape
  <1>4. VersionShape'
    BY <1>1, <1>3 DEF FreshInv, VersionShape
  <1>5. ScopesMoved
    BY UseScopeMoves
  <1>6. ASSUME rCached PROVE Coherent(rSearch.at)'
    <2>1. ~Retrieval!Changed => Coherent(rSearch.at)
      BY <1>1, <1>6 DEF FreshInv, CacheCoherent, Pinned, Retrieval!Changed
    <2>2. SUFFICES ASSUME NEW j \in 1..Len(rScopes')
                   PROVE  Holds(rSearch.at, rConn'.tables, rScopes'[j])
      BY <1>2 DEF Coherent, SameSearch
    <2>3. CASE Fresh(rScopes'[j])
      BY <2>3 DEF Fresh, Holds
    <2>4. CASE ~Fresh(rScopes'[j])
      <3>1. PICK k \in 1..Len(rScopes) : rScopes'[j] = rScopes[k]
        BY <1>5, <2>2, <2>4 DEF ScopesMoved, Renewed
      <3>2. ~Retrieval!Changed
        BY <1>5, <2>2, <2>4 DEF ScopesMoved
      <3>3. Holds(rSearch.at, rConn.tables, rScopes[k])
        BY <2>1, <3>1, <3>2 DEF Coherent
      <3>4. rScopes[k].built => rScopes[k].table \in DOMAIN rConn.tables
        <4>1. rOwner = rConn.id /\ k \in DOMAIN rScopes
          BY <1>1, <1>6, <3>1 DEF RetrievalInv, Searching, ScopesShape
        <4> QED BY <4>1 DEF RetrievalInv, OwnTables, BuiltTables
      <3>5. rScopes[k].table \in Retrieval!TablesOf(rScopes')
        <4>1. j \in DOMAIN rScopes'
          BY <1>5, <2>2 DEF ScopesMoved, Renewed
        <4> QED BY <3>1, <4>1 DEF Retrieval!TablesOf
      <3>6. rScopes[k].built => rConn'.tables[rScopes[k].table] = rConn.tables[rScopes[k].table]
        BY <1>3, <3>4, <3>5 DEF Retrieval!Dropped
      <3> QED BY <3>1, <3>3, <3>6 DEF Holds
    <2> QED BY <2>3, <2>4
  <1>7. rCached /\ rConn.version = rCommits => rSearch.at = rMem
    BY <1>1 DEF FreshInv, CacheCoherent, Pinned
  <1>8. CacheCoherent'
    <2>1. ASSUME rOwner' = rConn'.id, rVersion' = rCommits' PROVE Coherent(rMem)'
      <3>1. rCached
        BY <1>1, <1>3, <2>1 DEF RetrievalInv, Searching, ConnShape
      <3>2. rSearch'.at = rMem'
        BY <1>1, <1>2, <1>3, <1>7, <2>1, <3>1 DEF SameSearch
      <3> QED BY <1>6, <3>1, <3>2 DEF Coherent
    <2>2. Retrieval!Mine'.key = rSearch'.key
      BY <1>2, <1>5 DEF ScopesMoved, SameSearch
    <2> QED BY <1>1, <1>2, <1>3, <1>6, <1>7, <2>1, <2>2 DEF CacheCoherent, Pinned, SameSearch
  <1>9. Measured'
    BY <1>1, <1>2 DEF FreshInv, Measured, EligibleNow, Pinned, SameSearch
  <1>10. SearchGoes'
    BY <1>1, <1>2 DEF FreshInv, SearchGoes, HasArtifacts, HasRows, HasTyped, HasLanes, HasExact,
       SameSearch, SameLanes, Early
  <1> QED BY <1>4, <1>8, <1>9, <1>10 DEF FreshInv

(* FreshInv is inductive relative to RetrievalInv. *)
LEMMA FreshStep ==
  ASSUME RetrievalInv, FreshInv, [Retrieval!Next]_(Retrieval!vars) PROVE FreshInv'
  <1>1. CASE Retrieval!Search
    <2>1. \/ \E k \in SearchScope : Retrieval!Begin(k)
          \/ Retrieval!Pin \/ Retrieval!UseScope \/ Retrieval!LoadArtifacts \/ Retrieval!LoadRows
          \/ Retrieval!Cite \/ Retrieval!VectorLane
          \/ \E words \in {Assertion, Assertion \ Cited} :
                Retrieval!LexicalLane(words) \/ Retrieval!Abort(words)
          \/ Retrieval!GraphLane \/ Retrieval!Answer
      BY <1>1 DEF Retrieval!Search
    <2>2. ASSUME NEW words, Retrieval!Abort(words) PROVE FreshInv'
      BY <2>2, GiveUpFresh DEF Retrieval!Abort, FreshInv, VersionShape
    <2> QED BY <2>1, <2>2, BeginFresh, PinFresh, UseScopeFresh, LoadArtifactsFresh, LoadRowsFresh,
          CiteFresh, VectorFresh, LexicalFresh, GraphFresh, AnswerFresh
  <1>2. CASE Retrieval!Fail
    BY <1>2, GiveUpFresh DEF Retrieval!Fail, Retrieval!Fault, FreshInv, VersionShape
  <1>3. CASE Retrieval!Reopen
    BY <1>3, ReopenFresh
  <1>4. CASE \E a \in Assertion : \/ Retrieval!Project(a)
                                  \/ \E st \in Retrieval!State : Retrieval!Commit(a, st)
    BY <1>4, ProjectFresh, CommitFresh
  <1>5. CASE UNCHANGED Retrieval!vars
    <2>1. UNCHANGED <<rMem, rCommits, rCached, rConn, rScopes, rVersion, rOwner, rSearch, rFaults>>
      BY <1>5 DEF Retrieval!vars
    <2>2. Retrieval!Mine' = Retrieval!Mine /\ (\A m : Coherent(m)' <=> Coherent(m))
      BY <2>1 DEF Retrieval!Mine, Coherent
    <2>3. CacheCoherent'
      BY <2>1, <2>2 DEF FreshInv, CacheCoherent, Pinned
    <2> QED BY <2>1, <2>3 DEF FreshInv, VersionShape, Measured, EligibleNow, Pinned, SearchGoes,
          HasArtifacts, HasRows, HasTyped, HasLanes, HasExact
  <1> QED BY <1>1, <1>2, <1>3, <1>4, <1>5 DEF Retrieval!Next

(* Nothing is retained at first. *)
LEMMA FreshInit == Retrieval!Init => FreshInv
  <1> SUFFICES ASSUME Retrieval!Init PROVE FreshInv
    OBVIOUS
  <1>1. rSearch.step = "idle"
    BY DEF Retrieval!Init, Retrieval!NoSearch
  <1>2. rScopes = << >> /\ rVersion = 0 /\ rCommits = 0 /\ rFaults = 0 /\ rConn.version = 0
    BY DEF Retrieval!Init
  <1> QED BY <1>1, <1>2 DEF FreshInv, VersionShape, CacheCoherent, Coherent, Pinned, Measured,
        SearchGoes, HasArtifacts, HasRows, HasTyped, HasLanes, HasExact, Early

\* An answer cites nothing of another time, is complete within its limits, and puts the
\* cited articles first.
Complete == \/ rSearch.always \subseteq rSearch'.result \/ Cardinality(rSearch'.result) = Limit
            \/ ~rCached /\ rSearch.cut
CitesFirst ==
    \/ \A a \in rSearch.always \cap Cited :
          \E b \in rSearch'.result \cap Cited : ChunkOf[b] = ChunkOf[a]
    \/ Cardinality(rSearch'.result \cap Cited) >= Retrieval!Min({MaxExact, Limit})
FreshAnswer == /\ Retrieval!Answers
               /\ rSearch'.result \cup rSearch'.support \subseteq rSearch.ever
               /\ Complete /\ CitesFirst

(* An answer ranks the candidates, which are of the scope (dao.py:7368-7824). *)
LEMMA AnswerIsFresh == ASSUME RetrievalInv, FreshInv, Retrieval!Answer PROVE FreshAnswer
  <1>1. Retrieval!Answers
    BY DEF Retrieval!Answer
  <1>2. /\ rSearch.step \in {"vector", "fuse"} /\ rSearch.step \notin Early
        /\ rSearch.step = "vector" => rSearch.rows = {}
    BY <1>1 DEF Retrieval!Answers, Retrieval!Nothing, Retrieval!At, Early
  <1>3. PICK r \in Retrieval!Ranked :
           rSearch' = [Retrieval!NoSearch EXCEPT !.result = r,
                         !.support = Retrieval!Support(r) \cap rSearch.rows]
    BY DEF Retrieval!Answer
  <1>4. rSearch'.result = r /\ rSearch'.support \subseteq rSearch.rows
    BY <1>3 DEF Retrieval!NoSearch
  <1>5. /\ rSearch.always \subseteq rSearch.rows
        /\ rSearch.rows \subseteq rSearch.ever \cap Assertion
        /\ rSearch.near \subseteq rSearch.ever \cap Assertion
        /\ rSearch.matched \subseteq rSearch.ever \cap Assertion
        /\ \A p \in rSearch.proofs : Retrieval!Last(p) \in rSearch.ever \cap Assertion
    BY <1>2 DEF FreshInv, SearchGoes, HasRows, HasLanes, RetrievalInv, SearchShape, Early
  <1>6. rSearch.exact \in Retrieval!Picks(rSearch.rows \cap Cited)
    BY <1>2 DEF FreshInv, SearchGoes, HasExact, Early
  <1>7. PICK fused : fused = Retrieval!Fused
    OBVIOUS
  <1>8. rSearch.exact \subseteq rSearch.rows \cap Cited
    BY <1>6 DEF Retrieval!Picks
  <1>9. /\ fused \subseteq rSearch.ever \cap Assertion
        /\ rSearch.matched \subseteq fused /\ rSearch.exact \subseteq fused
    BY <1>5, <1>7, <1>8 DEF Retrieval!Fused
  <1>10. r \in Retrieval!Cut(fused, Limit) /\ (rSearch.exact \subseteq r \/ r \subseteq rSearch.exact)
    BY <1>7 DEF Retrieval!Ranked
  <1>11. r \subseteq fused /\ (r = fused \/ Cardinality(r) = Limit) /\ Cardinality(r) <= Limit
    BY <1>9, <1>10, PathsAssumption, CutIs
  <1>12. rSearch'.result \cup rSearch'.support \subseteq rSearch.ever
    BY <1>4, <1>5, <1>9, <1>11
  <1>13. Complete
    <2>1. CASE rSearch.step = "vector"
      BY <1>2, <1>5, <2>1 DEF Complete
    <2>2. CASE rSearch.step = "fuse" /\ ~rSearch.cut
      <3>1. rSearch.always \subseteq fused
        BY <1>9, <2>2 DEF FreshInv, SearchGoes, HasLanes
      <3> QED BY <1>4, <1>11, <3>1 DEF Complete
    <2>3. CASE rSearch.step = "fuse" /\ rSearch.cut /\ rCached
      <3>1. Limit <= Cardinality(rSearch.matched)
        BY <2>3 DEF FreshInv, SearchGoes, HasLanes
      <3>2. /\ Cardinality(rSearch.matched) \in Nat /\ Cardinality(fused) \in Nat
            /\ Cardinality(rSearch.matched) <= Cardinality(fused)
        BY <1>9, AssertionsCount
      <3>3. Cardinality(r) = Limit
        BY <1>11, <3>1, <3>2, PathsAssumption
      <3> QED BY <1>4, <3>3 DEF Complete
    <2> QED BY <1>2, <2>1, <2>2, <2>3 DEF Complete
  <1>14. CitesFirst
    <2>1. MaxExact \in Nat /\ Limit \in Nat
      BY PathsAssumption
    <2>2. PICK share : share = Retrieval!Min({MaxExact, Limit})
      OBVIOUS
    <2>3. share = IF MaxExact <= Limit THEN MaxExact ELSE Limit
      BY <2>1, <2>2, MinIs
    <2>4. CASE rSearch.exact \subseteq r
      <3>1. \/ Cardinality(rSearch.exact) = MaxExact
            \/ \A a \in rSearch.rows \cap Cited : \E b \in rSearch.exact : ChunkOf[b] = ChunkOf[a]
        BY <1>6, CardinalityHere DEF Retrieval!Picks
      <3>2. CASE Cardinality(rSearch.exact) = MaxExact
        <4>1. /\ Cardinality(rSearch.exact) <= Cardinality(r \cap Cited)
              /\ Cardinality(r \cap Cited) \in Nat
          <5>1. rSearch.exact \in SUBSET (r \cap Cited) /\ r \cap Cited \in SUBSET Assertion
            BY <1>8, <1>9, <1>11, <2>4
          <5> QED BY <5>1, AssertionsCount
        <4>2. Cardinality(r \cap Cited) >= share
          BY <2>1, <2>3, <3>2, <4>1
        <4> QED BY <1>4, <2>2, <4>2 DEF CitesFirst
      <3>3. CASE \A a \in rSearch.rows \cap Cited : \E b \in rSearch.exact : ChunkOf[b] = ChunkOf[a]
        <4>1. \A a \in rSearch.always \cap Cited : \E b \in r \cap Cited : ChunkOf[b] = ChunkOf[a]
          BY <1>5, <1>8, <2>4, <3>3
        <4> QED BY <1>4, <4>1 DEF CitesFirst
      <3> QED BY <3>1, <3>2, <3>3
    <2>5. CASE ~(rSearch.exact \subseteq r)
      <3>1. r \cap Cited = r /\ r # fused
        BY <1>8, <1>9, <1>10, <2>5
      <3>2. Cardinality(r \cap Cited) >= share
        BY <1>11, <2>1, <2>3, <3>1
      <3> QED BY <1>4, <2>2, <3>2 DEF CitesFirst
    <2> QED BY <2>4, <2>5
  <1> QED BY <1>1, <1>12, <1>13, <1>14 DEF FreshAnswer

\* With the cache the index of legal identities knows no more than the scope has.
LEMMA NoUnknown ==
  ASSUME FreshInv, rCached, NEW words PROVE ~Retrieval!Abort(words)
  BY DEF FreshInv, SearchGoes, HasTyped, Retrieval!Abort, Retrieval!At, Retrieval!Unknown

\* Searches end in an answer that is fresh, or by a fault.
Ends == /\ rSearch.step # "idle" /\ rSearch'.step = "idle" /\ rFaults' = rFaults
        /\ rCached \/ Retrieval!Answers

(* No other step ends a search. *)
LEMMA EndIsFresh ==
  ASSUME RetrievalInv, FreshInv, [Retrieval!Next]_(Retrieval!vars), Ends PROVE FreshAnswer
  <1>1. CASE Retrieval!Search
    <2>1. \/ \E k \in SearchScope : Retrieval!Begin(k)
          \/ Retrieval!Pin \/ Retrieval!UseScope \/ Retrieval!LoadArtifacts \/ Retrieval!LoadRows
          \/ Retrieval!Cite \/ Retrieval!VectorLane
          \/ \E words \in {Assertion, Assertion \ Cited} :
                Retrieval!LexicalLane(words) \/ Retrieval!Abort(words)
          \/ Retrieval!GraphLane \/ Retrieval!Answer
      BY <1>1 DEF Retrieval!Search
    <2>2. ASSUME NEW words, Retrieval!Abort(words) PROVE FALSE
      <3>1. ~rCached
        BY <2>2, NoUnknown
      <3>2. Retrieval!Answers /\ rSearch.step = "lexical"
        BY <2>2, <3>1 DEF Ends, Retrieval!Abort, Retrieval!At
      <3> QED BY <3>2 DEF Retrieval!Answers, Retrieval!At
    <2>3. ASSUME NEW k \in SearchScope, Retrieval!Begin(k) PROVE FALSE
      BY <2>3 DEF Ends, Retrieval!Begin, Retrieval!At
    <2>4. ASSUME NEW words, Retrieval!LexicalLane(words) PROVE FALSE
      BY <2>4 DEF Ends, Retrieval!LexicalLane, RetrievalInv, SearchShape, SearchFields
    <2>5. ASSUME Retrieval!GraphLane PROVE FALSE
      BY <2>5 DEF Ends, Retrieval!GraphLane, RetrievalInv, SearchShape, SearchFields
    <2>6. ASSUME \/ Retrieval!Pin \/ Retrieval!UseScope \/ Retrieval!LoadArtifacts
                 \/ Retrieval!LoadRows \/ Retrieval!Cite \/ Retrieval!VectorLane
          PROVE  FALSE
      <3>1. CASE Retrieval!Pin \/ Retrieval!UseScope
        BY <3>1 DEF Ends, RetrievalInv, SearchShape, SearchFields, Retrieval!Pin, Retrieval!UseScope
      <3>2. CASE Retrieval!LoadArtifacts \/ Retrieval!LoadRows
        <4>1. CASE Retrieval!LoadArtifacts
          <5>1. rSearch' = [rSearch EXCEPT !.step = "rows", !.artifacts = rSearch'.artifacts]
            BY <4>1 DEF RetrievalInv, SearchShape, SearchFields, Retrieval!LoadArtifacts
          <5> QED BY <5>1 DEF Ends, RetrievalInv, SearchShape, SearchFields
        <4>2. CASE Retrieval!LoadRows
          <5>1. rSearch' = [rSearch EXCEPT !.step = "cite", !.rows = rSearch'.rows]
            BY <4>2 DEF RetrievalInv, SearchShape, SearchFields, Retrieval!LoadRows
          <5> QED BY <5>1 DEF Ends, RetrievalInv, SearchShape, SearchFields
        <4> QED BY <3>2, <4>1, <4>2
      <3>3. CASE Retrieval!Cite \/ Retrieval!VectorLane
        BY <3>3 DEF Ends, RetrievalInv, SearchShape, SearchFields, Retrieval!Cite,
           Retrieval!VectorLane
      <3> QED BY <2>6, <3>1, <3>2, <3>3
    <2> QED BY <2>1, <2>2, <2>3, <2>4, <2>5, <2>6, AnswerIsFresh
  <1>2. CASE Retrieval!Fail \/ Retrieval!Reopen
    BY <1>2 DEF Ends, Retrieval!Fail, Retrieval!Reopen, Retrieval!Fault, FreshInv, VersionShape
  <1>3. CASE \E a \in Assertion : Retrieval!Project(a)
    BY <1>3 DEF Ends, Retrieval!Project
  <1>4. CASE \E a \in Assertion : \E st \in Retrieval!State : Retrieval!Commit(a, st)
    BY <1>4 DEF Ends, Retrieval!Commit, Retrieval!At, RetrievalInv, SearchShape, SearchFields
  <1>5. CASE UNCHANGED Retrieval!vars
    BY <1>5 DEF Ends, Retrieval!vars
  <1> QED BY <1>1, <1>2, <1>3, <1>4, <1>5 DEF Retrieval!Next

(* Both invariants hold. *)
LEMMA RetrievalHolds == Spec => [](RetrievalInv /\ FreshInv)
  <1>1. Init => RetrievalInv /\ FreshInv
    BY RetrievalInit, FreshInit DEF Init
  <1>2. RetrievalInv /\ FreshInv /\ [Next]_vars => (RetrievalInv /\ FreshInv)'
    BY RetrievalParted, RetrievalStep, FreshStep
  <1> QED BY <1>1, <1>2, PTL DEF Spec

(* Whatever is committed, projected, evicted or cancelled before and meanwhile, a search cites
   nothing its scope did not have at some moment of the search.  An answer that is not full has
   everything the scope had all the time, unless, without the cache, a limit cut rows; and it names
   each chunk of the cited articles or has its share of cited rows.  With the cache only a fault
   keeps a search from an answer (dao.py:5802-7824). *)
THEOREM AnswersStayFresh == Spec => AnswersAreFresh
  <1>1. RetrievalInv /\ FreshInv /\ [Next]_vars =>
          [~Retrieval!At("idle") /\ rSearch'.step = "idle" /\ rFaults' = rFaults
              /\ (rCached \/ Retrieval!Answers) =>
             /\ Retrieval!Answers
             /\ rSearch'.result \cup rSearch'.support \subseteq rSearch.ever
             /\ \/ rSearch.always \subseteq rSearch'.result
                \/ Retrieval!Cardinality(rSearch'.result) = Limit
                \/ ~rCached /\ rSearch.cut
             /\ \/ \A a \in rSearch.always \cap Cited :
                      \E b \in rSearch'.result \cap Cited : ChunkOf[b] = ChunkOf[a]
                \/ Retrieval!Cardinality(rSearch'.result \cap Cited)
                      >= Retrieval!Min({MaxExact, Limit})]_(Retrieval!vars)
    <2>1. RetrievalInv /\ FreshInv /\ [Next]_vars /\ Ends => FreshAnswer
      BY RetrievalParted, EndIsFresh
    <2> QED BY <2>1, CardinalityHere DEF Ends, FreshAnswer, Complete, CitesFirst, Retrieval!At
  <1> QED BY <1>1, RetrievalHolds, PTL DEF Spec, AnswersAreFresh, Retrieval!AnswersAreFresh
=============================================================================
