---------------------------- MODULE LegacyStore ----------------------------
(***************************************************************************)
(* The first generation of memories, one row of `nodes` each, in SQLite,   *)
(* the vector store and the graph: the insert saga with its compensation,  *)
(* the batch insert, the scan for orphans at start, and the journalled     *)
(* purge.                                                                  *)
(*                                                                         *)
(* One agent; every memory is about one entity, so that a new one replaces *)
(* those the search finds.  The process works on a purge in one place at a *)
(* time.  What is queued for the vector store is module VectorWal.         *)
(***************************************************************************)
EXTENDS Naturals, FiniteSets

CONSTANTS Node, WithGraph,
          PurgeRetries,       \* _PURGE_MAX_RETRIES, 3
          FaultLimit          \* bound on errors and crashes, but for a compensation

VARIABLES sql, vec, graph,    \* state of a memory in each store
          queued,             \* memories whose vector is still in the log
          migrating,          \* lancedb_is_migrating
          ins,                \* what each insert does, and whom it replaces
          purge,              \* the purge_journal row
          at,                 \* where the process is with that purge
          faults
vars == <<sql, vec, graph, queued, migrating, ins, purge, at, faults>>
stores == <<sql, vec, graph, queued, migrating>>

NoInsert == [step |-> "none", old |-> {}]
\* `owed` are the targets whose writes to the other stores were still to come.
NoPurge == [st |-> "none", nodes |-> {}, owed |-> {}, graph |-> FALSE, vec |-> FALSE, n |-> 0]
Init == /\ sql = [n \in Node |-> "none"]
        /\ vec = [n \in Node |-> "none"]
        /\ graph = {} /\ queued = {} /\ migrating = FALSE
        /\ ins = [n \in Node |-> NoInsert]
        /\ purge = NoPurge /\ at = "none"
        /\ faults = 0

Fault == faults < FaultLimit /\ faults' = faults + 1
Active == {n \in Node : sql[n] = "active"}
SetIn(store, nodes, value) == [n \in Node |-> IF n \in nodes THEN value ELSE store[n]]
Step(n, step) == ins' = [ins EXCEPT ![n].step = step]
At(n, step) == ins[n].step = step

-----------------------------------------------------------------------------
(* insert_memory                                                           *)

\* Close memories of the same entity, and the state of the migration flag.
Begin(n) ==
    /\ At(n, "none") /\ sql[n] = "none"
    /\ ins' = [ins EXCEPT ![n] = [step |-> IF migrating THEN "stage queued" ELSE "stage",
                                  old |-> {m \in Active : vec[m] = "live"}]]
    /\ UNCHANGED <<stores, purge, at, faults>>
\* The replacement is stored but not current.
Stage(n) ==
    /\ At(n, "stage") \/ At(n, "stage queued")
    /\ sql' = [sql EXCEPT ![n] = "staged"]
    /\ queued' = IF At(n, "stage") THEN queued ELSE queued \cup {n}
    /\ Step(n, IF At(n, "stage") THEN "vector" ELSE "activate queued")
    /\ UNCHANGED <<vec, graph, migrating, purge, at, faults>>
Upsert(n) ==
    /\ At(n, "vector")
    /\ \/ /\ vec' = [vec EXCEPT ![n] = "live"]
          /\ Step(n, IF WithGraph THEN "graph" ELSE "expire")
          /\ UNCHANGED faults
       \/ Fault /\ Step(n, "undo") /\ UNCHANGED vec
    /\ UNCHANGED <<sql, graph, queued, migrating, purge, at>>
InsertNode(n) ==
    /\ At(n, "graph")
    /\ \/ graph' = graph \cup {n} /\ Step(n, "expire") /\ UNCHANGED faults
       \/ Fault /\ Step(n, "undo") /\ UNCHANGED graph
    /\ UNCHANGED <<sql, vec, queued, migrating, purge, at>>
\* soft_delete of what it replaces, one after the other; a vector that is gone
\* is no error.
Expire(n) ==
    /\ At(n, "expire")
    /\ \/ /\ vec' = [m \in Node |-> IF m \in ins[n].old /\ vec[m] = "live" THEN "expired" ELSE vec[m]]
          /\ Step(n, "activate")
          /\ UNCHANGED faults
       \/ Fault /\ Step(n, "undo expired") /\ UNCHANGED vec
    /\ UNCHANGED <<sql, graph, queued, migrating, purge, at>>
\* The old memories leave and the new one becomes current in one transaction.
Activate(n) ==
    /\ At(n, "activate") \/ At(n, "activate queued")
    /\ \/ /\ sql[n] = "staged"
          /\ sql' = [SetIn(sql, ins[n].old \cap Active, "invalid") EXCEPT ![n] = "active"]
          /\ ins' = [ins EXCEPT ![n] = NoInsert]
          /\ UNCHANGED faults
       \/ Fault /\ Step(n, "undo expired") /\ UNCHANGED sql
    /\ UNCHANGED <<vec, graph, queued, migrating, purge, at>>

\* Compensation: every part is tried, and a part that fails is reported but does
\* not stop the others.  It runs once, so that its errors need no bound.
UndoStores(n) ==
    /\ At(n, "undo") \/ At(n, "undo expired")
    /\ LET restored == IF At(n, "undo expired")
                       THEN {m \in ins[n].old : vec[m] = "expired"} ELSE {}
       IN  \/ vec' = [SetIn(vec, restored, "live") EXCEPT ![n] = "none"] /\ graph' = graph \ {n}
           \/ vec' = SetIn(vec, restored, "live") /\ graph' = graph \ {n}
           \/ vec' = [vec EXCEPT ![n] = "none"] /\ UNCHANGED graph
    /\ Step(n, IF At(n, "undo") THEN "undo row" ELSE "undo staged")
    /\ UNCHANGED <<sql, queued, migrating, purge, at, faults>>
\* Before the old memories were touched the row is deleted and they are made
\* current again, afterwards only the row goes.
UndoRow(n) ==
    /\ At(n, "undo row") \/ At(n, "undo staged")
    /\ sql' = IF At(n, "undo row")
              THEN [SetIn(sql, {m \in ins[n].old : sql[m] = "invalid"}, "active")
                      EXCEPT ![n] = "none"]
              ELSE [sql EXCEPT ![n] = IF @ = "staged" THEN "none" ELSE @]
    /\ ins' = [ins EXCEPT ![n] = NoInsert]
    /\ UNCHANGED <<vec, graph, queued, migrating, purge, at, faults>>

-----------------------------------------------------------------------------
(* bulk_insert_memory, of one record; its row is current at once           *)

Bulk(n) ==
    /\ At(n, "none") /\ sql[n] = "none"
    /\ sql' = [sql EXCEPT ![n] = "active"]
    /\ queued' = IF migrating THEN queued \cup {n} ELSE queued
    /\ Step(n, IF migrating THEN "none" ELSE "bulk vector")
    /\ UNCHANGED <<vec, graph, migrating, purge, at, faults>>
BulkUpsert(n) ==
    /\ At(n, "bulk vector")
    /\ \/ /\ vec' = [vec EXCEPT ![n] = "live"]
          /\ Step(n, IF WithGraph THEN "bulk graph" ELSE "none")
          /\ UNCHANGED faults
       \/ Fault /\ Step(n, "bulk undo") /\ UNCHANGED vec
    /\ UNCHANGED <<sql, graph, queued, migrating, purge, at>>
BulkNode(n) ==
    /\ At(n, "bulk graph")
    /\ \/ graph' = graph \cup {n} /\ Step(n, "none") /\ UNCHANGED faults
       \/ Fault /\ Step(n, "bulk undo") /\ UNCHANGED graph
    /\ UNCHANGED <<sql, vec, queued, migrating, purge, at>>
BulkUndoKeepsRow(n) ==
    /\ At(n, "bulk undo")
    /\ vec' = [vec EXCEPT ![n] = IF @ = "live" THEN "expired" ELSE @]
    /\ Step(n, "none")
    /\ UNCHANGED <<sql, graph, queued, migrating, purge, at, faults>>
\* The vector is expired, if that works, and the row is deleted.
BulkUndo(n) ==
    /\ At(n, "bulk undo")
    /\ vec' \in {vec, [vec EXCEPT ![n] = IF @ = "live" THEN "expired" ELSE @]}
    /\ sql' = [sql EXCEPT ![n] = "none"]
    /\ Step(n, "none")
    /\ UNCHANGED <<graph, queued, migrating, purge, at, faults>>

-----------------------------------------------------------------------------
(* Purge                                                                   *)

\* purge_memory: the exact targets and their tombstones are one transaction.
Prepare ==
    /\ purge.st = "none" /\ Active # {}
    /\ purge' = [NoPurge EXCEPT !.st = "TOMBSTONED", !.nodes = Active,
                  !.owed = {n \in Active : n \in queued \/ ins[n].step # "none"}]
    /\ sql' = SetIn(sql, Active, "tombstoned")
    /\ at' = "start"
    /\ UNCHANGED <<vec, graph, queued, migrating, ins, faults>>

Resumable == {"TOMBSTONED", "GRAPH_APPLIED", "VECTOR_APPLIED", "VERIFIED", "RETRY_PENDING"}
\* resume_incomplete_purges, or the same request again.
Resume == /\ at = "none" /\ purge.st \in Resumable
          /\ at' = "start"
          /\ UNCHANGED <<stores, ins, purge, faults>>
\* _mark_purge_retry
Refused == [purge EXCEPT !.n = @ + 1,
              !.st = IF purge.n + 1 >= PurgeRetries THEN "BLOCKED" ELSE "RETRY_PENDING"]
\* A runtime without a graph provider does nothing.
PurgeGraph ==
    /\ at = "start" /\ WithGraph /\ ~purge.graph
    /\ \/ graph' = graph \ purge.nodes /\ at' = "graph gone" /\ UNCHANGED <<purge, faults>>
       \/ Fault /\ purge' = Refused /\ at' = "none" /\ UNCHANGED graph
    /\ UNCHANGED <<sql, vec, queued, migrating, ins>>
\* Verified and recorded in one step, or not.
GraphApplied ==
    /\ at = "graph gone"
    /\ \/ /\ graph \cap purge.nodes = {}
          /\ purge' = [purge EXCEPT !.st = "GRAPH_APPLIED", !.graph = TRUE]
          /\ at' = "start"
          /\ UNCHANGED faults
       \/ /\ graph \cap purge.nodes # {}
          /\ purge' = Refused /\ at' = "none"
          /\ UNCHANGED faults
       \/ Fault /\ purge' = Refused /\ at' = "none"
    /\ UNCHANGED <<stores, ins>>
PurgeVectors ==
    /\ at = "start" /\ purge.graph /\ ~purge.vec
    /\ \/ vec' = SetIn(vec, purge.nodes, "none") /\ at' = "vectors gone" /\ UNCHANGED <<purge, faults>>
       \/ Fault /\ purge' = Refused /\ at' = "none" /\ UNCHANGED vec
    /\ UNCHANGED <<sql, graph, queued, migrating, ins>>
StillLive == \E n \in purge.nodes : vec[n] = "live"
VectorsApplied ==
    /\ at = "vectors gone"
    /\ \/ /\ ~StillLive
          /\ purge' = [purge EXCEPT !.st = "VECTOR_APPLIED", !.vec = TRUE]
          /\ at' = "start"
          /\ UNCHANGED faults
       \/ StillLive /\ purge' = Refused /\ at' = "none" /\ UNCHANGED faults
       \/ Fault /\ purge' = Refused /\ at' = "none"
    /\ UNCHANGED <<stores, ins>>
FinalizeEarly == /\ at = "start" /\ purge.graph
                 /\ purge' = [purge EXCEPT !.st = "FINALIZED"]
                 /\ at' = "none"
                 /\ UNCHANGED <<stores, ins, faults>>
Finalize == /\ at = "start" /\ purge.graph /\ purge.vec
            /\ \/ purge' = [purge EXCEPT !.st = "FINALIZED"]
               \/ purge' = [purge EXCEPT !.st = "VERIFIED"] \* and then a crash
            /\ at' = "none"
            /\ UNCHANGED <<stores, ins, faults>>
\* rollback_purge; the deletions it rules out are those that were recorded.
RollbackPurge ==
    /\ at = "none" /\ purge.st \in {"TOMBSTONED", "RETRY_PENDING"}
    /\ ~purge.graph /\ ~purge.vec
    /\ sql' = SetIn(sql, {n \in purge.nodes : sql[n] = "tombstoned"}, "active")
    /\ purge' = [purge EXCEPT !.st = "FAILED_SAFE"]
    /\ UNCHANGED <<vec, graph, queued, migrating, ins, at, faults>>

-----------------------------------------------------------------------------
(* Migration, crash and restart                                            *)

Migrate == migrating' = ~migrating /\ UNCHANGED <<sql, vec, graph, queued, ins, purge, at, faults>>
\* The log is replayed (module VectorWal).
Flush(n) == /\ n \in queued
            /\ queued' = queued \ {n}
            /\ vec' = [vec EXCEPT ![n] = "live"]
            /\ graph' = IF WithGraph THEN graph \cup {n} ELSE graph
            /\ UNCHANGED <<sql, migrating, ins, purge, at, faults>>

Orphans == {n \in Active : vec[n] = "none"}
\* _reconcile_orphaned_nodes at the next start.
Restart == /\ Fault
           /\ ins' = [n \in Node |-> NoInsert]
           /\ at' = "none"
           /\ sql' = SetIn(sql, Orphans, "invalid")
           /\ UNCHANGED <<vec, graph, queued, migrating, purge>>

Insert(n) == \/ Begin(n) \/ Stage(n) \/ Upsert(n) \/ InsertNode(n) \/ Expire(n) \/ Activate(n)
             \/ UndoStores(n) \/ UndoRow(n)
             \/ Bulk(n) \/ BulkUpsert(n) \/ BulkNode(n) \/ BulkUndo(n)
Purge == Prepare \/ Resume \/ PurgeGraph \/ GraphApplied \/ PurgeVectors \/ VectorsApplied
         \/ Finalize \/ RollbackPurge
Next == Purge \/ Migrate \/ Restart \/ \E n \in Node : Insert(n) \/ Flush(n)
Spec == Init /\ [][Next]_vars

-----------------------------------------------------------------------------
TypeOK == /\ sql \in [Node -> {"none", "staged", "active", "invalid", "tombstoned"}]
          /\ vec \in [Node -> {"none", "live", "expired"}]
          /\ graph \subseteq Node /\ queued \subseteq Node
          /\ purge.nodes \subseteq Node
          /\ purge.st \in Resumable \cup {"none", "FINALIZED", "BLOCKED", "FAILED_SAFE"}

\* A finalized purge leaves nothing of a target whose writes were complete when
\* it began, whatever inserts and batches were under way, failed or crashed
\* meanwhile.
PurgeErases == purge.st = "FINALIZED" =>
    \A n \in purge.nodes \ purge.owed :
        sql[n] = "tombstoned" /\ vec[n] # "live" /\ n \notin graph

\* No current memory is without a vector, unless one is on its way or a purge was
\* rolled back: whoever fails or crashes takes the row with it.
ActiveHasVector == \A n \in Active \ purge.nodes :
    vec[n] = "none" => n \in queued \/ ins[n].step # "none"
=============================================================================
