-------------------------- MODULE ProjectionPipeline --------------------------
(***************************************************************************)
(* The V4 memory pipeline of mesa_storage/dao.py, mesa_workers and the     *)
(* combined runtime: admitted mutations are validated by the cold path,    *)
(* projected lane by lane (SQL, then VECTOR, then GRAPH) by a consumer     *)
(* that claims durable work under a lease, and may at any moment be rolled *)
(* back, replayed or purged by an API request, or lose the process.        *)
(*                                                                         *)
(* Every action is one SQLite transaction or one call to a physical store; *)
(* the consumer holds only local data between them, so API requests        *)
(* interleave exactly where the asyncio code awaits.                       *)
(*                                                                         *)
(* Abstractions.  A revision has one source chunk, so a mutation of the    *)
(* revision projects the same assertion identity as every other one        *)
(* (v4_assertion_id hashes revision, chunk and triplet).  Entities, links  *)
(* between facts and the text of a payload are left out.  A claim token is *)
(* the identity of the worker that holds it: a worker never claims a lane  *)
(* it already holds in its batch, so the token is current exactly when the *)
(* lane still names the worker.                                            *)
(***************************************************************************)
EXTENDS Lifecycle, Naturals, FiniteSets

CONSTANTS
    Mutation,       \* admitted candidates; each has its own pipeline run
    Revision,       \* document revisions, one chunk and one assertion each
    Document,
    Worker,         \* consumers (production runs one)
    RevisionOf,     \* [Mutation -> Revision]
    DocumentOf,     \* [Revision -> Document]
    Supersedes,     \* [Revision -> Revision \cup {None}]
    RetryLimit,     \* retry_limit of a lane and of a cleanup row
    BatchLimit,     \* limit of claim_projection_outbox
    Profiles,       \* sets of optional lanes a process may be started with
    Events,         \* what may happen besides the pipeline's own steps
    None

\* The events a run explores: the bound on what the environment does.
EventKinds == {"rollback", "purge", "replay", "restart", "store failure",
               "extraction failure"}

Store == {"SQL", "VECTOR", "GRAPH"}
Optional == {"VECTOR", "GRAPH"}

ASSUME PipelineAssumption ==
    /\ RevisionOf \in [Mutation -> Revision]
    /\ DocumentOf \in [Revision -> Document]
    /\ Supersedes \in [Revision -> Revision \cup {None}]
    /\ RetryLimit \in Nat \ {0}
    /\ BatchLimit \in Nat \ {0}
    /\ Profiles \subseteq SUBSET Optional
    /\ Events \subseteq EventKinds
    /\ None \notin Worker \cup Mutation \cup Revision
    /\ None \notin Mutation \X (Store \cup {"COLD"})

VARIABLES
    ledger,     \* [Mutation -> LedgerRow]: memory_mutations and pipeline_runs
    lane,       \* projection_outbox
    cold,       \* dispatch_queue and raw log of a mutation
    revision,   \* document_revisions.status
    document,   \* documents.status
    fact,       \* v4_assertions: status and the mutation that inserted it
    physical,   \* what LanceDB and Kuzu hold
    registry,   \* artifact_registry.state
    owner,      \* artifact_sources.state
    cleanup,    \* artifact_cleanup_outbox
    purging,    \* rollbacks a purge request still has to issue
    profile,    \* optional lanes enabled in the running process
    worker      \* local data of each consumer

catalog == <<revision, document, fact>>
artifacts == <<physical, registry, owner>>
vars == <<ledger, lane, cold, revision, document, fact, physical, registry,
          owner, cleanup, purging, profile, worker>>

-----------------------------------------------------------------------------
(* Types                                                                   *)

LaneStates == {"NONE", "BLOCKED_VALIDATION", "PENDING", "IN_FLIGHT",
               "RETRY_PENDING", "COMPLETED", "SKIPPED", "CANCELLED",
               "DEAD_LETTER"}
CleanupStates == {"NONE", "PENDING", "IN_FLIGHT", "RETRY_PENDING", "BLOCKED",
                  "COMPLETED"}
RevisionStates == {"NONE", "PENDING", "ACTIVE", "SUPERSEDED", "ROLLED_BACK",
                   "PURGED"}
FactStates == {"NONE", "ACTIVE", "SUPERSEDED", "RETRACTED"}
FactRow == [st : FactStates, by : Mutation \cup {None}]
RegistryStates == {"NONE", "ACTIVE", "TOMBSTONED", "DELETED"}
OwnerStates == {"NONE", "ACTIVE", "RELEASED"}
\* attempt_count is only ever compared with retry_limit: it saturates above it.
Attempts == 0 .. RetryLimit + 1
\* A claimable row: its state, the holder of its claim, its attempts.
QueueRow(states) == [st : states, by : Worker \cup {None}, n : Attempts]
Item == Mutation \X (Store \cup {"COLD"})
Phases == {"idle", "extract", "judge", "verified", "unverified",
           "next", "list", "check", "write", "record", "commit", "undo",
           "undone", "failSoft", "failHard", "skip", "fence", "fenced",
           "clean", "cleaned", "cleanFail"}
WorkerRow == [pc : Phases, cur : Item \cup {None}, todo : SUBSET Item,
              ok : SUBSET Item, bad : SUBSET Store]

\* Type invariant of the pipeline: every durable row and every consumer's
\* local data keeps the shape the schema and the Python code give it.
TypeOK ==
    /\ ledger \in [Mutation -> LedgerRow]
    /\ lane \in [Mutation -> [Store -> QueueRow(LaneStates)]]
    /\ cold \in [Mutation -> {"NONE", "QUEUED", "DONE", "DEAD"}]
    /\ revision \in [Revision -> RevisionStates]
    /\ document \in [Document -> {"ACTIVE", "PURGED"}]
    /\ fact \in [Revision -> FactRow]
    /\ physical \in [Optional -> SUBSET Revision]
    /\ registry \in [Revision -> [Store -> RegistryStates]]
    /\ owner \in [Mutation -> [Store -> OwnerStates]]
    /\ cleanup \in [Mutation -> [Store -> QueueRow(CleanupStates)]]
    /\ purging \subseteq Mutation
    /\ profile \subseteq Optional
    /\ worker \in [Worker -> WorkerRow]

-----------------------------------------------------------------------------
(* Helpers                                                                 *)

Idle == [pc |-> "idle", cur |-> None, todo |-> {}, ok |-> {}, bad |-> {}]
Row(state, attempts) == [st |-> state, by |-> None, n |-> attempts]
\* Mutant: a lane takes the state of its run.
CancelledAsRun == Row("ROLLED_BACK", 0)
\* No statement reads the attempts of a cancelled row: they are dropped.
Cancelled == Row("CANCELLED", 0)

Init ==
    /\ ledger = [m \in Mutation |-> [mut |-> Absent, run |-> Absent]]
    /\ lane = [m \in Mutation |-> [s \in Store |-> Row("NONE", 0)]]
    /\ cold = [m \in Mutation |-> "NONE"]
    /\ revision = [r \in Revision |-> "NONE"]
    /\ document = [d \in Document |-> "ACTIVE"]
    /\ fact = [r \in Revision |-> [st |-> "NONE", by |-> None]]
    /\ physical = [s \in Optional |-> {}]
    /\ registry = [r \in Revision |-> [s \in Store |-> "NONE"]]
    /\ owner = [m \in Mutation |-> [s \in Store |-> "NONE"]]
    /\ cleanup = [m \in Mutation |-> [s \in Store |-> Row("NONE", 0)]]
    /\ purging = {}
    /\ profile \in Profiles
    /\ worker = [w \in Worker |-> Idle]

Admitted(m) == ledger[m].mut # Absent
DocOf(m) == DocumentOf[RevisionOf[m]]
Siblings(m) == {n \in Mutation : RevisionOf[n] = RevisionOf[m] /\ Admitted(n)}

\* The fence every forward write checks: the row or its run is terminal, or
\* the document is purged.
Fenced(m) == RowTerminal(ledger[m]) \/ document[DocOf(m)] = "PURGED"

\* The claim token a worker presents is still the lane's.
Holds(w, row) == row.st = "IN_FLIGHT" /\ row.by = w

At(w, phase, m, s) == worker[w].pc = phase /\ worker[w].cur = <<m, s>>
Goto(w, phase) == worker' = [worker EXCEPT ![w].pc = phase]
Begin(w, phase, item) ==
    worker' = [worker EXCEPT ![w].pc = phase, ![w].cur = item, ![w].todo = @ \ {item}]
\* The item is settled: back to the dispatcher, in the batch or out of it.
Done(w) == worker' = [worker EXCEPT ![w].pc = "next", ![w].cur = None, ![w].bad = {}]
Applied(w) == worker' = [worker EXCEPT ![w].pc = "next", ![w].cur = None,
                                       ![w].ok = @ \cup {worker[w].cur}]

Rank(item) == CASE item[2] = "SQL" -> 0 [] item[2] = "VECTOR" -> 1 [] OTHER -> 2
First(items) == {i \in items : \A j \in items : Rank(i) <= Rank(j)}

\* Mutant: a row that backs off is never looked at again.
WaitingForLease(row) == row.st = "IN_FLIGHT"
\* Held back by a lease or a back-off, whose end no one can predict.
Waiting(row) == row.st \in {"RETRY_PENDING", "IN_FLIGHT"}
\* attempt_count + 1, saturating above the only value it is compared with.
OneMore(n) == IF n > RetryLimit THEN n ELSE n + 1
Claim(row, w) == [st |-> "IN_FLIGHT", by |-> w, n |-> OneMore(row.n)]

-----------------------------------------------------------------------------
(* Revision heads                                                          *)

ReadyToActivate(r, rows) ==
    /\ revision[r] = "PENDING"
    /\ \A m \in Mutation : RevisionOf[m] = r /\ rows[m].mut # Absent
                              => rows[m].mut = "COMMITTED"
    /\ \E m \in Mutation : RevisionOf[m] = r /\ rows[m].mut # Absent

\* _reconcile_revision_activation_in_tx raises: the head is not where the
\* activation needs it.
HeadConflict(r) ==
    IF Supersedes[r] # None THEN revision[Supersedes[r]] # "ACTIVE"
    ELSE \E q \in Revision : DocumentOf[q] = DocumentOf[r] /\ revision[q] = "ACTIVE"

ActivatedRevisions(r) ==
    [q \in Revision |-> IF q = r THEN "ACTIVE"
                        ELSE IF q = Supersedes[r] THEN "SUPERSEDED"
                        ELSE revision[q]]
ActivatedFacts(r) ==
    [q \in Revision |-> IF q = Supersedes[r] /\ fact[q].st = "ACTIVE"
                        THEN [fact[q] EXCEPT !.st = "SUPERSEDED"] ELSE fact[q]]

\* _restore_pipeline_supersession_in_tx: the run's revision leaves the head and
\* its predecessor returns to it, unless a sibling is committed.
Restores(m) ==
    /\ document[DocOf(m)] # "PURGED"
    /\ \A n \in Siblings(m) \ {m} : ledger[n].mut # "COMMITTED"
\* Mutant: the predecessor is not put back at the head.
RestoredRevisionsHeadless(m) ==
    [q \in Revision |->
        IF Restores(m) /\ q = RevisionOf[m] /\ revision[q] \in {"ACTIVE", "PENDING"}
        THEN "ROLLED_BACK" ELSE revision[q]]
RestoredRevisions(m) ==
    LET r == RevisionOf[m]
    IN  IF ~Restores(m) THEN revision
        ELSE [q \in Revision |->
                IF q = r /\ revision[q] \in {"ACTIVE", "PENDING"} THEN "ROLLED_BACK"
                ELSE IF q = Supersedes[r] /\ revision[q] = "SUPERSEDED" THEN "ACTIVE"
                ELSE revision[q]]
\* Mutant: the assertions of the restored predecessor stay superseded.
RestoredFactsKept(m, facts) == facts
RestoredFacts(m, facts) ==
    [q \in Revision |->
        IF Restores(m) /\ q = Supersedes[RevisionOf[m]] /\ facts[q].st = "SUPERSEDED"
        THEN [facts[q] EXCEPT !.st = "ACTIVE"] ELSE facts[q]]

\* The partial unique index uq_active_document_revision.
UniqueHeads(revisions) ==
    \A q, r \in Revision :
        revisions[q] = "ACTIVE" /\ revisions[r] = "ACTIVE"
            /\ DocumentOf[q] = DocumentOf[r] => q = r

-----------------------------------------------------------------------------
(* Admission and the cold path                                             *)

\* admit_v4_memory: the first mutation of a revision creates and freezes it;
\* a later one may only re-submit the same chunk.  The manifest update also
\* reconciles the activation of what was already there, and may raise.
Admit(m) ==
    LET r == RevisionOf[m]
        act == ReadyToActivate(r, ledger)
    IN  /\ ~Admitted(m)
        /\ document[DocOf(m)] # "PURGED"
        /\ Supersedes[r] # None => revision[Supersedes[r]] # "NONE"
        /\ act => ~HeadConflict(r)
        /\ revision' = IF act THEN ActivatedRevisions(r)
                       ELSE IF revision[r] = "NONE"
                       THEN [revision EXCEPT ![r] = "PENDING"] ELSE revision
        /\ fact' = IF act THEN ActivatedFacts(r) ELSE fact
        /\ ledger' = [ledger EXCEPT ![m] = [mut |-> "RECEIVED", run |-> "QUEUED"]]
        /\ lane' = [lane EXCEPT ![m] = [s \in Store |-> Row("BLOCKED_VALIDATION", 0)]]
        /\ cold' = [cold EXCEPT ![m] = "QUEUED"]
        /\ UNCHANGED <<document, artifacts, cleanup, purging, profile, worker>>

\* claim_dispatch_queue, claim_raw_log and the state check that decides what
\* the cold path has left to do for the mutation.
ColdLoad(w, m) ==
    LET state == ledger[m].mut
    IN  /\ worker[w].pc = "idle"
        /\ cold[m] = "QUEUED"
        /\ \A v \in Worker : worker[v].cur # <<m, "COLD">>
        /\ Begin(w, IF state \in {"VALIDATED", "PENDING", "SQL_APPLIED",
                                  "VECTOR_APPLIED", "GRAPH_APPLIED",
                                  "COMMITTED", "REJECTED"} THEN "verified"
                    ELSE IF state \in {"RECEIVED", "EXTRACTED", "RETRY_PENDING"}
                    THEN "extract" ELSE "unverified", <<m, "COLD">>)
        /\ UNCHANGED <<ledger, lane, cold, catalog, artifacts, cleanup, purging, profile>>

\* set_mutation_state: the transition and, when it holds, the run recomputed.
Judged(m, to) == [ledger EXCEPT ![m] = IF MutationMayBe(@, to)
                                       THEN Refreshed(MoveMutation(@, to)) ELSE @]

\* record_mutation_extraction: persisted only for a mutation still extractable.
\* A refusal, or a model or store failure before it, leaves the outcome deferred:
\* with a model the mutation is sent to RETRY_PENDING, without one it is left alone.
ColdExtract(w, m) ==
    /\ At(w, "extract", m, "COLD")
    /\ \/ /\ ledger[m].mut \in {"RECEIVED", "EXTRACTED", "RETRY_PENDING"}
          /\ ledger' = [ledger EXCEPT ![m] = MoveMutation(@, "EXTRACTED")]
          /\ Goto(w, "judge")
       \/ /\ \/ ledger[m].mut \notin {"RECEIVED", "EXTRACTED", "RETRY_PENDING"}
             \/ "extraction failure" \in Events
          /\ ledger' \in {ledger, Judged(m, "RETRY_PENDING")}
          /\ Goto(w, "unverified")
    /\ UNCHANGED <<lane, cold, catalog, artifacts, cleanup, purging, profile>>

\* set_mutation_state with the validator's outcome; VALIDATED opens the lanes
\* and REJECTED cancels the ones nobody is working on.
Lanes(m, from, to) ==
    [s \in Store |-> IF lane[m][s].st \in from THEN Row(to, lane[m][s].n) ELSE lane[m][s]]
ColdJudge(w, m) ==
    /\ At(w, "judge", m, "COLD")
    /\ \/ /\ MutationMayBe(ledger[m], "VALIDATED")
          /\ ledger' = Judged(m, "VALIDATED")
          /\ lane' = [lane EXCEPT ![m] = Lanes(m, {"BLOCKED_VALIDATION"}, "PENDING")]
          /\ Goto(w, "verified")
       \/ /\ ~MutationMayBe(ledger[m], "VALIDATED")
          /\ Goto(w, "unverified")
          /\ UNCHANGED <<ledger, lane>>
       \/ /\ "extraction failure" \in Events
          /\ ledger' = Judged(m, "REJECTED")
          /\ lane' = IF MutationMayBe(ledger[m], "REJECTED")
                     THEN [lane EXCEPT ![m] =
                              Lanes(m, {"BLOCKED_VALIDATION", "PENDING",
                                        "RETRY_PENDING"}, "CANCELLED")]
                     ELSE lane
          /\ Goto(w, "verified")
       \/ /\ "extraction failure" \in Events
          /\ ledger' = Judged(m, "RETRY_PENDING")
          /\ Goto(w, "unverified")
          /\ UNCHANGED lane
    /\ UNCHANGED <<cold, catalog, artifacts, cleanup, purging, profile>>

\* The raw log reaches processed or rejected and complete_dispatch_queue
\* finalizes; a failing store puts the log back to DEFERRED instead.
ColdVerified(w, m) ==
    /\ At(w, "verified", m, "COLD")
    /\ \/ cold' = [cold EXCEPT ![m] = "DONE"]
       \/ "extraction failure" \in Events /\ UNCHANGED cold
    /\ worker' = [worker EXCEPT ![w] = Idle]
    /\ UNCHANGED <<ledger, lane, catalog, artifacts, cleanup, purging, profile>>

\* complete_dispatch_queue without a verified side effect: another attempt, or
\* after the fifth the dispatch and a not yet validated mutation are dead.
ColdUnverified(w, m) ==
    /\ At(w, "unverified", m, "COLD")
    /\ worker' = [worker EXCEPT ![w] = Idle]
    /\ \/ UNCHANGED <<ledger, cold>>
       \/ /\ cold' = [cold EXCEPT ![m] = "DEAD"]
          /\ ledger' = IF ledger[m].mut \in {"RECEIVED", "EXTRACTED", "RETRY_PENDING"}
                       THEN [ledger EXCEPT ![m] = MoveMutation(@, "DEAD_LETTER")]
                       ELSE ledger
    /\ UNCHANGED <<lane, catalog, artifacts, cleanup, purging, profile>>

-----------------------------------------------------------------------------
(* Projection lanes                                                        *)

\* Mutants: the lanes in any order; a lane that failed is never claimed again.
ClaimableAnyOrder(m, s) == lane[m][s].st \in {"PENDING", "RETRY_PENDING", "IN_FLIGHT"}
ClaimableOnce(m, s) ==
    /\ lane[m][s].st \in {"PENDING", "IN_FLIGHT"}
    /\ s = "SQL" \/ lane[m]["SQL"].st = "COMPLETED"
    /\ s = "GRAPH" => lane[m]["VECTOR"].st \in {"COMPLETED", "SKIPPED"}
\* A lane may be claimed when its predecessor is complete.
Claimable(m, s) ==
    /\ lane[m][s].st \in {"PENDING", "RETRY_PENDING", "IN_FLIGHT"}
    /\ \/ s = "SQL"
       \/ s = "VECTOR" /\ lane[m]["SQL"].st = "COMPLETED"
       \/ s = "GRAPH" /\ lane[m]["VECTOR"].st \in {"COMPLETED", "SKIPPED"}

\* claim_projection_outbox: what is due, in lane order, up to the limit.  A
\* pending lane is due; a waiting one may be by now.
Batch(items, b) ==
    /\ Cardinality(b) <= BatchLimit
    /\ \A j \in items \ b :
          \/ Waiting(lane[j[1]][j[2]])
          \/ Cardinality(b) = BatchLimit /\ \A i \in b : Rank(i) <= Rank(j)
ClaimLanes(w) ==
    /\ worker[w].pc = "idle"
    /\ LET items == {i \in Mutation \X Store : Claimable(i[1], i[2])}
       IN  \E b \in SUBSET items :
              /\ Batch(items, b)
              /\ lane' = [m \in Mutation |-> [s \in Store |->
                            IF <<m, s>> \in b THEN Claim(lane[m][s], w) ELSE lane[m][s]]]
              /\ worker' = [worker EXCEPT ![w].pc = "next", ![w].todo = b]
    /\ UNCHANGED <<ledger, cold, catalog, artifacts, cleanup, purging, profile>>

\* _apply_projection loads the mutation: a disabled lane is skipped, one whose
\* mutation is not projectable fails for good.
Projectable == {"VALIDATED", "SQL_APPLIED", "VECTOR_APPLIED", "GRAPH_APPLIED",
                "RETRY_PENDING", "COMMITTED"}
StartLane(w, m, s) ==
    /\ worker[w].pc = "next"
    /\ <<m, s>> \in First(worker[w].todo)
    /\ Begin(w, IF s \in Optional \ profile THEN "skip"
                ELSE IF ledger[m].mut \notin Projectable THEN "failHard"
                ELSE IF s = "SQL" THEN "check" ELSE "list", <<m, s>>)
    /\ UNCHANGED <<ledger, lane, cold, catalog, artifacts, cleanup, purging, profile>>

\* list_v4_assertions_for_mutation: only the mutation that inserted the
\* assertion has something to project; the graph projector does not re-check.
ListAssertions(w, m, s) ==
    /\ At(w, "list", m, s)
    /\ IF /\ fact[RevisionOf[m]].by = m
          /\ fact[RevisionOf[m]].st \in {"ACTIVE", "SUPERSEDED"}
       THEN Goto(w, IF s = "VECTOR" THEN "check" ELSE "write")
       ELSE Applied(w)
    /\ UNCHANGED <<ledger, lane, cold, catalog, artifacts, cleanup, purging, profile>>

\* _assert_v4_projection_write_allowed, and the entity receipts of the SQL lane
\* that check the same fence first.
CheckFence(w, m, s) ==
    /\ At(w, "check", m, s)
    /\ Goto(w, IF Fenced(m) THEN "failSoft" ELSE "write")
    /\ UNCHANGED <<ledger, lane, cold, catalog, artifacts, cleanup, purging, profile>>

\* The canonical assertion, INSERT OR IGNORE in a transaction of its own.
InsertFact(m) ==
    LET r == RevisionOf[m]
    IN  IF fact[r].st = "NONE"
        THEN [fact EXCEPT ![r] = [st |-> "ACTIVE", by |-> m]] ELSE fact

\* The write itself.  A graph write is only staged in the open Kuzu
\* transaction.  A store that fails leaves the lane to retry, the graph one
\* after its compensation.
WriteArtifact(w, m, s) ==
    /\ At(w, "write", m, s)
    /\ \/ /\ s = "SQL"
          /\ fact' = InsertFact(m)
          /\ Goto(w, "record")
          /\ UNCHANGED physical
       \/ /\ s = "VECTOR"
          /\ physical' = [physical EXCEPT !["VECTOR"] = @ \cup {RevisionOf[m]}]
          /\ Goto(w, "record")
          /\ UNCHANGED fact
       \/ /\ s = "GRAPH"
          /\ Goto(w, "record")
          /\ UNCHANGED <<physical, fact>>
       \/ /\ "store failure" \in Events
          /\ Goto(w, IF s = "GRAPH" THEN "undo" ELSE "failSoft")
          /\ UNCHANGED <<physical, fact>>
    /\ UNCHANGED <<ledger, lane, cold, revision, document, registry, owner,
                   cleanup, purging, profile>>

\* record_mutation_artifact: receipt, registry row and ownership, refused by
\* the fence.  A row the registry already has keeps its state, and ownership
\* once released is not taken again.
RecordArtifact(w, m, s) ==
    /\ At(w, "record", m, s)
    /\ \/ /\ ~Fenced(m)
          /\ registry' = [registry EXCEPT ![RevisionOf[m]][s] =
                             IF @ = "NONE" THEN "ACTIVE" ELSE @]
          /\ owner' = [owner EXCEPT ![m][s] = IF @ = "NONE" THEN "ACTIVE" ELSE @]
          /\ IF s = "GRAPH" THEN Goto(w, "commit") ELSE Applied(w)
       \/ /\ Fenced(m) \/ "store failure" \in Events
          /\ Goto(w, IF s = "SQL" THEN "failSoft" ELSE "undo")
          /\ UNCHANGED <<registry, owner>>
    /\ UNCHANGED <<ledger, lane, cold, catalog, physical, cleanup, purging, profile>>

\* The Kuzu transaction commits, or rolls back and the lane retries.
CommitGraph(w, m) ==
    /\ At(w, "commit", m, "GRAPH")
    /\ \/ /\ physical' = [physical EXCEPT !["GRAPH"] = @ \cup {RevisionOf[m]}]
          /\ Applied(w)
       \/ /\ "store failure" \in Events
          /\ Goto(w, "failSoft")
          /\ UNCHANGED physical
    /\ UNCHANGED <<ledger, lane, cold, catalog, registry, owner, cleanup, purging, profile>>

\* Compensation of a write whose receipt was refused: the vector is deleted;
\* the staged graph write disappears with its transaction, and a terminal
\* mutation takes its canonical assertion with it.  Deletes may fail.
DeleteFailures(stores) ==
    IF "store failure" \in Events THEN SUBSET stores ELSE {{}}
UndoWrite(w, m, s) ==
    LET r == RevisionOf[m]
    IN  /\ At(w, "undo", m, s)
        /\ \E failed \in DeleteFailures({s}) :
              /\ worker' = [worker EXCEPT ![w].bad = failed,
                              ![w].pc = IF s = "GRAPH" /\ failed = {}
                                        THEN "failSoft" ELSE "undone"]
              /\ physical' = IF s = "VECTOR" /\ failed = {}
                             THEN [physical EXCEPT !["VECTOR"] = @ \ {r}]
                             ELSE physical
        /\ fact' = IF s = "GRAPH" /\ RowTerminal(ledger[m]) /\ fact[r].by = m
                   THEN [fact EXCEPT ![r] = [st |-> "NONE", by |-> None]] ELSE fact
        /\ UNCHANGED <<ledger, lane, cold, revision, document, registry, owner,
                       cleanup, purging, profile>>

\* _enqueue_unowned_projection_cleanup: keep what could not be deleted as
\* durable cleanup work, reopening a finished rollback for it.
Reopened(row) ==
    [mut |-> IF row.mut = "ROLLED_BACK" THEN "ROLLING_BACK" ELSE row.mut,
     run |-> IF row.run = "ROLLED_BACK" THEN "ROLLING_BACK" ELSE row.run]
EnqueueUnowned(m, stores) ==
    /\ ledger' = [ledger EXCEPT ![m] = Reopened(@)]
    /\ registry' = [registry EXCEPT ![RevisionOf[m]] =
                      [s \in Store |-> IF s \in stores THEN "TOMBSTONED" ELSE @[s]]]
    /\ cleanup' = [cleanup EXCEPT ![m] =
                      [s \in Store |-> IF s \in stores /\ @[s].st = "NONE"
                                       THEN Row("PENDING", 0) ELSE @[s]]]

\* Mutant: the count of unfinished cleanup rows is not looked at.
FinalizeUncounted(m) ==
    /\ ledger' = [ledger EXCEPT ![m] = MoveBoth(@, "ROLLED_BACK")]
    /\ UNCHANGED <<registry, cleanup>>
\* _finalize_terminal_projection_compensation
FinalizeCompensation(m) ==
    /\ ledger' = [ledger EXCEPT ![m] =
                    IF \A s \in Store : cleanup[m][s].st \in {"NONE", "COMPLETED"}
                    THEN MoveBoth(@, "ROLLED_BACK") ELSE @]
    /\ UNCHANGED <<registry, cleanup>>

\* The transaction that ends a compensation, and what the worker does next.
SettleUndo(w, m, s) ==
    /\ At(w, "undone", m, s)
    /\ IF worker[w].bad = {} THEN FinalizeCompensation(m)
                             ELSE EnqueueUnowned(m, worker[w].bad)
    /\ worker' = [worker EXCEPT ![w].pc = "failSoft", ![w].bad = {}]
    /\ UNCHANGED <<lane, cold, catalog, physical, owner, purging, profile>>

\* Mutant: a failing backfill takes a committed mutation with it.
FailedAlways(row, dead) ==
    MoveRun(MoveMutation(row, IF dead THEN "DEAD_LETTER" ELSE "RETRY_PENDING"),
            IF dead THEN "DLQ" ELSE "RETRY_PENDING")
\* What a failed lane does to its mutation: a committed one, whose lane is only
\* being backfilled, is left alone.
Failed(row, dead) ==
    IF row.mut = "COMMITTED" THEN row
    ELSE MoveRun(MoveMutation(row, IF dead THEN "DEAD_LETTER" ELSE "RETRY_PENDING"),
                 IF dead THEN "DLQ" ELSE "RETRY_PENDING")

\* fail_projection_outbox: only the holder of the claim is heard.  The lane
\* retries after a back-off or is dead, and the mutation follows it.
FailLane(w, m, s) ==
    LET row == lane[m][s]
        dead == worker[w].pc = "failHard" \/ row.n >= RetryLimit
    IN  /\ At(w, "failHard", m, s) \/ At(w, "failSoft", m, s)
        /\ IF Holds(w, row)
           THEN /\ lane' = [lane EXCEPT ![m][s] =
                              [st |-> IF dead THEN "DEAD_LETTER" ELSE "RETRY_PENDING",
                               by |-> None, n |-> row.n]]
                /\ ledger' = [ledger EXCEPT ![m] = Failed(@, dead)]
           ELSE UNCHANGED <<lane, ledger>>
        /\ Done(w)
        /\ UNCHANGED <<cold, catalog, artifacts, cleanup, purging, profile>>

-----------------------------------------------------------------------------
(* Completion                                                              *)

\* _advance_mutation_projection_state: walk the milestones the finished lanes
\* allow, each from the one before it; a milestone out of reach ends the walk.
\* Every move recomputes the run, and so does a walk with nothing left to do.
Milestone == <<"SQL_APPLIED", "VECTOR_APPLIED", "GRAPH_APPLIED", "COMMITTED">>
Reached == [VALIDATED |-> 0, PENDING |-> 0, RETRY_PENDING |-> 0, SQL_APPLIED |-> 1,
            VECTOR_APPLIED |-> 2, GRAPH_APPLIED |-> 3, COMMITTED |-> 4]
Finished(rows) == {s \in Store : \/ rows[s].st = "COMPLETED"
                                 \/ s # "SQL" /\ rows[s].st = "SKIPPED"}
Met(done) == <<"SQL" \in done, "VECTOR" \in done, "GRAPH" \in done, done = Store>>
Ahead(state) == Reached[state] + 1 .. 4
Walk(state, done) ==
    LET path == {j \in Ahead(state) : \A i \in Ahead(state) : i <= j => Met(done)[i]}
    IN  IF path # {} THEN Milestone[Reached[state] + Cardinality(path)]
        ELSE IF state = "RETRY_PENDING" THEN "PENDING" ELSE state
Advance(row, done) ==
    LET last == Walk(row.mut, done)
    IN  IF \/ RowTerminal(row)
           \/ done = {}
           \/ row.mut \notin DOMAIN Reached
           \/ last = row.mut /\ \E j \in Ahead(last) : Met(done)[j]
        THEN row ELSE [mut |-> last, run |-> Recompute(row.run, {last})]

\* complete_projection_outbox.  A lost claim or a fenced mutation finalizes
\* nothing: the worker turns to deleting what the mutation projected.  An
\* activation that meets the wrong head raises and undoes the transaction;
\* raised out of the batch it ends the consumer's iteration.
AfterCompletion(local, item, stale, raises) ==
    IF stale
    THEN [local EXCEPT !.pc = "fence", !.cur = item, !.ok = @ \ {item},
                       !.bad = {x \in Optional : owner[item[1]][x] # "NONE"}]
    ELSE IF raises
    THEN IF local.pc = "skip" THEN [local EXCEPT !.pc = "failSoft"] ELSE Idle
    ELSE [local EXCEPT !.pc = "next", !.cur = None, !.ok = @ \ {item}]
CompleteLane(w, m, s, outcome) ==
    LET rows == [lane[m] EXCEPT ![s] = Row(outcome, @.n)]
        row == Advance(ledger[m], Finished(rows))
        act == /\ row.mut = "COMMITTED" /\ ledger[m].mut # "COMMITTED"
               /\ ReadyToActivate(RevisionOf[m], [ledger EXCEPT ![m] = row])
        stale == ~Holds(w, lane[m][s]) \/ Fenced(m)
        raises == act /\ HeadConflict(RevisionOf[m])
    IN  /\ lane' = IF stale
                   THEN IF Fenced(m) /\ lane[m][s].st = "IN_FLIGHT"
                        THEN [lane EXCEPT ![m][s] = Cancelled] ELSE lane
                   ELSE IF raises THEN lane ELSE [lane EXCEPT ![m] = rows]
        /\ ledger' = IF stale \/ raises THEN ledger ELSE [ledger EXCEPT ![m] = row]
        /\ revision' = IF act /\ ~stale /\ ~raises
                       THEN ActivatedRevisions(RevisionOf[m]) ELSE revision
        /\ fact' = IF act /\ ~stale /\ ~raises
                   THEN ActivatedFacts(RevisionOf[m]) ELSE fact
        /\ worker' = [worker EXCEPT ![w] = AfterCompletion(@, <<m, s>>, stale, raises)]
        /\ UNCHANGED <<cold, document, artifacts, cleanup, purging, profile>>

\* A disabled lane is completed on the spot; the others when the batch is done.
SkipLane(w, m, s) == At(w, "skip", m, s) /\ CompleteLane(w, m, s, "SKIPPED")
FinishLane(w, m, s) ==
    /\ worker[w].pc = "next" /\ worker[w].todo = {}
    /\ <<m, s>> \in First(worker[w].ok)
    /\ CompleteLane(w, m, s, "COMPLETED")

\* The lost or fenced completion deletes the mutation's derived artifacts, one
\* store at a time.  A delete may fail, and Kuzu's does while it is disabled.
DeleteProjected(w, m, s) ==
    /\ At(w, "fence", m, s)
    /\ \E refused \in DeleteFailures(worker[w].bad) :
       LET failed == refused \cup (worker[w].bad \cap ({"GRAPH"} \ profile))
       IN  /\ physical' = [x \in Optional |-> IF x \in worker[w].bad \ failed
                                              THEN physical[x] \ {RevisionOf[m]}
                                              ELSE physical[x]]
           /\ worker' = [worker EXCEPT ![w].pc = "fenced", ![w].bad = failed]
    /\ UNCHANGED <<ledger, lane, cold, catalog, registry, owner, cleanup, purging, profile>>

SettleFence(w, m, s) ==
    /\ At(w, "fenced", m, s)
    /\ IF worker[w].bad = {} THEN FinalizeCompensation(m)
                             ELSE EnqueueUnowned(m, worker[w].bad)
    /\ Done(w)
    /\ UNCHANGED <<lane, cold, catalog, physical, owner, purging, profile>>

-----------------------------------------------------------------------------
(* Rollback cleanup                                                        *)

\* claim_artifact_cleanup, the last stage of every iteration; with nothing to
\* claim the iteration ends.
ClaimCleanup(w) ==
    /\ worker[w].pc = "next" /\ worker[w].todo = {} /\ worker[w].ok = {}
    /\ \E clock \in SUBSET {i \in Mutation \X Store : Waiting(cleanup[i[1]][i[2]])} :
       LET ready == clock \cup {i \in Mutation \X Store :
                                   cleanup[i[1]][i[2]].st = "PENDING"}
       IN  /\ cleanup' = [m \in Mutation |-> [s \in Store |->
                             IF <<m, s>> \in ready THEN Claim(cleanup[m][s], w)
                             ELSE cleanup[m][s]]]
           /\ worker' = [worker EXCEPT ![w] =
                 IF ready = {} THEN Idle
                 ELSE [@ EXCEPT !.pc = "clean", !.todo = ready]]
    /\ UNCHANGED <<ledger, lane, cold, catalog, artifacts, purging, profile>>

\* apply_artifact_cleanup: the canonical row is deleted; a derived artifact is
\* kept while its assertion is not retracted.  The store may fail.
ApplyCleanup(w, m, s) ==
    LET r == RevisionOf[m]
    IN  /\ worker[w].pc = "clean"
        /\ <<m, s>> \in worker[w].todo
        /\ \/ /\ s = "SQL"
              /\ fact' = [fact EXCEPT ![r] = [st |-> "NONE", by |-> None]]
              /\ Begin(w, "cleaned", <<m, s>>)
              /\ UNCHANGED physical
           \/ /\ s = "VECTOR" \/ (s = "GRAPH" /\ "GRAPH" \in profile)
              /\ physical' = IF fact[r].st \in {"NONE", "RETRACTED"}
                             THEN [physical EXCEPT ![s] = @ \ {r}] ELSE physical
              /\ Begin(w, "cleaned", <<m, s>>)
              /\ UNCHANGED fact
           \/ /\ "store failure" \in Events \/ (s = "GRAPH" /\ "GRAPH" \notin profile)
              /\ Begin(w, "cleanFail", <<m, s>>)
              /\ UNCHANGED <<physical, fact>>
        /\ UNCHANGED <<ledger, lane, cold, revision, document, registry, owner,
                       cleanup, purging, profile>>

\* finish_artifact_cleanup: a failure retries until the limit blocks the run;
\* the last completed row finishes the rollback.
FinishCleanup(w, m, s) ==
    LET row == cleanup[m][s]
        failed == worker[w].pc = "cleanFail"
        blocked == failed /\ row.n >= RetryLimit
        rows == [cleanup EXCEPT ![m][s] =
                    Row(IF blocked THEN "BLOCKED"
                        ELSE IF failed THEN "RETRY_PENDING" ELSE "COMPLETED", row.n)]
        finished == \A x \in Store : rows[m][x].st \in {"NONE", "COMPLETED"}
    IN  /\ At(w, "cleaned", m, s) \/ At(w, "cleanFail", m, s)
        /\ IF Holds(w, row)
           THEN /\ cleanup' = rows
                /\ registry' = IF failed THEN registry
                               ELSE [registry EXCEPT ![RevisionOf[m]][s] = "DELETED"]
                /\ ledger' = [ledger EXCEPT ![m] =
                                IF blocked THEN MoveBoth(@, "BLOCKED")
                                ELSE IF ~failed /\ finished THEN MoveBoth(@, "ROLLED_BACK")
                                ELSE @]
           ELSE UNCHANGED <<cleanup, registry, ledger>>
        /\ worker' = [worker EXCEPT ![w] =
                        IF @.todo = {} THEN Idle
                        ELSE [@ EXCEPT !.pc = "clean", !.cur = None]]
        /\ UNCHANGED <<lane, cold, catalog, physical, owner, purging, profile>>

-----------------------------------------------------------------------------
(* Operator requests                                                       *)

\* request_pipeline_rollback releases the run's ownership, tombstones what is
\* left without an owner, queues its cleanup and cancels the lanes.  It raises,
\* changing nothing, for a revision that is no longer the head, for a run that
\* cannot roll back, and when the restored head would be a second one.
MayRollBack(m) ==
    /\ Admitted(m)
    /\ revision[RevisionOf[m]] # "SUPERSEDED"
    /\ ledger[m].run = "ROLLING_BACK" \/ "ROLLING_BACK" \in RunNext(ledger[m].run)
    /\ UniqueHeads(RestoredRevisions(m))

\* Mutant: only canonical rows are cleaned up.
OrphansInSql(m) ==
    {s \in {"SQL"} : owner[m][s] # "NONE"
                     /\ \A n \in Siblings(m) \ {m} : owner[n][s] # "ACTIVE"}
Orphans(m) ==
    {s \in Store : /\ owner[m][s] # "NONE"
                   /\ \A n \in Siblings(m) \ {m} : owner[n][s] # "ACTIVE"}

RollBack(m) ==
    LET r == RevisionOf[m]
        dead == Orphans(m)
        inFlight == \E s \in Store : lane[m][s].st = "IN_FLIGHT"
        rolling == MoveBoth(ledger[m], "ROLLING_BACK")
        retracted == IF "SQL" \in dead /\ fact[r].st # "NONE"
                     THEN [fact EXCEPT ![r].st = "RETRACTED"] ELSE fact
    IN  /\ MayRollBack(m)
        /\ owner' = [owner EXCEPT ![m] =
                        [s \in Store |-> IF @[s] = "ACTIVE" THEN "RELEASED" ELSE @[s]]]
        /\ registry' = [registry EXCEPT ![r] =
                          [s \in Store |-> IF s \in dead THEN "TOMBSTONED" ELSE @[s]]]
        /\ cleanup' = [cleanup EXCEPT ![m] =
                          [s \in Store |-> IF s \in dead /\ @[s].st = "NONE"
                                           THEN Row("PENDING", 0) ELSE @[s]]]
        /\ revision' = RestoredRevisions(m)
        /\ fact' = RestoredFacts(m, retracted)
        /\ lane' = [lane EXCEPT ![m] = [s \in Store |-> Cancelled]]
        /\ ledger' = [ledger EXCEPT ![m] =
                        IF dead = {} /\ ~inFlight THEN MoveBoth(rolling, "ROLLED_BACK")
                        ELSE rolling]
        /\ UNCHANGED <<cold, document, physical, profile, worker>>

RequestRollback(m) == "rollback" \in Events /\ RollBack(m) /\ UNCHANGED purging

\* Mutant: every replay resumes the forward path.
ResumedForward(m) == "RETRY_PENDING"
\* Where a replay resumes: a run with blocked cleanup in its rollback, any other
\* on the forward path.
Resumed(m) == IF \E s \in Store : cleanup[m][s].st = "BLOCKED"
              THEN "ROLLING_BACK" ELSE "RETRY_PENDING"

\* replay_pipeline_run: a blocked cleanup resumes the rollback, anything else
\* the forward path; dead lanes and a dead extraction are due at once.
Replay(m) ==
    LET resumed == Resumed(m)
        row == MoveBoth(ledger[m], resumed)
    IN  /\ "replay" \in Events
        /\ ledger[m].run \in {"DLQ", "BLOCKED"}
        /\ ledger[m].mut # "REJECTED"
        /\ ledger' = [ledger EXCEPT ![m] = row]
        /\ lane' = [lane EXCEPT ![m] = Lanes(m, {"DEAD_LETTER"}, "RETRY_PENDING")]
        /\ cleanup' = [cleanup EXCEPT ![m] =
                          [s \in Store |-> IF @[s].st = "BLOCKED"
                                           THEN Row("RETRY_PENDING", @[s].n) ELSE @[s]]]
        /\ cold' = IF row.mut = "RETRY_PENDING" /\ resumed = "RETRY_PENDING"
                      /\ cold[m] = "DEAD"
                   THEN [cold EXCEPT ![m] = "QUEUED"] ELSE cold
        /\ UNCHANGED <<catalog, artifacts, purging, profile, worker>>

\* purge_v4_document, its first transaction: fence the mutations, mark the
\* document and its revisions, retract its assertions, and remember the runs
\* that still own something for the rollbacks that follow.
Unpurgeable == {Absent, "PURGED", "ROLLED_BACK", "REJECTED", "CANCELLED"}
PurgeDocument(d) ==
    LET inside == {m \in Mutation : DocOf(m) = d /\ Admitted(m)}
        purged == {m \in inside : /\ ledger[m].mut \notin Unpurgeable
                                  /\ "PURGED" \in MutationNext(ledger[m].mut)}
        owning == {m \in inside :
                      \/ ledger[m].mut \notin Unpurgeable
                      \/ \E s \in Store : /\ owner[m][s] = "ACTIVE"
                                          /\ registry[RevisionOf[m]][s] = "ACTIVE"}
    IN  /\ "purge" \in Events
        /\ inside # {}
        /\ ledger' = [m \in Mutation |-> IF m \in purged
                                         THEN MoveMutation(ledger[m], "PURGED")
                                         ELSE ledger[m]]
        /\ lane' = [m \in Mutation |-> IF m \in purged
                       THEN [s \in Store |-> Cancelled] ELSE lane[m]]
        /\ document' = [document EXCEPT ![d] = "PURGED"]
        /\ revision' = [r \in Revision |-> IF DocumentOf[r] = d /\ revision[r] # "NONE"
                                           THEN "PURGED" ELSE revision[r]]
        /\ fact' = [r \in Revision |-> IF DocumentOf[r] = d /\ fact[r].st # "NONE"
                                       THEN [fact[r] EXCEPT !.st = "RETRACTED"]
                                       ELSE fact[r]]
        /\ purging' = purging \cup owning
        /\ UNCHANGED <<cold, artifacts, cleanup, profile, worker>>

\* The rollbacks of a purge, one transaction each; one that raises is left for
\* the caller to retry, one already rolled back has nothing to do.
PurgeRollback(m) ==
    /\ m \in purging
    /\ purging' = purging \ {m}
    /\ IF MayRollBack(m) THEN RollBack(m)
       ELSE UNCHANGED <<ledger, lane, cold, catalog, artifacts, cleanup, profile, worker>>

-----------------------------------------------------------------------------
(* Crash and restart                                                       *)

\* reconcile_v4_projection_parity(repair=True): the finished lanes of a
\* committed mutation whose artifact its store no longer shows.
Missing(m, stores) ==
    LET r == RevisionOf[m]
    IN  {s \in Store : /\ owner[m][s] # "NONE"
                       /\ lane[m][s].st = "COMPLETED"
                       /\ \/ s = "SQL" /\ fact[r].st # "ACTIVE"
                          \/ s = "VECTOR" /\ r \notin physical[s]
                          \/ s = "GRAPH" /\ s \in stores /\ r \notin physical[s]}
Unparity(m, stores) ==
    IF /\ ledger[m] = [mut |-> "COMMITTED", run |-> "COMMITTED"]
       /\ document[DocOf(m)] # "PURGED"
    THEN Missing(m, stores) ELSE {}

\* The process dies and starts again: consumers and purge handlers forget what
\* they were doing; startup repairs parity, releases in-flight lanes and
\* requeues the lanes a newly enabled store had skipped.
Recovered(m, s, next) ==
    IF s \in Unparity(m, next) \/ lane[m][s].st = "IN_FLIGHT"
    THEN Row("RETRY_PENDING", lane[m][s].n)
    ELSE IF lane[m][s].st = "SKIPPED" /\ s \in next THEN Row("PENDING", 0)
    ELSE lane[m][s]
Restart ==
    /\ "restart" \in Events
    /\ worker' = [w \in Worker |-> Idle]
    /\ purging' = {}
    /\ \E next \in Profiles :
          /\ profile' = next
          /\ lane' = [m \in Mutation |-> [s \in Store |-> Recovered(m, s, next)]]
          /\ ledger' = [m \in Mutation |-> IF Unparity(m, next) # {}
                           THEN MoveRun(MoveMutation(ledger[m], "RETRY_PENDING"),
                                        "RETRY_PENDING")
                           ELSE ledger[m]]
    /\ UNCHANGED <<cold, catalog, artifacts, cleanup>>

-----------------------------------------------------------------------------
(* Specification                                                           *)

ColdPath(w) == \E m \in Mutation :
    ColdLoad(w, m) \/ ColdExtract(w, m) \/ ColdJudge(w, m)
        \/ ColdVerified(w, m) \/ ColdUnverified(w, m)
Project(w) == \E m \in Mutation, s \in Store :
    \/ StartLane(w, m, s) \/ ListAssertions(w, m, s) \/ CheckFence(w, m, s)
    \/ WriteArtifact(w, m, s) \/ RecordArtifact(w, m, s) \/ CommitGraph(w, m)
    \/ UndoWrite(w, m, s) \/ SettleUndo(w, m, s) \/ FailLane(w, m, s)
    \/ SkipLane(w, m, s) \/ FinishLane(w, m, s)
    \/ DeleteProjected(w, m, s) \/ SettleFence(w, m, s)
Clean(w) == \E m \in Mutation, s \in Store :
    ApplyCleanup(w, m, s) \/ FinishCleanup(w, m, s)
Consume(w) == ColdPath(w) \/ ClaimLanes(w) \/ Project(w) \/ ClaimCleanup(w) \/ Clean(w)
Request == \/ \E m \in Mutation : Admit(m) \/ RequestRollback(m) \/ Replay(m)
                                    \/ PurgeRollback(m)
           \/ \E d \in Document : PurgeDocument(d)
Next == (\E w \in Worker : Consume(w)) \/ Request \/ Restart

Spec == Init /\ [][Next]_vars

\* The consumer loop never stops, and each stage claims the rows that are due,
\* oldest first: a lane that stays claimable, or a cleanup row that stays
\* unfinished, is claimed.  (A mutation has one claimable lane at a time.)
\* Nothing is assumed of requests, failures or restarts.
ClaimsLaneOf(w, m) == ClaimLanes(w) /\ \E s \in Store : <<m, s>> \in worker'[w].todo
ClaimsCleanup(w, m, s) == ClaimCleanup(w) /\ <<m, s>> \in worker'[w].todo
Fairness ==
    \A w \in Worker :
        /\ WF_vars(Consume(w))
        /\ \A m \in Mutation : SF_vars(ClaimsLaneOf(w, m))
        /\ \A m \in Mutation, s \in Store : SF_vars(ClaimsCleanup(w, m, s))
FairSpec == Spec /\ Fairness

-----------------------------------------------------------------------------
(* Properties                                                              *)

\* No consumer is in the middle of an item of the mutation.
Quiet(m) == \A w \in Worker : /\ \/ worker[w].cur = None
                                 \/ worker[w].cur[1] # m
                              /\ \A i \in worker[w].todo \cup worker[w].ok : i[1] # m

\* A rollback of the run is under way, is over, or is blocked on its cleanup.
RollbackBegun(m) == \/ ledger[m].run \in {"ROLLING_BACK", "ROLLED_BACK"}
                    \/ ledger[m] = [mut |-> "BLOCKED", run |-> "BLOCKED"]

\* Once a rollback has begun the mutation never returns to the forward path:
\* no late completion, failure report, replay or parity repair of dao.py
\* revives it.
NoResurrection ==
    [][\A m \in Mutation : RollbackBegun(m) =>
          ledger'[m].mut \in Terminal \cup {"BLOCKED"}]_vars

\* A run that shares no artifact says ROLLED_BACK only when every cleanup row
\* queued for it is done ("Finish rollback only when no physical cleanup remains
\* outstanding", _finalize_terminal_projection_compensation).
RolledBackIsClean ==
    \A m \in Mutation :
        ledger[m].run = "ROLLED_BACK" /\ Siblings(m) = {m} =>
            \A s \in Store : cleanup[m][s].st \in {"NONE", "COMPLETED"}

\* A rolled back run leaves nothing in the derived stores once the consumers are
\* done with it, whatever they were writing when the rollback came.
RolledBackLeavesNothing ==
    \A m \in Mutation :
        /\ \A n \in Siblings(m) \cup {m} : ledger[n].run = "ROLLED_BACK" /\ Quiet(n)
        => \A s \in Optional : RevisionOf[m] \notin physical[s]

\* A committed mutation with every lane completed is in every store it
\* projected to, and owns what it recorded there.
CommittedIsStored ==
    \A m \in Mutation :
        ledger[m].mut = "COMMITTED" =>
        \A s \in Store :
            /\ lane[m][s].st = "COMPLETED"
            /\ fact[RevisionOf[m]].by = m
            => /\ owner[m][s] = "ACTIVE"
               /\ s \in Optional => RevisionOf[m] \in physical[s]

\* Every artifact a completed lane recorded is in its store.
Stored(m) ==
    \A s \in Store : lane[m][s].st = "COMPLETED" /\ owner[m][s] # "NONE" =>
        IF s = "SQL" THEN fact[RevisionOf[m]].st # "NONE"
                     ELSE RevisionOf[m] \in physical[s]

\* A committed mutation the stores still show stays committed until an operator
\* rolls it back or purges it: neither a failing backfill nor a restart hides it.
CommittedStaysCommitted ==
    [][\A m \in Mutation : ledger[m].mut = "COMMITTED" /\ Stored(m) =>
          ledger'[m].mut \in {"COMMITTED", "ROLLING_BACK", "ROLLED_BACK", "PURGED"}]_vars

\* History is one line with a head: until its document is purged a superseded
\* revision has a successor that was activated, and its document an active
\* revision.
HistoryHasHead ==
    \A q \in Revision : revision[q] = "SUPERSEDED" =>
        /\ \E r \in Revision : Supersedes[r] = q /\ revision[r] \in {"ACTIVE", "SUPERSEDED"}
        /\ \E r \in Revision : DocumentOf[r] = DocumentOf[q] /\ revision[r] = "ACTIVE"

\* Assertions follow the head of their document, forward at activation and back
\* at a rollback.
FactsFollowHead ==
    \A q \in Revision : /\ revision[q] = "SUPERSEDED" => fact[q].st # "ACTIVE"
                        /\ revision[q] = "ACTIVE" => fact[q].st # "SUPERSEDED"

\* A purged document has no assertion left to retrieve once the consumers are
\* done with it (architecture-v4.md, "A legal purge retracts the requested
\* source").
PurgedIsRetracted ==
    \A m \in Mutation :
        document[DocOf(m)] = "PURGED" /\ Quiet(m) /\ m \notin purging
            => fact[RevisionOf[m]].st # "ACTIVE"

\* A shared assertion outlives the rollback of one of its owners
\* (architecture-v4.md, "A shared artifact remains active while another source
\* owns it").
SharedArtifactKept ==
    \A m \in Mutation :
        owner[m]["SQL"] = "ACTIVE" /\ ledger[m].mut = "COMMITTED"
            => fact[RevisionOf[m]].st # "NONE"

\* A run is not committed while a cleanup row of its own is still queued or blocked
\* (architecture-v4.md, "An unfinished cleanup leaves the run BLOCKED, never
\* falsely committed"); whether that cleanup would delete anything is not asked.
NeverFalselyCommitted ==
    \A m \in Mutation : ledger[m].run = "COMMITTED" =>
        \A s \in Store : cleanup[m][s].st \in {"NONE", "COMPLETED"}

\* A validated mutation reaches an outcome: committed, dead, or interrupted.
ValidatedSettles ==
    \A m \in Mutation :
        ledger[m].mut \in {"VALIDATED", "SQL_APPLIED", "VECTOR_APPLIED", "GRAPH_APPLIED"}
        ~> ledger[m].mut \in Terminal \cup {"COMMITTED", "DEAD_LETTER", "BLOCKED"}

\* Queued cleanup is finished or blocks its run.
CleanupSettles ==
    \A m \in Mutation, s \in Store :
        cleanup[m][s].st = "PENDING" ~> cleanup[m][s].st \in {"COMPLETED", "BLOCKED"}
=============================================================================
