----------------------------- MODULE VectorWal -----------------------------
(***************************************************************************)
(* The write-ahead log of the vector store: writes queued in SQLite while  *)
(* the vector space is being aligned, and their replay into the vector and *)
(* graph stores under a durable claim.                                     *)
(*                                                                         *)
(* An entry stands for one memory.  Its fence epoch names the claim, as    *)
(* the claim token does.  Two replayers may run: each alignment replays    *)
(* what it finds, and a lease does not wait for its holder.                *)
(***************************************************************************)
EXTENDS Naturals

CONSTANTS Entry, Replayer,
          WithGraph,      \* entries queued by a process that has a graph
          RetryLimit,     \* retry_limit, 3
          MaxEpoch, FaultLimit      \* bounds on claims and on errors

VARIABLES row,            \* lancedb_wal
          vec, graph,     \* entries whose memory is in each store
          erased,         \* entries deleted by somebody else since their replay looked
          job,            \* what each replayer does
          migrating,      \* lancedb_is_migrating
          faults
vars == <<row, vec, graph, erased, job, migrating, faults>>

WalState == {"none", "PENDING", "CLAIMED", "RETRY_PENDING", "RECONCILED", "ACKED",
             "BLOCKED", "RECONCILIATION_REQUIRED"}
NoRow == [st |-> "none", epoch |-> 0, n |-> 0, live |-> FALSE, vec |-> FALSE, graph |-> FALSE]
\* `seen` are the rows as the claim returned them.
Idle == [step |-> "idle", at |-> "none", todo |-> {}, seen |-> [e \in Entry |-> NoRow]]
Init == /\ row = [e \in Entry |-> NoRow]
        /\ vec = {} /\ graph = {} /\ erased = {}
        /\ job = [r \in Replayer |-> Idle]
        /\ migrating = FALSE /\ faults = 0

Fault == faults < FaultLimit /\ faults' = faults + 1

-----------------------------------------------------------------------------
(* Queueing and claiming                                                   *)

\* insert_memory while the flag is up.
Queue(e) == /\ migrating /\ row[e].st = "none"
            /\ row' = [row EXCEPT ![e].st = "PENDING"]
            /\ UNCHANGED <<vec, graph, erased, job, migrating, faults>>

\* align_memory_space: the flag, the switch of the tables (which may fail), the
\* replay, and the flag again in any case; a crash leaves the flag up.
AlignStart(r) == /\ job[r].step = "idle"
                 /\ migrating' = TRUE
                 /\ job' = [job EXCEPT ![r].step = "switch"]
                 /\ UNCHANGED <<row, vec, graph, erased, faults>>
Claimable(e) == \/ row[e].st \in {"PENDING", "RETRY_PENDING"}
                \/ row[e].st = "CLAIMED" /\ ~row[e].live
\* claim_lancedb_wal_entries
Switched(r) ==
    LET batch == {e \in Entry : Claimable(e)}
        Owned(e) == [row[e] EXCEPT !.st = "CLAIMED", !.epoch = @ + 1, !.n = @ + 1, !.live = TRUE]
    IN  /\ job[r].step = "switch"
        /\ \A e \in batch : row[e].epoch < MaxEpoch
        /\ row' = [e \in Entry |-> IF e \in batch THEN Owned(e) ELSE row[e]]
        /\ job' = [job EXCEPT ![r] = [step |-> "next", at |-> "none", todo |-> batch,
             seen |-> [e \in Entry |-> IF e \in batch THEN Owned(e) ELSE NoRow]]]
        /\ UNCHANGED <<vec, graph, erased, migrating, faults>>
AlignEnd(r) == /\ \/ job[r].step = "next" /\ job[r].todo = {} /\ UNCHANGED faults
                  \/ job[r].step = "switch" /\ Fault
                  \/ job[r].step = "raised" /\ UNCHANGED faults
               /\ migrating' = FALSE
               /\ job' = [job EXCEPT ![r] = Idle]
               /\ UNCHANGED <<row, vec, graph, erased>>

-----------------------------------------------------------------------------
(* Replay of one claimed entry                                             *)

OwnsUnfenced(r, e) == row[e].st = "CLAIMED"
\* The WHERE clause of every fenced update.
Owns(r, e) == row[e].st = "CLAIMED" /\ row[e].epoch = job[r].seen[e].epoch
At(r, step) == job[r].step = step
Entered(r) == job[r].at
To(r, step) == job' = [job EXCEPT ![r].step = step]

Take(r, e) == /\ At(r, "next") /\ e \in job[r].todo
              /\ job' = [job EXCEPT ![r].step = "vector", ![r].at = e, ![r].todo = @ \ {e}]
              /\ UNCHANGED <<row, vec, graph, erased, migrating, faults>>

\* _retry_lancedb_wal_entry; the error is raised and ends the whole replay.
Retried(e) == [row EXCEPT ![e].st = IF row[e].n >= RetryLimit THEN "BLOCKED" ELSE "RETRY_PENDING",
                          ![e].live = FALSE]
Failed(r) == LET e == Entered(r)
             IN  /\ Fault
                 /\ row' = IF Owns(r, e) THEN Retried(e) ELSE row
                 /\ To(r, "raised")
                 /\ UNCHANGED <<vec, graph, erased, migrating>>

\* What the claim has read decides which projections are missing.
Upsert(r) == LET e == Entered(r)
             IN  /\ At(r, "vector") /\ ~job[r].seen[e].vec
                 /\ vec' = vec \cup {e}
                 /\ To(r, "record_vector")
                 /\ UNCHANGED <<row, graph, erased, migrating, faults>>
\* record_lancedb_projection_state
RecordVector(r) == LET e == Entered(r)
                   IN  /\ At(r, "record_vector")
                       /\ row' = IF Owns(r, e) THEN [row EXCEPT ![e].vec = TRUE] ELSE row
                       /\ To(r, IF Owns(r, e) THEN "graph" ELSE "next")
                       /\ UNCHANGED <<vec, graph, erased, migrating, faults>>
SkipVector(r) == /\ At(r, "vector") /\ job[r].seen[Entered(r)].vec
                 /\ To(r, "graph")
                 /\ UNCHANGED <<row, vec, graph, erased, migrating, faults>>

InsertNode(r) == LET e == Entered(r)
                 IN  /\ At(r, "graph") /\ WithGraph /\ ~job[r].seen[e].graph
                     /\ graph' = graph \cup {e}
                     /\ To(r, "record_graph")
                     /\ UNCHANGED <<row, vec, erased, migrating, faults>>
RecordGraph(r) == LET e == Entered(r)
                  IN  /\ \/ At(r, "record_graph")
                         \/ At(r, "graph") /\ ~WithGraph /\ ~job[r].seen[e].graph \* NOT_REQUIRED
                      /\ row' = IF Owns(r, e) THEN [row EXCEPT ![e].graph = TRUE] ELSE row
                      /\ To(r, IF Owns(r, e) THEN "reconcile" ELSE "next")
                      /\ UNCHANGED <<vec, graph, erased, migrating, faults>>
SkipGraph(r) == /\ At(r, "graph") /\ job[r].seen[Entered(r)].graph
                /\ To(r, "reconcile")
                /\ UNCHANGED <<row, vec, graph, erased, migrating, faults>>
Fail(r) == /\ \/ At(r, "vector") /\ ~job[r].seen[Entered(r)].vec
              \/ At(r, "graph") /\ WithGraph /\ ~job[r].seen[Entered(r)].graph
           /\ Failed(r)

ReconciledUnseen(e) == [row[e] EXCEPT !.st = "RECONCILED"]
\* reconcile_lancedb_wal_entry: what is observed in the stores decides.
Reconciled(e) ==
    CASE e \notin vec -> [row[e] EXCEPT !.st = "RETRY_PENDING", !.vec = FALSE, !.live = FALSE]
      [] e \in vec /\ WithGraph /\ e \notin graph ->
            [row[e] EXCEPT !.st = "RETRY_PENDING", !.graph = FALSE, !.live = FALSE]
      [] OTHER -> [row[e] EXCEPT !.st = "RECONCILED"]
Reconcile(r) ==
    LET e == Entered(r)
    IN  /\ At(r, "reconcile")
        /\ IF Owns(r, e)
           THEN \/ /\ row' = [row EXCEPT ![e] = Reconciled(e)]
                   /\ erased' = erased \ {e}
                   /\ To(r, IF Reconciled(e).st = "RECONCILED" THEN "ack" ELSE "next")
                   /\ UNCHANGED faults
                \/ /\ Fault \* the stores do not answer, or hold more than expected
                   /\ row' = [row EXCEPT ![e].st = "RECONCILIATION_REQUIRED", ![e].live = FALSE]
                   /\ To(r, "next")
                   /\ UNCHANGED erased
           ELSE To(r, "next") /\ UNCHANGED <<row, erased, faults>>
        /\ UNCHANGED <<vec, graph, migrating>>

\* ack_lancedb_wal_entry
Ack(r) == LET e == Entered(r)
          IN  /\ At(r, "ack")
              /\ row' = IF row[e].st = "RECONCILED" /\ row[e].epoch = job[r].seen[e].epoch
                        THEN [row EXCEPT ![e].st = "ACKED", ![e].live = FALSE] ELSE row
              /\ To(r, "next")
              /\ UNCHANGED <<vec, graph, erased, migrating, faults>>

-----------------------------------------------------------------------------
Expire(e) == /\ row[e].live
             /\ row' = [row EXCEPT ![e].live = FALSE]
             /\ UNCHANGED <<vec, graph, erased, job, migrating, faults>>
\* A purge, or the compensation of a failed insert, deletes the memory.
Erase(e) == /\ Fault /\ e \in vec \cup graph
            /\ vec' = vec \ {e} /\ graph' = graph \ {e} /\ erased' = erased \cup {e}
            /\ UNCHANGED <<row, job, migrating>>
\* The process dies; recover_expired_lancedb_wal_claims at the next start.
Restart == /\ Fault
           /\ job' = [r \in Replayer |-> Idle]
           /\ row' = [e \in Entry |-> IF row[e].st = "CLAIMED" /\ ~row[e].live
                                      THEN [row[e] EXCEPT !.st = "RETRY_PENDING"] ELSE row[e]]
           /\ UNCHANGED <<vec, graph, erased, migrating>>

Replay(r) == \/ Upsert(r) \/ RecordVector(r) \/ SkipVector(r) \/ InsertNode(r) \/ RecordGraph(r)
             \/ SkipGraph(r) \/ Fail(r) \/ Reconcile(r) \/ Ack(r)
             \/ AlignStart(r) \/ Switched(r) \/ AlignEnd(r)
Next == \/ \E r \in Replayer : Replay(r) \/ (\E e \in Entry : Take(r, e))
        \/ \E e \in Entry : Queue(e) \/ Expire(e) \/ Erase(e)
        \/ Restart
Spec == Init /\ [][Next]_vars

-----------------------------------------------------------------------------
TypeOK == /\ row \in [Entry -> [st: WalState, epoch: 0..MaxEpoch, n: Nat, live: BOOLEAN,
                                vec: BOOLEAN, graph: BOOLEAN]]
          /\ vec \subseteq Entry /\ graph \subseteq Entry /\ erased \subseteq Entry
          /\ \A r \in Replayer : job[r].at \in Entry \cup {"none"} /\ job[r].todo \subseteq Entry

\* An acknowledged write is in every store it was meant for, whichever replayer
\* acknowledged it and whatever leases ran out, unless it was deleted after the
\* stores were compared with the log.
AckedIsStored == \A e \in Entry :
    row[e].st = "ACKED" => e \in erased \/ (e \in vec /\ (WithGraph => e \in graph))
=============================================================================
