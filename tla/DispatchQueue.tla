--------------------------- MODULE DispatchQueue ---------------------------
(***************************************************************************)
(* The durable dispatch queue, the raw logs it refers to and the           *)
(* finalization of a session, as the consumer of the combined runtime      *)
(* works on them.                                                          *)
(*                                                                         *)
(* The writer lock leaves one consumer, so a claim token is stale only     *)
(* after a crash, and then its holder is gone: a row keeps whether its     *)
(* lease or backoff is still running, not the token.  A mutation is OPEN   *)
(* while it may still be extracted, and the module ProjectionPipeline has  *)
(* what follows.  All records belong to one session.                       *)
(***************************************************************************)
EXTENDS Naturals, FiniteSetsExt

CONSTANTS
    Record, TenantOf, Bytes,     \* raw logs, their tenants and sizes
    MaxRecords, MaxBytes, MaxInFlight, MaxRetrying,     \* per scope
    MaxAttempts,                 \* 5 in complete_dispatch_queue
    RetryLimit,                  \* retry_limit of a finalization
    FaultLimit                   \* bound on crashes, errors, rollbacks and replays

VARIABLES log, item, mut,        \* raw_logs, dispatch_queue, memory_mutations
          fin,                   \* session_finalization_journal
          job,                   \* what the consumer does with each record
          phase, todo,           \* where its loop is; logs left to finalize
          faults
vars == <<log, item, mut, fin, job, phase, todo, faults>>

Settled == {"processed", "rejected"}
LogState == {"none", "DEFERRED", "processing", "failed"} \cup Settled
ItemState == {"none", "ENQUEUED", "IN_FLIGHT", "RETRY_PENDING", "FINALIZED", "DEAD_LETTER"}
FinState == {"none", "PENDING", "CLAIMED", "RETRY_PENDING", "COMPLETED", "BLOCKED"}

Init == /\ log = [r \in Record |-> "none"]
        /\ item = [r \in Record |-> [st |-> "none", n |-> 0, live |-> FALSE]]
        /\ mut = [r \in Record |-> "none"]
        /\ fin = [st |-> "none", n |-> 0, live |-> FALSE]
        /\ job = [r \in Record |-> [step |-> "none", then |-> "none", for |-> "none"]]
        /\ phase = "claim" /\ todo = {} /\ faults = 0

\* An error, a crash or a request that undoes work; bounded by FaultLimit.
Fault == faults < FaultLimit /\ faults' = faults + 1
Started(for) == [step |-> "load", then |-> "none", for |-> for]
NoJob == [step |-> "none", then |-> "none", for |-> "none"]
Idle == \A r \in Record : job[r] = NoJob

-----------------------------------------------------------------------------
(* Admission                                                               *)

ActiveOnlyQueued == {"ENQUEUED"}
\* _ADMISSION_ACTIVE_STATES
Active == {"ENQUEUED", "IN_FLIGHT", "RETRY_PENDING"}

\* _queue_usage of a set of rows.
InState(rows, states) == {r \in rows : item[r].st \in states}
Weight(rows) == MapThenSumSet(LAMBDA r : Bytes[r], rows)

\* _enforce_queue_capacity, for the whole queue and for the record's tenant.
HasRoom(r, rows) ==
    LET active == InState(rows, Active)
    IN  /\ Cardinality(active) + 1 <= MaxRecords
        /\ Weight(active) + Bytes[r] <= MaxBytes
        /\ Cardinality(InState(rows, {"IN_FLIGHT"})) < MaxInFlight
        /\ Cardinality(InState(rows, {"RETRY_PENDING"})) < MaxRetrying
OfTenant(t) == {r \in Record : TenantOf[r] = t}

\* The raw log, its dispatch and its mutation are one transaction.  Whether the
\* session is still active was asked before it, so that one may come too late.
Admit(r) ==
    /\ item[r].st = "none"
    /\ HasRoom(r, Record)
    /\ HasRoom(r, OfTenant(TenantOf[r]))
    /\ log' = [log EXCEPT ![r] = "DEFERRED"]
    /\ item' = [item EXCEPT ![r].st = "ENQUEUED"]
    /\ mut' = [mut EXCEPT ![r] = "OPEN"]
    /\ UNCHANGED <<fin, job, phase, todo, faults>>

-----------------------------------------------------------------------------
(* The consumer: claim a batch, work on it, then finalize sessions         *)

ClaimableOnce(r) == item[r].st = "ENQUEUED"
\* The lease column of a RETRY_PENDING row is its backoff.
Claimable(r) == \/ item[r].st = "ENQUEUED"
                \/ item[r].st \in {"RETRY_PENDING", "IN_FLIGHT"} /\ ~item[r].live

\* claim_dispatch_queue; a batch holds fifty records, more than the model has.
ClaimBatch ==
    LET batch == {r \in Record : Claimable(r)}
    IN  /\ phase = "claim"
        /\ item' = [r \in Record |->
             IF r \in batch THEN [st |-> "IN_FLIGHT", n |-> item[r].n + 1, live |-> TRUE]
             ELSE item[r]]
        /\ job' = [r \in Record |-> IF r \in batch THEN Started("dispatch") ELSE NoJob]
        /\ phase' = "dispatch"
        /\ UNCHANGED <<log, mut, fin, todo, faults>>

\* claim_raw_log, then the mutation decides whether there is anything to do.
\* A log left in processing, its own update having failed, may be claimed again
\* once its lease has run out.
Known(state) == CASE state = "SETTLED" -> "processed"
                  [] state = "REJECTED" -> "rejected"
                  [] state = "DEAD" -> "failed"
                  [] OTHER -> "none"
LoadLog(r) ==
    /\ job[r].step = "load"
    /\ \/ /\ log[r] \in {"DEFERRED", "processing"}
          /\ log' = [log EXCEPT ![r] = "processing"]
          /\ job' = [job EXCEPT ![r].then = Known(mut[r]),
                                ![r].step = IF mut[r] = "OPEN" THEN "judge" ELSE "settle"]
       \/ /\ log[r] # "DEFERRED"
          /\ job' = [job EXCEPT ![r].step = "read"]
          /\ UNCHANGED log
    /\ UNCHANGED <<item, mut, fin, phase, todo, faults>>

\* The model answers, or does not; a mutation that was rolled back meanwhile
\* keeps its state, and the verdict that could not be stored is deferred.
Judge(r) ==
    /\ job[r].step = "judge"
    /\ \/ /\ mut' = IF mut[r] = "OPEN" THEN [mut EXCEPT ![r] = "SETTLED"] ELSE mut
          /\ job' = [job EXCEPT ![r].step = "settle",
                       ![r].then = IF mut[r] = "OPEN" THEN "processed" ELSE "DEFERRED"]
          /\ UNCHANGED faults
       \/ /\ Fault
          /\ mut' = IF mut[r] = "OPEN" THEN [mut EXCEPT ![r] = "REJECTED"] ELSE mut
          /\ job' = [job EXCEPT ![r].step = "settle", ![r].then = "rejected"]
       \/ /\ Fault \* Tier3Unavailable
          /\ UNCHANGED mut
          /\ job' = [job EXCEPT ![r].step = "settle", ![r].then = "DEFERRED"]
       \/ /\ Fault \* any other exception: only a dispatch asks for a retry
          /\ UNCHANGED mut
          /\ job' = [job EXCEPT ![r].step = "settle",
               ![r].then = IF job[r].for = "dispatch" THEN "DEFERRED" ELSE "failed"]
    /\ UNCHANGED <<log, item, fin, phase, todo>>

\* transition_claimed_raw_log; a store failure leaves the log in processing.
SettleLog(r) ==
    /\ job[r].step = "settle"
    /\ \/ log' = [log EXCEPT ![r] = job[r].then] /\ UNCHANGED faults
       \/ Fault /\ UNCHANGED log
    /\ job' = [job EXCEPT ![r].step = "read"]
    /\ UNCHANGED <<item, mut, fin, phase, todo>>

BuriedAlone(r) == mut
Buried(r) == IF mut[r] = "OPEN" THEN [mut EXCEPT ![r] = "DEAD"] ELSE mut
\* complete_dispatch_queue, after get_raw_log: nobody else moves the log between.
Complete(r) ==
    /\ job[r] = [step |-> "read", then |-> job[r].then, for |-> "dispatch"]
    /\ job' = [job EXCEPT ![r] = NoJob]
    /\ \/ /\ log[r] \in Settled
          /\ item' = [item EXCEPT ![r].st = "FINALIZED", ![r].live = FALSE]
          /\ UNCHANGED <<log, mut, faults>>
       \/ /\ log[r] \notin Settled /\ item[r].n < MaxAttempts
          /\ item' = [item EXCEPT ![r].st = "RETRY_PENDING", ![r].live = TRUE]
          /\ UNCHANGED <<log, mut, faults>>
       \/ /\ log[r] \notin Settled /\ item[r].n >= MaxAttempts
          /\ item' = [item EXCEPT ![r].st = "DEAD_LETTER", ![r].live = FALSE]
          /\ mut' = Buried(r)
          /\ log' = [log EXCEPT ![r] = IF @ \in {"DEFERRED", "processing"} THEN "failed" ELSE @]
          /\ UNCHANGED faults
       \/ Fault /\ UNCHANGED <<log, item, mut>> \* the error is swallowed by gather
    /\ UNCHANGED <<fin, phase, todo>>

\* The gather has ended.
EndBatch == /\ phase = "dispatch" /\ Idle
            /\ phase' = "sessions"
            /\ UNCHANGED <<log, item, mut, fin, job, todo, faults>>

-----------------------------------------------------------------------------
(* Session finalization                                                    *)

UnfinishedOnlyQueued == {r \in Record : log[r] = "DEFERRED"}
Unfinished == {r \in Record : log[r] \notin Settled \cup {"none"}}

\* request_session_finalization, at the end of a session.
EndSession ==
    /\ fin.st = "none"
    /\ fin' = [fin EXCEPT !.st = IF Unfinished = {} THEN "COMPLETED" ELSE "PENDING"]
    /\ UNCHANGED <<log, item, mut, job, phase, todo, faults>>

FinClaimableUnclaimed == fin.st \in {"PENDING", "RETRY_PENDING"}
FinClaimable == \/ fin.st \in {"PENDING", "RETRY_PENDING"}
                \/ fin.st = "CLAIMED" /\ ~fin.live
\* list_pending_session_finalizations and claim_session_finalization
ClaimSession ==
    /\ phase = "sessions"
    /\ IF FinClaimable
       THEN fin' = [st |-> "CLAIMED", n |-> fin.n + 1, live |-> TRUE] /\ phase' = "list"
       ELSE UNCHANGED fin /\ phase' = "claim"
    /\ UNCHANGED <<log, item, mut, job, todo, faults>>

\* get_pending_session_raw_logs; without a consolidation loop, or when the
\* query fails, the attempt is over.
ListLogs ==
    /\ phase = "list"
    /\ \/ /\ todo' = {r \in Record : log[r] = "DEFERRED"}
          /\ phase' = "finalize"
          /\ UNCHANGED faults
       \/ Fault /\ phase' = "fail" /\ UNCHANGED todo
    /\ UNCHANGED <<log, item, mut, fin, job>>

\* The logs one after the other.
NextLog(r) ==
    /\ phase = "finalize" /\ Idle
    /\ r \in todo
    /\ todo' = todo \ {r}
    /\ job' = [job EXCEPT ![r] = Started("session")]
    /\ UNCHANGED <<log, item, mut, fin, phase, faults>>
LogDone(r) ==
    /\ job[r].step = "read" /\ job[r].for = "session"
    /\ job' = [job EXCEPT ![r] = NoJob]
    /\ UNCHANGED <<log, item, mut, fin, phase, todo, faults>>

\* complete_session_finalization
CompleteSession ==
    /\ phase = "finalize" /\ Idle /\ todo = {}
    /\ IF Unfinished = {}
       THEN /\ fin' = [fin EXCEPT !.st = "COMPLETED", !.live = FALSE]
            /\ phase' = "claim"
       ELSE UNCHANGED fin /\ phase' = "fail"
    /\ UNCHANGED <<log, item, mut, job, todo, faults>>

FailedFin == IF fin.n >= RetryLimit THEN "BLOCKED" ELSE "RETRY_PENDING"
\* fail_session_finalization
FailSession ==
    /\ phase = "fail"
    /\ fin' = [fin EXCEPT !.st = FailedFin, !.live = FALSE]
    /\ phase' = "claim"
    /\ UNCHANGED <<log, item, mut, job, todo, faults>>

-----------------------------------------------------------------------------
(* Clock, crashes and requests                                             *)

\* A backoff or a lease runs out; with one consumer no other waits for it.
Expire(r) == /\ item[r].live
             /\ item' = [item EXCEPT ![r].live = FALSE]
             /\ UNCHANGED <<log, mut, fin, job, phase, todo, faults>>
ExpireSession == /\ fin.live
                 /\ fin' = [fin EXCEPT !.live = FALSE]
                 /\ UNCHANGED <<log, item, mut, job, phase, todo, faults>>

\* The process dies; the next one releases what it had claimed before it
\* consumes: recover_processing_raw_logs and recover_in_flight_projection_and_dispatch.
\* A claimed finalization waits for its lease.
Restart ==
    /\ Fault
    /\ log' = [r \in Record |-> IF log[r] = "processing" THEN "DEFERRED" ELSE log[r]]
    /\ item' = [r \in Record |-> IF item[r].st = "IN_FLIGHT"
                  THEN [item[r] EXCEPT !.st = "RETRY_PENDING", !.live = FALSE] ELSE item[r]]
    /\ job' = [r \in Record |-> NoJob]
    /\ phase' = "claim" /\ todo' = {}
    /\ UNCHANGED <<mut, fin>>

\* A rollback or purge of the memory, at any time.
Retract(r) == /\ mut[r] \in {"OPEN", "SETTLED"}
              /\ Fault
              /\ mut' = [mut EXCEPT ![r] = "DEAD"]
              /\ UNCHANGED <<log, item, fin, job, phase, todo>>

\* replay_pipeline_run of a dead letter: the mutation, the dispatch and the
\* log are due again.
Replay(r) == /\ item[r].st = "DEAD_LETTER" /\ mut[r] = "DEAD"
             /\ mut' = [mut EXCEPT ![r] = "OPEN"]
             /\ item' = [item EXCEPT ![r] = [st |-> "RETRY_PENDING", n |-> 0, live |-> FALSE]]
             /\ log' = [log EXCEPT ![r] = "DEFERRED"]
             /\ UNCHANGED <<fin, job, phase, todo, faults>>

Work(r) == LoadLog(r) \/ Judge(r) \/ SettleLog(r) \/ Complete(r) \/ LogDone(r) \/ NextLog(r)
Loop == ClaimBatch \/ EndBatch \/ ClaimSession \/ ListLogs \/ CompleteSession \/ FailSession
Consume == Loop \/ \E r \in Record : Work(r)
Next == \/ Consume \/ EndSession \/ ExpireSession \/ Restart
        \/ \E r \in Record : Admit(r) \/ Expire(r) \/ Retract(r) \/ Replay(r)

Fairness == /\ WF_vars(Consume)
            /\ \A r \in Record : WF_vars(Expire(r))
            /\ WF_vars(ExpireSession)
Spec == Init /\ [][Next]_vars /\ Fairness

-----------------------------------------------------------------------------
TypeOK == /\ log \in [Record -> LogState]
          /\ item \in [Record -> [st: ItemState, n: Nat, live: BOOLEAN]]
          /\ mut \in [Record -> {"none", "OPEN", "SETTLED", "REJECTED", "DEAD"}]
          /\ fin \in [st: FinState, n: Nat, live: BOOLEAN]

\* The three tables tell one story after any crash, error, rollback or replay: a
\* finalized dispatch has a decided log, a dead letter leaves nothing that still
\* waits, and a decided log has a decided memory.
SettledAgree == \A r \in Record :
    /\ item[r].st = "FINALIZED" => log[r] \in Settled
    /\ item[r].st = "DEAD_LETTER" => log[r] = "failed" /\ mut[r] # "OPEN"
    /\ log[r] \in Settled => mut[r] # "OPEN"

\* An admission never brings the queue over its budget of records and bytes,
\* whatever the consumer does with the rows it counts.
AdmissionKeepsBudget == [][\A r \in Record :
    item[r].st = "none" /\ item'[r].st # "none" =>
        LET waiting == {q \in Record : item'[q].st \notin {"none", "FINALIZED", "DEAD_LETTER"}}
        IN  /\ Cardinality(waiting) <= MaxRecords
            /\ Weight(waiting) <= MaxBytes]_vars

\* A session is reported complete only when every memory it admitted is decided.
CompleteMeansDecided == [][fin.st # "COMPLETED" /\ fin'.st = "COMPLETED" =>
    \A r \in Record : mut'[r] # "OPEN"]_vars

\* Whatever fails, a dispatch is finalized or becomes a dead letter.
Settles(r) == item[r].st = "ENQUEUED" ~> item[r].st \in {"FINALIZED", "DEAD_LETTER"}
DispatchSettles == \A r \in Record : Settles(r)

\* The end of a session is answered: it completes or blocks.
SessionSettles == fin.st = "PENDING" ~> fin.st \in {"COMPLETED", "BLOCKED"}
=============================================================================
