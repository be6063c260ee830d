---------------------- MODULE ProjectionPipelineProofs ----------------------
(***************************************************************************)
(* Two theorems of ProjectionPipeline, for every set of mutations,         *)
(* revisions, documents and consumers and every retry limit.  First type   *)
(* correctness: the lemmas type the helpers, TypeStep takes the actions    *)
(* one by one.  Then NoResurrection, on which CommitProofs builds.         *)
(***************************************************************************)
EXTENDS ProjectionPipeline, FiniteSetTheorems, TLAPS

-----------------------------------------------------------------------------
(* What the two lifecycle tables guarantee whatever the caller asks for     *)

\* The exits of a mutation state are mutation states
\* (_transition_memory_mutation_in_tx).
LEMMA MutationNextType == \A state : MutationNext(state) \subseteq MutationStates
  BY DEF MutationNext, MutationStates, Interruptions, Absent

\* The exits of a run state are run states (_transition_pipeline_run_in_tx).
LEMMA RunNextType == \A state : RunNext(state) \subseteq RunStates
  BY DEF RunNext, RunStates, RunInterruptions, Absent

\* Recomputing a run from any children leaves a run state
\* (_recompute_pipeline_state_in_tx).
LEMMA RecomputeType ==
  ASSUME NEW run \in RunStates, NEW children
  PROVE  Recompute(run, children) \in RunStates
<1>1. AggregateState(children) \in RunStates
  BY DEF AggregateState, RunStates
<1>2. "RUNNING" \in RunStates
  BY DEF RunStates
<1> QED
  BY <1>1, <1>2 DEF Recompute, RunStep

\* Every lifecycle change of a ledger row leaves a ledger row.
LEMMA MoveType ==
  ASSUME NEW row \in LedgerRow, NEW to
  PROVE  /\ MoveRun(row, to) \in LedgerRow
         /\ Refreshed(row) \in LedgerRow
         /\ MoveMutation(row, to) \in LedgerRow
         /\ MoveBoth(row, to) \in LedgerRow
<1>1. \A x \in LedgerRow : MoveRun(x, to) \in LedgerRow
  BY RunNextType DEF LedgerRow, MoveRun, RunStep
<1>2. Refreshed(row) \in LedgerRow
  BY RecomputeType DEF LedgerRow, Refreshed
<1>3. \A x \in LedgerRow : MoveMutation(x, to) \in LedgerRow
  BY RecomputeType, MutationNextType DEF LedgerRow, MoveMutation
<1> QED
  BY <1>1, <1>2, <1>3 DEF MoveBoth

\* A terminal mutation moves only to terminal states or to BLOCKED, and a
\* blocked one leaves only to retry, to its rollback or to its purge.
LEMMA TerminalStays ==
  /\ \A state \in Terminal : MutationNext(state) \subseteq Terminal \cup {"BLOCKED"}
  /\ MutationNext("BLOCKED") = {"RETRY_PENDING", "ROLLING_BACK", "PURGED"}
  /\ MutationNext(Absent) = {}
  BY DEF Terminal, MutationNext, Interruptions, Absent

\* No transition leads back to an unadmitted mutation.
LEMMA AbsentIsInitial == \A state : Absent \notin MutationNext(state)
  BY DEF MutationNext, Interruptions, Absent

\* Recomputation never starts or ends a rollback and never blocks a run: only
\* an explicit transition does.
LEMMA RecomputeKeepsRollback ==
  ASSUME NEW run \in RunStates, NEW children
  PROVE  \A to \in {"ROLLING_BACK", "ROLLED_BACK", "BLOCKED"} :
            Recompute(run, children) = to => run = to
  BY DEF Recompute, RunStep, AggregateState, RunStates

-----------------------------------------------------------------------------
(* Types of the helpers                                                    *)

\* A walk ends at a state of the projection order
\* (_advance_mutation_projection_state).
LEMMA WalkType ==
  ASSUME NEW state \in DOMAIN Reached, NEW done
  PROVE  Walk(state, done) \in DOMAIN Reached
<1> DEFINE path == {j \in Ahead(state) : \A i \in Ahead(state) : i <= j => Met(done)[i]}
<1>1. Reached[state] \in 0 .. 4
  BY DEF Reached
<1>2. "PENDING" \in DOMAIN Reached
  BY DEF Reached
<1>3. CASE path = {}
  BY <1>2, <1>3 DEF Walk
<1>4. CASE path # {}
  <2>1. IsFiniteSet(Ahead(state)) /\ Cardinality(Ahead(state)) = 4 - Reached[state]
    BY <1>1, FS_Interval DEF Ahead
  <2>2. /\ IsFiniteSet(path)
        /\ Cardinality(path) <= Cardinality(Ahead(state))
    BY <2>1, FS_Subset
  <2>3. Cardinality(path) \in Nat /\ Cardinality(path) # 0
    BY <2>2, <1>4, FS_CardinalityType, FS_EmptySet
  <2>4. Reached[state] + Cardinality(path) \in 1 .. 4
    BY <1>1, <2>1, <2>2, <2>3
  <2>5. \A i \in 1 .. 4 : Milestone[i] \in DOMAIN Reached
    BY DEF Milestone, Reached
  <2> QED
    BY <1>4, <2>4, <2>5 DEF Walk
<1> QED
  BY <1>3, <1>4

\* Completing a lane leaves a ledger row.
LEMMA AdvanceType ==
  ASSUME NEW row \in LedgerRow, NEW done
  PROVE  Advance(row, done) \in LedgerRow
<1>1. CASE row.mut \in DOMAIN Reached
  <2>1. DOMAIN Reached \subseteq MutationStates
    BY DEF Reached, MutationStates
  <2> QED
    BY <1>1, <2>1, WalkType, RecomputeType DEF Advance, LedgerRow
<1>2. CASE row.mut \notin DOMAIN Reached
  BY <1>2 DEF Advance
<1> QED
  BY <1>1, <1>2

-----------------------------------------------------------------------------
(* The type invariant                                                      *)

\* The work items and revisions of admitted mutations are in their types.
LEMMA ItemType == \A m \in Mutation : \A s \in Store \cup {"COLD"} : <<m, s>> \in Item
  BY DEF Item

\* Every mutation belongs to a revision.
LEMMA RevisionType == \A m \in Mutation : RevisionOf[m] \in Revision
  BY PipelineAssumption

\* Every way a consumer's local data changes keeps its shape.
LEMMA WorkerType ==
  ASSUME TypeOK, NEW w \in Worker
  PROVE  /\ Idle \in WorkerRow
         /\ \A phase \in Phases : Goto(w, phase) => worker' \in [Worker -> WorkerRow]
         /\ \A phase \in Phases, item \in Item :
               Begin(w, phase, item) => worker' \in [Worker -> WorkerRow]
         /\ Done(w) => worker' \in [Worker -> WorkerRow]
         /\ worker[w].cur \in Item /\ Applied(w) => worker' \in [Worker -> WorkerRow]
<1>1. worker \in [Worker -> WorkerRow]
  BY DEF TypeOK
<1>2. \A row \in WorkerRow : /\ row.pc \in Phases
                             /\ row.cur \in Item \cup {None}
                             /\ row.todo \in SUBSET Item
                             /\ row.ok \in SUBSET Item
                             /\ row.bad \in SUBSET Store
  BY DEF WorkerRow
<1>3. Idle \in WorkerRow
  BY DEF Idle, WorkerRow, Phases
<1>4. ASSUME NEW phase \in Phases, Goto(w, phase)
      PROVE  worker' \in [Worker -> WorkerRow]
  BY <1>1, <1>4 DEF Goto, WorkerRow
<1>5. ASSUME NEW phase \in Phases, NEW item \in Item, Begin(w, phase, item)
      PROVE  worker' \in [Worker -> WorkerRow]
  BY ZenonT(60), <1>1, <1>5 DEF Begin, WorkerRow
<1>6. "next" \in Phases
  BY DEF Phases
<1>7. ASSUME Done(w) PROVE worker' \in [Worker -> WorkerRow]
  BY ZenonT(60), <1>1, <1>6, <1>7 DEF Done, WorkerRow
<1>8. ASSUME worker[w].cur \in Item, Applied(w) PROVE worker' \in [Worker -> WorkerRow]
  BY ZenonT(60), <1>1, <1>6, <1>8 DEF Applied, WorkerRow
<1> QED
  BY <1>3, <1>4, <1>5, <1>7, <1>8

\* The updates of several fields at once.
LEMMA WorkerRowType ==
  ASSUME TypeOK, NEW w \in Worker, NEW phase \in Phases
  PROVE  /\ \A bad \in SUBSET Store :
               [worker EXCEPT ![w].bad = bad, ![w].pc = phase] \in [Worker -> WorkerRow]
         /\ \A bad \in SUBSET Store :
               [worker EXCEPT ![w].pc = phase, ![w].bad = bad] \in [Worker -> WorkerRow]
         /\ \A todo \in SUBSET Item :
               [worker EXCEPT ![w].pc = phase, ![w].todo = todo] \in [Worker -> WorkerRow]
         /\ \A row \in WorkerRow, todo \in SUBSET Item :
               [row EXCEPT !.pc = phase, !.todo = todo] \in WorkerRow
         /\ \A row \in WorkerRow :
               /\ [row EXCEPT !.pc = phase] \in WorkerRow
               /\ [row EXCEPT !.pc = phase, !.cur = None] \in WorkerRow
               /\ [worker EXCEPT ![w] = row] \in [Worker -> WorkerRow]
         /\ worker[w] \in WorkerRow
<1>1. worker \in [Worker -> WorkerRow]
  BY DEF TypeOK
<1> QED
  BY <1>1 DEF WorkerRow

\* Canonical assertions as the pipeline writes them.
LEMMA FactType ==
  ASSUME TypeOK
  PROVE  /\ \A m \in Mutation : InsertFact(m) \in [Revision -> FactRow]
         /\ \A r \in Revision : [fact EXCEPT ![r] = [st |-> "NONE", by |-> None]]
                                  \in [Revision -> FactRow]
<1>1. fact \in [Revision -> FactRow]
  BY DEF TypeOK
<1>2. \A m \in Mutation : RevisionOf[m] \in Revision
  BY PipelineAssumption
<1> QED
  BY <1>1, <1>2 DEF InsertFact, FactRow, FactStates

\* Queue rows as claims, completions and requeues build them.
LEMMA QueueType ==
  /\ 0 \in Attempts
  /\ \A states, state, n : state \in states /\ n \in Attempts
        => Row(state, n) \in QueueRow(states)
  /\ \A states : \A row \in QueueRow(states) :
        /\ row.n \in Attempts
        /\ "IN_FLIGHT" \in states
              => \A w \in Worker : Claim(row, w) \in QueueRow(states)
  /\ {"NONE", "BLOCKED_VALIDATION", "PENDING", "IN_FLIGHT", "RETRY_PENDING",
      "COMPLETED", "SKIPPED", "CANCELLED", "DEAD_LETTER"} \subseteq LaneStates
  /\ {"NONE", "PENDING", "IN_FLIGHT", "RETRY_PENDING", "BLOCKED",
      "COMPLETED"} \subseteq CleanupStates
<1>1. 0 \in Attempts
  BY PipelineAssumption DEF Attempts
<1>2. \A n \in Attempts : OneMore(n) \in Attempts
  BY PipelineAssumption DEF Attempts, OneMore
<1>3. \A states, state, n : state \in states /\ n \in Attempts
        => Row(state, n) \in QueueRow(states)
  BY DEF Row, QueueRow
<1>4. \A states : \A row \in QueueRow(states) :
        /\ row.n \in Attempts
        /\ "IN_FLIGHT" \in states
              => \A w \in Worker : Claim(row, w) \in QueueRow(states)
  BY <1>2 DEF Claim, QueueRow
<1> QED
  BY <1>1, <1>3, <1>4 DEF LaneStates, CleanupStates

\* The ledger keeps its type when the rows of some mutations move.
LEMMA LedgerType ==
  ASSUME TypeOK
  PROVE  /\ \A m \in Mutation, row \in LedgerRow :
               [ledger EXCEPT ![m] = row] \in [Mutation -> LedgerRow]
         /\ \A m \in Mutation : \A to : Judged(m, to) \in [Mutation -> LedgerRow]
<1>1. ledger \in [Mutation -> LedgerRow]
  BY DEF TypeOK
<1> QED
  BY <1>1, MoveType DEF Judged

\* Lane states spread over a mutation's rows.
LEMMA LanesType ==
  ASSUME TypeOK, NEW m \in Mutation, NEW from, NEW to \in LaneStates
  PROVE  [lane EXCEPT ![m] = Lanes(m, from, to)]
            \in [Mutation -> [Store -> QueueRow(LaneStates)]]
<1>1. lane \in [Mutation -> [Store -> QueueRow(LaneStates)]]
  BY DEF TypeOK
<1>2. \A s \in Store : Row(to, lane[m][s].n) \in QueueRow(LaneStates)
  BY <1>1, QueueType
<1>3. Lanes(m, from, to) \in [Store -> QueueRow(LaneStates)]
  BY <1>1, <1>2 DEF Lanes
<1> QED
  BY <1>1, <1>3

\* Either way a compensation ends (_finalize_terminal_projection_compensation,
\* _enqueue_unowned_projection_cleanup).
LEMMA CompensationType ==
  ASSUME TypeOK, NEW m \in Mutation, NEW stores,
         FinalizeCompensation(m) \/ EnqueueUnowned(m, stores)
  PROVE  /\ ledger' \in [Mutation -> LedgerRow]
         /\ registry' \in [Revision -> [Store -> RegistryStates]]
         /\ cleanup' \in [Mutation -> [Store -> QueueRow(CleanupStates)]]
<1>1. /\ ledger \in [Mutation -> LedgerRow]
      /\ registry \in [Revision -> [Store -> RegistryStates]]
      /\ cleanup \in [Mutation -> [Store -> QueueRow(CleanupStates)]]
  BY DEF TypeOK
<1>2. CASE FinalizeCompensation(m)
  BY <1>1, <1>2, MoveType DEF FinalizeCompensation
<1>3. CASE EnqueueUnowned(m, stores)
  <2>1. Row("PENDING", 0) \in QueueRow(CleanupStates)
    BY QueueType
  <2>2. Reopened(ledger[m]) \in LedgerRow
    BY <1>1 DEF Reopened, LedgerRow, MutationStates, RunStates
  <2> QED
    BY <1>1, <1>3, <2>1, <2>2 DEF EnqueueUnowned, RegistryStates
<1> QED
  BY <1>2, <1>3

\* Activation and restoration keep revisions and assertions in their types.
LEMMA HeadType ==
  ASSUME TypeOK
  PROVE  /\ \A r \in Revision : /\ ActivatedRevisions(r) \in [Revision -> RevisionStates]
                                /\ ActivatedFacts(r) \in [Revision -> FactRow]
         /\ \A m \in Mutation :
               /\ RestoredRevisions(m) \in [Revision -> RevisionStates]
               /\ \A facts \in [Revision -> FactRow] :
                     RestoredFacts(m, facts) \in [Revision -> FactRow]
<1>1. revision \in [Revision -> RevisionStates] /\ fact \in [Revision -> FactRow]
  BY DEF TypeOK
<1>2. {"ACTIVE", "SUPERSEDED", "ROLLED_BACK"} \subseteq RevisionStates
  BY DEF RevisionStates
<1>3. \A row \in FactRow, state \in FactStates : [row EXCEPT !.st = state] \in FactRow
  BY DEF FactRow
<1>4. {"ACTIVE", "SUPERSEDED"} \subseteq FactStates
  BY DEF FactStates
<1>5. \A r \in Revision : ActivatedRevisions(r) \in [Revision -> RevisionStates]
  BY <1>1, <1>2 DEF ActivatedRevisions
<1>6. \A r \in Revision : ActivatedFacts(r) \in [Revision -> FactRow]
  BY <1>1, <1>3, <1>4 DEF ActivatedFacts
<1>7. \A m \in Mutation : RestoredRevisions(m) \in [Revision -> RevisionStates]
  BY <1>1, <1>2 DEF RestoredRevisions
<1>8. ASSUME NEW m \in Mutation, NEW facts \in [Revision -> FactRow]
      PROVE  RestoredFacts(m, facts) \in [Revision -> FactRow]
  BY <1>3, <1>4 DEF RestoredFacts
<1> QED
  BY <1>5, <1>6, <1>7, <1>8

\* request_pipeline_rollback, from the endpoint and from a purge alike.
LEMMA RollBackType ==
  ASSUME TypeOK, NEW m \in Mutation, RollBack(m), purging' \subseteq Mutation
  PROVE  TypeOK'
<1>1. /\ ledger \in [Mutation -> LedgerRow]
      /\ lane \in [Mutation -> [Store -> QueueRow(LaneStates)]]
      /\ fact \in [Revision -> FactRow]
      /\ registry \in [Revision -> [Store -> RegistryStates]]
      /\ owner \in [Mutation -> [Store -> OwnerStates]]
      /\ cleanup \in [Mutation -> [Store -> QueueRow(CleanupStates)]]
  BY DEF TypeOK
<1>2. owner' \in [Mutation -> [Store -> OwnerStates]]
  BY <1>1 DEF RollBack, OwnerStates
<1>3. registry' \in [Revision -> [Store -> RegistryStates]]
  BY <1>1 DEF RollBack, RegistryStates
<1>4. cleanup' \in [Mutation -> [Store -> QueueRow(CleanupStates)]]
  BY <1>1, QueueType DEF RollBack
<1>5. revision' \in [Revision -> RevisionStates]
  BY HeadType DEF RollBack
<1>6. fact' \in [Revision -> FactRow]
  <2>1. [fact EXCEPT ![RevisionOf[m]].st = "RETRACTED"] \in [Revision -> FactRow]
    BY <1>1 DEF FactRow, FactStates
  <2> QED
    BY <1>1, <2>1, HeadType DEF RollBack
<1>7. lane' \in [Mutation -> [Store -> QueueRow(LaneStates)]]
  BY <1>1, QueueType DEF RollBack, Cancelled
<1>8. ledger' \in [Mutation -> LedgerRow]
  <2>1. MoveBoth(ledger[m], "ROLLING_BACK") \in LedgerRow
    BY <1>1, MoveType
  <2>2. MoveBoth(MoveBoth(ledger[m], "ROLLING_BACK"), "ROLLED_BACK") \in LedgerRow
    BY <2>1, MoveType
  <2> QED
    BY <1>1, <2>1, <2>2 DEF RollBack
<1>9. UNCHANGED <<cold, document, physical, profile, worker>>
  BY DEF RollBack
<1> QED
  BY <1>2, <1>3, <1>4, <1>5, <1>6, <1>7, <1>8, <1>9 DEF TypeOK

\* What a completion leaves the consumer to do.
LEMMA AfterCompletionType ==
  ASSUME NEW local \in WorkerRow, NEW item \in Item, NEW stale, NEW raises
  PROVE  AfterCompletion(local, item, stale, raises) \in WorkerRow
<1> DEFINE bad == {x \in Optional : owner[item[1]][x] # "NONE"}
           ok == local.ok \ {item}
<1>1. {"idle", "fence", "failSoft", "next"} \subseteq Phases
  BY DEF Phases
<1>2. bad \subseteq Store
  BY DEF Optional, Store
<1>3. [local EXCEPT !.pc = "fence", !.cur = item, !.ok = ok, !.bad = bad] \in WorkerRow
  BY <1>1, <1>2 DEF WorkerRow
<1>4. [local EXCEPT !.pc = "next", !.cur = None, !.ok = ok] \in WorkerRow
  BY <1>1 DEF WorkerRow
<1>5. [local EXCEPT !.pc = "failSoft"] \in WorkerRow
  BY <1>1 DEF WorkerRow
<1>6. Idle \in WorkerRow
  BY <1>1 DEF Idle, WorkerRow
<1> QED
  BY <1>3, <1>4, <1>5, <1>6 DEF AfterCompletion

\* complete_projection_outbox, for a lane that is done or skipped.
LEMMA CompleteLaneType ==
  ASSUME TypeOK, NEW w \in Worker, NEW m \in Mutation, NEW s \in Store,
         NEW outcome \in {"SKIPPED", "COMPLETED"}, CompleteLane(w, m, s, outcome)
  PROVE  TypeOK'
<1>1. /\ ledger \in [Mutation -> LedgerRow]
      /\ lane \in [Mutation -> [Store -> QueueRow(LaneStates)]]
      /\ revision \in [Revision -> RevisionStates]
      /\ fact \in [Revision -> FactRow]
      /\ worker \in [Worker -> WorkerRow]
  BY DEF TypeOK
<1> DEFINE rows == [lane[m] EXCEPT ![s] = Row(outcome, @.n)]
           row == Advance(ledger[m], Finished(rows))
<1>2. ledger' \in [Mutation -> LedgerRow]
  <2>1. row \in LedgerRow
    BY <1>1, AdvanceType
  <2>2. ledger' = ledger \/ ledger' = [ledger EXCEPT ![m] = row]
    BY DEF CompleteLane
  <2> QED
    BY <1>1, <2>1, <2>2
<1>3. lane' \in [Mutation -> [Store -> QueueRow(LaneStates)]]
  <2>1. rows \in [Store -> QueueRow(LaneStates)]
    BY <1>1, QueueType
  <2>2. Cancelled \in QueueRow(LaneStates)
    BY QueueType DEF Cancelled
  <2>3. \/ lane' = lane
        \/ lane' = [lane EXCEPT ![m] = rows]
        \/ lane' = [lane EXCEPT ![m][s] = Cancelled]
    BY DEF CompleteLane
  <2>4. [lane EXCEPT ![m] = rows] \in [Mutation -> [Store -> QueueRow(LaneStates)]]
    BY <1>1, <2>1
  <2>5. [lane EXCEPT ![m][s] = Cancelled] \in [Mutation -> [Store -> QueueRow(LaneStates)]]
    BY <1>1, <2>2
  <2> QED
    BY <1>1, <2>3, <2>4, <2>5
<1>4. revision' \in [Revision -> RevisionStates]
  <2>1. revision' = revision \/ revision' = ActivatedRevisions(RevisionOf[m])
    BY DEF CompleteLane
  <2> QED
    BY <1>1, <2>1, HeadType, RevisionType
<1>5. fact' \in [Revision -> FactRow]
  <2>1. fact' = fact \/ fact' = ActivatedFacts(RevisionOf[m])
    BY DEF CompleteLane
  <2> QED
    BY <1>1, <2>1, HeadType, RevisionType
<1>6. worker' \in [Worker -> WorkerRow]
  <2>1. \A stale, raises : AfterCompletion(worker[w], <<m, s>>, stale, raises) \in WorkerRow
    BY <1>1, AfterCompletionType, ItemType
  <2>2. \E stale, raises : worker' = [worker EXCEPT ![w] =
                               AfterCompletion(@, <<m, s>>, stale, raises)]
    BY DEF CompleteLane
  <2> QED
    BY SMTT(60), <1>1, <2>1, <2>2
<1>7. UNCHANGED <<cold, document, artifacts, cleanup, purging, profile>>
  BY DEF CompleteLane
<1> QED
  BY <1>2, <1>3, <1>4, <1>5, <1>6, <1>7 DEF TypeOK, artifacts


\* Every step of the pipeline keeps the type invariant.
LEMMA TypeStep == TypeOK /\ [Next]_vars => TypeOK'
<1> SUFFICES ASSUME TypeOK, [Next]_vars PROVE TypeOK'
  OBVIOUS
<1>ledger. ledger \in [Mutation -> LedgerRow]
  BY DEF TypeOK
<1>lane. lane \in [Mutation -> [Store -> QueueRow(LaneStates)]]
  BY DEF TypeOK
<1>cold. cold \in [Mutation -> {"NONE", "QUEUED", "DONE", "DEAD"}]
  BY DEF TypeOK
<1>revision. revision \in [Revision -> RevisionStates]
  BY DEF TypeOK
<1>document. document \in [Document -> {"ACTIVE", "PURGED"}]
  BY DEF TypeOK
<1>fact. fact \in [Revision -> FactRow]
  BY DEF TypeOK
<1>physical. physical \in [Optional -> SUBSET Revision]
  BY DEF TypeOK
<1>registry. registry \in [Revision -> [Store -> RegistryStates]]
  BY DEF TypeOK
<1>owner. owner \in [Mutation -> [Store -> OwnerStates]]
  BY DEF TypeOK
<1>cleanup. cleanup \in [Mutation -> [Store -> QueueRow(CleanupStates)]]
  BY DEF TypeOK
<1>purging. purging \in SUBSET Mutation
  BY DEF TypeOK
<1>profile. profile \in SUBSET Optional
  BY DEF TypeOK
<1>worker. worker \in [Worker -> WorkerRow]
  BY DEF TypeOK
<1>Admit. ASSUME NEW m \in Mutation,
             Admit(m)
      PROVE  TypeOK'
  <2>ledger. ledger' \in [Mutation -> LedgerRow]
    BY <1>Admit, LedgerType DEF Admit, LedgerRow, MutationStates, RunStates
  <2>lane. lane' \in [Mutation -> [Store -> QueueRow(LaneStates)]]
    BY <1>Admit, <1>lane, QueueType DEF Admit
  <2>cold. cold' \in [Mutation -> {"NONE", "QUEUED", "DONE", "DEAD"}]
    BY <1>Admit, <1>cold DEF Admit
  <2>revision. revision' \in [Revision -> RevisionStates]
    <3>1. "PENDING" \in RevisionStates
      BY DEF RevisionStates
    <3> QED
      BY <1>Admit, <1>revision, <3>1, HeadType, RevisionType DEF Admit
  <2>fact. fact' \in [Revision -> FactRow]
    BY <1>Admit, <1>fact, HeadType, RevisionType DEF Admit
  <2>same. UNCHANGED <<document, physical, registry, owner, cleanup, purging, profile,
                       worker>>
    BY <1>Admit DEF Admit, artifacts
  <2> QED
    BY <2>ledger, <2>lane, <2>cold, <2>revision, <2>fact, <2>same DEF TypeOK
<1>ColdLoad. ASSUME NEW w \in Worker, NEW m \in Mutation,
             ColdLoad(w, m)
      PROVE  TypeOK'
  <2>worker. worker' \in [Worker -> WorkerRow]
    BY <1>ColdLoad, WorkerType, ItemType DEF ColdLoad, Phases
  <2>same. UNCHANGED <<ledger, lane, cold, revision, document, fact, physical,
                       registry, owner, cleanup, purging, profile>>
    BY <1>ColdLoad DEF ColdLoad, catalog, artifacts
  <2> QED
    BY <2>worker, <2>same DEF TypeOK
<1>ColdExtract. ASSUME NEW w \in Worker, NEW m \in Mutation,
             ColdExtract(w, m)
      PROVE  TypeOK'
  <2>ledger. ledger' \in [Mutation -> LedgerRow]
    <3>1. \/ ledger' = ledger \/ ledger' = Judged(m, "RETRY_PENDING")
           \/ ledger' = [ledger EXCEPT ![m] = MoveMutation(@, "EXTRACTED")]
      BY <1>ColdExtract DEF ColdExtract
    <3> QED
      BY <1>ledger, <3>1, LedgerType, MoveType
  <2>worker. worker' \in [Worker -> WorkerRow]
    BY <1>ColdExtract, WorkerType DEF ColdExtract, Phases
  <2>same. UNCHANGED <<lane, cold, revision, document, fact, physical, registry,
                       owner, cleanup, purging, profile>>
    BY <1>ColdExtract DEF ColdExtract, catalog, artifacts
  <2> QED
    BY <2>ledger, <2>worker, <2>same DEF TypeOK
<1>ColdJudge. ASSUME NEW w \in Worker, NEW m \in Mutation,
             ColdJudge(w, m)
      PROVE  TypeOK'
  <2>ledger. ledger' \in [Mutation -> LedgerRow]
    <3>1. ledger' = ledger \/ \E to : ledger' = Judged(m, to)
      BY <1>ColdJudge DEF ColdJudge
    <3> QED
      BY <1>ledger, <3>1, LedgerType
  <2>lane. lane' \in [Mutation -> [Store -> QueueRow(LaneStates)]]
    <3>1. \/ lane' = lane
         \/ \E from : \E to \in {"PENDING", "CANCELLED"} :
               lane' = [lane EXCEPT ![m] = Lanes(m, from, to)]
      BY <1>ColdJudge DEF ColdJudge
    <3>2. {"PENDING", "CANCELLED"} \subseteq LaneStates
      BY DEF LaneStates
    <3> QED
      BY <1>lane, <3>1, <3>2, LanesType
  <2>worker. worker' \in [Worker -> WorkerRow]
    BY <1>ColdJudge, WorkerType DEF ColdJudge, Phases
  <2>same. UNCHANGED <<cold, revision, document, fact, physical, registry, owner,
                       cleanup, purging, profile>>
    BY <1>ColdJudge DEF ColdJudge, catalog, artifacts
  <2> QED
    BY <2>ledger, <2>lane, <2>worker, <2>same DEF TypeOK
<1>ColdVerified. ASSUME NEW w \in Worker, NEW m \in Mutation,
             ColdVerified(w, m)
      PROVE  TypeOK'
  <2>cold. cold' \in [Mutation -> {"NONE", "QUEUED", "DONE", "DEAD"}]
    BY <1>ColdVerified, <1>cold DEF ColdVerified
  <2>worker. worker' \in [Worker -> WorkerRow]
    BY <1>ColdVerified, <1>worker, WorkerType DEF ColdVerified
  <2>same. UNCHANGED <<ledger, lane, revision, document, fact, physical, registry,
                       owner, cleanup, purging, profile>>
    BY <1>ColdVerified DEF ColdVerified, catalog, artifacts
  <2> QED
    BY <2>cold, <2>worker, <2>same DEF TypeOK
<1>ColdUnverified. ASSUME NEW w \in Worker, NEW m \in Mutation,
             ColdUnverified(w, m)
      PROVE  TypeOK'
  <2>ledger. ledger' \in [Mutation -> LedgerRow]
    BY <1>ColdUnverified, <1>ledger, MoveType DEF ColdUnverified
  <2>cold. cold' \in [Mutation -> {"NONE", "QUEUED", "DONE", "DEAD"}]
    BY <1>ColdUnverified, <1>cold DEF ColdUnverified
  <2>worker. worker' \in [Worker -> WorkerRow]
    BY <1>ColdUnverified, <1>worker, WorkerType DEF ColdUnverified
  <2>same. UNCHANGED <<lane, revision, document, fact, physical, registry, owner,
                       cleanup, purging, profile>>
    BY <1>ColdUnverified DEF ColdUnverified, catalog, artifacts
  <2> QED
    BY <2>ledger, <2>cold, <2>worker, <2>same DEF TypeOK
<1>ClaimLanes. ASSUME NEW w \in Worker,
             ClaimLanes(w)
      PROVE  TypeOK'
  <2>lane. lane' \in [Mutation -> [Store -> QueueRow(LaneStates)]]
    BY <1>ClaimLanes, <1>lane, QueueType DEF ClaimLanes
  <2>worker. worker' \in [Worker -> WorkerRow]
    <3>1. "next" \in Phases
      BY DEF Phases
    <3>2. PICK b \in SUBSET (Mutation \X Store) :
            worker' = [worker EXCEPT ![w].pc = "next", ![w].todo = b]
      BY <1>ClaimLanes DEF ClaimLanes
    <3>3. b \in SUBSET Item
      BY DEF Item
    <3> QED
      BY <1>worker, <3>1, <3>2, <3>3, WorkerRowType
  <2>same. UNCHANGED <<ledger, cold, revision, document, fact, physical, registry,
                       owner, cleanup, purging, profile>>
    BY <1>ClaimLanes DEF ClaimLanes, catalog, artifacts
  <2> QED
    BY <2>lane, <2>worker, <2>same DEF TypeOK
<1>StartLane. ASSUME NEW w \in Worker, NEW m \in Mutation, NEW s \in Store,
             StartLane(w, m, s)
      PROVE  TypeOK'
  <2>worker. worker' \in [Worker -> WorkerRow]
    BY <1>StartLane, WorkerType, ItemType DEF StartLane, Phases
  <2>same. UNCHANGED <<ledger, lane, cold, revision, document, fact, physical,
                       registry, owner, cleanup, purging, profile>>
    BY <1>StartLane DEF StartLane, catalog, artifacts
  <2> QED
    BY <2>worker, <2>same DEF TypeOK
<1>ListAssertions. ASSUME NEW w \in Worker, NEW m \in Mutation, NEW s \in Store,
             ListAssertions(w, m, s)
      PROVE  TypeOK'
  <2>worker. worker' \in [Worker -> WorkerRow]
    <3>1. worker[w].cur = <<m, s>>
      BY <1>ListAssertions DEF ListAssertions, At
    <3>2. Applied(w) \/ \E phase \in {"check", "write"} : Goto(w, phase)
      BY <1>ListAssertions DEF ListAssertions
    <3>3. {"check", "write"} \subseteq Phases
      BY DEF Phases
    <3> QED
      BY <3>1, <3>2, <3>3, WorkerType, ItemType
  <2>same. UNCHANGED <<ledger, lane, cold, revision, document, fact, physical,
                       registry, owner, cleanup, purging, profile>>
    BY <1>ListAssertions DEF ListAssertions, catalog, artifacts
  <2> QED
    BY <2>worker, <2>same DEF TypeOK
<1>CheckFence. ASSUME NEW w \in Worker, NEW m \in Mutation, NEW s \in Store,
             CheckFence(w, m, s)
      PROVE  TypeOK'
  <2>worker. worker' \in [Worker -> WorkerRow]
    BY <1>CheckFence, WorkerType DEF CheckFence, Phases
  <2>same. UNCHANGED <<ledger, lane, cold, revision, document, fact, physical,
                       registry, owner, cleanup, purging, profile>>
    BY <1>CheckFence DEF CheckFence, catalog, artifacts
  <2> QED
    BY <2>worker, <2>same DEF TypeOK
<1>WriteArtifact. ASSUME NEW w \in Worker, NEW m \in Mutation, NEW s \in Store,
             WriteArtifact(w, m, s)
      PROVE  TypeOK'
  <2>fact. fact' \in [Revision -> FactRow]
    BY <1>WriteArtifact, <1>fact, FactType DEF WriteArtifact
  <2>physical. physical' \in [Optional -> SUBSET Revision]
    <3>1. \/ physical' = physical
           \/ physical' = [physical EXCEPT !["VECTOR"] = @ \cup {RevisionOf[m]}]
      BY <1>WriteArtifact DEF WriteArtifact
    <3> QED
      BY <1>physical, <3>1, RevisionType
  <2>worker. worker' \in [Worker -> WorkerRow]
    BY <1>WriteArtifact, WorkerType DEF WriteArtifact, Phases
  <2>same. UNCHANGED <<ledger, lane, cold, revision, document, registry, owner,
                       cleanup, purging, profile>>
    BY <1>WriteArtifact DEF WriteArtifact
  <2> QED
    BY <2>fact, <2>physical, <2>worker, <2>same DEF TypeOK
<1>RecordArtifact. ASSUME NEW w \in Worker, NEW m \in Mutation, NEW s \in Store,
             RecordArtifact(w, m, s)
      PROVE  TypeOK'
  <2>registry. registry' \in [Revision -> [Store -> RegistryStates]]
    <3>1. \/ registry' = registry
           \/ registry' = [registry EXCEPT ![RevisionOf[m]][s] =
                                 IF @ = "NONE" THEN "ACTIVE" ELSE @]
      BY <1>RecordArtifact DEF RecordArtifact
    <3> QED
      BY <1>registry, <3>1, RevisionType DEF RegistryStates
  <2>owner. owner' \in [Mutation -> [Store -> OwnerStates]]
    <3>1. \/ owner' = owner
           \/ owner' = [owner EXCEPT ![m][s] = IF @ = "NONE" THEN "ACTIVE" ELSE @]
      BY <1>RecordArtifact DEF RecordArtifact
    <3> QED
      BY <1>owner, <3>1 DEF OwnerStates
  <2>worker. worker' \in [Worker -> WorkerRow]
    <3>1. worker[w].cur = <<m, s>>
      BY <1>RecordArtifact DEF RecordArtifact, At
    <3>2. Applied(w) \/ \E phase \in Phases : Goto(w, phase)
      BY <1>RecordArtifact DEF RecordArtifact, Phases
    <3> QED
      BY <3>1, <3>2, WorkerType, ItemType
  <2>same. UNCHANGED <<ledger, lane, cold, revision, document, fact, physical,
                       cleanup, purging, profile>>
    BY <1>RecordArtifact DEF RecordArtifact, catalog
  <2> QED
    BY <2>registry, <2>owner, <2>worker, <2>same DEF TypeOK
<1>CommitGraph. ASSUME NEW w \in Worker, NEW m \in Mutation,
             CommitGraph(w, m)
      PROVE  TypeOK'
  <2>physical. physical' \in [Optional -> SUBSET Revision]
    <3>1. \/ physical' = physical
           \/ physical' = [physical EXCEPT !["GRAPH"] = @ \cup {RevisionOf[m]}]
      BY <1>CommitGraph DEF CommitGraph
    <3> QED
      BY <1>physical, <3>1, RevisionType
  <2>worker. worker' \in [Worker -> WorkerRow]
    <3>1. worker[w].cur = <<m, "GRAPH">> /\ "GRAPH" \in Store
      BY <1>CommitGraph DEF CommitGraph, At, Store
    <3>2. Applied(w) \/ Goto(w, "failSoft")
      BY <1>CommitGraph DEF CommitGraph
    <3>3. "failSoft" \in Phases
      BY DEF Phases
    <3> QED
      BY <3>1, <3>2, <3>3, WorkerType, ItemType
  <2>same. UNCHANGED <<ledger, lane, cold, revision, document, fact, registry, owner,
                       cleanup, purging, profile>>
    BY <1>CommitGraph DEF CommitGraph, catalog
  <2> QED
    BY <2>physical, <2>worker, <2>same DEF TypeOK
<1>UndoWrite. ASSUME NEW w \in Worker, NEW m \in Mutation, NEW s \in Store,
             UndoWrite(w, m, s)
      PROVE  TypeOK'
  <2>fact. fact' \in [Revision -> FactRow]
    BY <1>UndoWrite, <1>fact, FactType, RevisionType DEF UndoWrite
  <2>physical. physical' \in [Optional -> SUBSET Revision]
    BY <1>UndoWrite, <1>physical DEF UndoWrite
  <2>worker. worker' \in [Worker -> WorkerRow]
    <3>1. {"failSoft", "undone"} \subseteq Phases
      BY DEF Phases
    <3>2. PICK failed \in SUBSET Store : \E phase \in {"failSoft", "undone"} :
            worker' = [worker EXCEPT ![w].bad = failed, ![w].pc = phase]
      BY <1>UndoWrite DEF UndoWrite, DeleteFailures
    <3>3. PICK phase \in Phases :
            worker' = [worker EXCEPT ![w].bad = failed, ![w].pc = phase]
      BY <3>1, <3>2
    <3>4. [worker[w] EXCEPT !.bad = failed, !.pc = phase] \in WorkerRow
      BY <1>worker DEF WorkerRow
    <3> QED
      BY <1>worker, <3>3, <3>4
  <2>same. UNCHANGED <<ledger, lane, cold, revision, document, registry, owner,
                       cleanup, purging, profile>>
    BY <1>UndoWrite DEF UndoWrite
  <2> QED
    BY <2>fact, <2>physical, <2>worker, <2>same DEF TypeOK
<1>SettleUndo. ASSUME NEW w \in Worker, NEW m \in Mutation, NEW s \in Store,
             SettleUndo(w, m, s)
      PROVE  TypeOK'
  <2>ledger. ledger' \in [Mutation -> LedgerRow]
    BY <1>SettleUndo, CompensationType DEF SettleUndo
  <2>registry. registry' \in [Revision -> [Store -> RegistryStates]]
    BY <1>SettleUndo, CompensationType DEF SettleUndo
  <2>cleanup. cleanup' \in [Mutation -> [Store -> QueueRow(CleanupStates)]]
    BY <1>SettleUndo, CompensationType DEF SettleUndo
  <2>worker. worker' \in [Worker -> WorkerRow]
    <3>1. "failSoft" \in Phases
      BY DEF Phases
    <3> QED
      BY <1>SettleUndo, <3>1, WorkerRowType DEF SettleUndo
  <2>same. UNCHANGED <<lane, cold, revision, document, fact, physical, owner, purging,
                       profile>>
    BY <1>SettleUndo DEF SettleUndo, catalog
  <2> QED
    BY <2>ledger, <2>registry, <2>cleanup, <2>worker, <2>same DEF TypeOK
<1>FailLane. ASSUME NEW w \in Worker, NEW m \in Mutation, NEW s \in Store,
             FailLane(w, m, s)
      PROVE  TypeOK'
  <2>ledger. ledger' \in [Mutation -> LedgerRow]
    <3>1. \A dead : Failed(ledger[m], dead) \in LedgerRow
      BY <1>ledger, MoveType DEF Failed
    <3>2. \/ ledger' = ledger
           \/ \E dead \in BOOLEAN : ledger' = [ledger EXCEPT ![m] = Failed(@, dead)]
      BY <1>FailLane DEF FailLane
    <3> QED
      BY <1>ledger, <3>1, <3>2
  <2>lane. lane' \in [Mutation -> [Store -> QueueRow(LaneStates)]]
    <3>1. \A state \in LaneStates : Row(state, lane[m][s].n) \in QueueRow(LaneStates)
      BY <1>lane, QueueType
    <3>2. \/ lane' = lane
           \/ \E state \in LaneStates : lane' = [lane EXCEPT ![m][s] = Row(state, @.n)]
      BY <1>FailLane DEF FailLane, Row, LaneStates
    <3> QED
      BY <1>lane, <3>1, <3>2
  <2>worker. worker' \in [Worker -> WorkerRow]
    BY <1>FailLane, WorkerType DEF FailLane
  <2>same. UNCHANGED <<cold, revision, document, fact, physical, registry, owner,
                       cleanup, purging, profile>>
    BY <1>FailLane DEF FailLane, catalog, artifacts
  <2> QED
    BY <2>ledger, <2>lane, <2>worker, <2>same DEF TypeOK
<1>DeleteProjected. ASSUME NEW w \in Worker, NEW m \in Mutation, NEW s \in Store,
             DeleteProjected(w, m, s)
      PROVE  TypeOK'
  <2>physical. physical' \in [Optional -> SUBSET Revision]
    BY <1>DeleteProjected, <1>physical DEF DeleteProjected
  <2>worker. worker' \in [Worker -> WorkerRow]
    <3>1. "fenced" \in Phases
      BY DEF Phases
    <3>2. worker[w].bad \in SUBSET Store
      BY <1>worker DEF WorkerRow
    <3>3. PICK failed \in SUBSET Store :
            worker' = [worker EXCEPT ![w].pc = "fenced", ![w].bad = failed]
      BY <1>DeleteProjected, <3>2 DEF DeleteProjected, DeleteFailures, Store
    <3> QED
      BY <1>worker, <3>1, <3>3 DEF WorkerRow
  <2>same. UNCHANGED <<ledger, lane, cold, revision, document, fact, registry, owner,
                       cleanup, purging, profile>>
    BY <1>DeleteProjected DEF DeleteProjected, catalog
  <2> QED
    BY <2>physical, <2>worker, <2>same DEF TypeOK
<1>SettleFence. ASSUME NEW w \in Worker, NEW m \in Mutation, NEW s \in Store,
             SettleFence(w, m, s)
      PROVE  TypeOK'
  <2>ledger. ledger' \in [Mutation -> LedgerRow]
    BY <1>SettleFence, CompensationType DEF SettleFence
  <2>registry. registry' \in [Revision -> [Store -> RegistryStates]]
    BY <1>SettleFence, CompensationType DEF SettleFence
  <2>cleanup. cleanup' \in [Mutation -> [Store -> QueueRow(CleanupStates)]]
    BY <1>SettleFence, CompensationType DEF SettleFence
  <2>worker. worker' \in [Worker -> WorkerRow]
    BY <1>SettleFence, WorkerType DEF SettleFence
  <2>same. UNCHANGED <<lane, cold, revision, document, fact, physical, owner, purging,
                       profile>>
    BY <1>SettleFence DEF SettleFence, catalog
  <2> QED
    BY <2>ledger, <2>registry, <2>cleanup, <2>worker, <2>same DEF TypeOK
<1>ClaimCleanup. ASSUME NEW w \in Worker,
             ClaimCleanup(w)
      PROVE  TypeOK'
  <2>cleanup. cleanup' \in [Mutation -> [Store -> QueueRow(CleanupStates)]]
    BY <1>ClaimCleanup, <1>cleanup, QueueType DEF ClaimCleanup
  <2>worker. worker' \in [Worker -> WorkerRow]
    <3>1. "clean" \in Phases
      BY DEF Phases
    <3>2. PICK ready \in SUBSET (Mutation \X Store) :
            worker' = [worker EXCEPT ![w] = IF ready = {} THEN Idle
                         ELSE [@ EXCEPT !.pc = "clean", !.todo = ready]]
      BY <1>ClaimCleanup DEF ClaimCleanup
    <3>3. ready \in SUBSET Item
      BY DEF Item
    <3> QED
      BY <1>worker, <3>1, <3>2, <3>3, WorkerRowType, WorkerType
  <2>same. UNCHANGED <<ledger, lane, cold, revision, document, fact, physical,
                       registry, owner, purging, profile>>
    BY <1>ClaimCleanup DEF ClaimCleanup, catalog, artifacts
  <2> QED
    BY <2>cleanup, <2>worker, <2>same DEF TypeOK
<1>ApplyCleanup. ASSUME NEW w \in Worker, NEW m \in Mutation, NEW s \in Store,
             ApplyCleanup(w, m, s)
      PROVE  TypeOK'
  <2>fact. fact' \in [Revision -> FactRow]
    <3>1. \/ fact' = fact
           \/ fact' = [fact EXCEPT ![RevisionOf[m]] = [st |-> "NONE", by |-> None]]
      BY <1>ApplyCleanup DEF ApplyCleanup
    <3> QED
      BY <1>fact, <3>1, RevisionType, FactType
  <2>physical. physical' \in [Optional -> SUBSET Revision]
    BY <1>ApplyCleanup, <1>physical DEF ApplyCleanup
  <2>worker. worker' \in [Worker -> WorkerRow]
    BY <1>ApplyCleanup, WorkerType, ItemType DEF ApplyCleanup, Phases
  <2>same. UNCHANGED <<ledger, lane, cold, revision, document, registry, owner,
                       cleanup, purging, profile>>
    BY <1>ApplyCleanup DEF ApplyCleanup
  <2> QED
    BY <2>fact, <2>physical, <2>worker, <2>same DEF TypeOK
<1>FinishCleanup. ASSUME NEW w \in Worker, NEW m \in Mutation, NEW s \in Store,
             FinishCleanup(w, m, s)
      PROVE  TypeOK'
  <2>ledger. ledger' \in [Mutation -> LedgerRow]
    BY <1>FinishCleanup, <1>ledger, MoveType DEF FinishCleanup
  <2>registry. registry' \in [Revision -> [Store -> RegistryStates]]
    BY <1>FinishCleanup, <1>registry, RevisionType DEF FinishCleanup, RegistryStates
  <2>cleanup. cleanup' \in [Mutation -> [Store -> QueueRow(CleanupStates)]]
    <3>1. \A state \in CleanupStates : Row(state, cleanup[m][s].n) \in QueueRow(CleanupStates)
      BY <1>cleanup, QueueType
    <3>2. \/ cleanup' = cleanup
           \/ \E state \in CleanupStates :
                 cleanup' = [cleanup EXCEPT ![m][s] = Row(state, cleanup[m][s].n)]
      BY SMTT(60), <1>FinishCleanup DEF FinishCleanup, CleanupStates
    <3> QED
      BY <1>cleanup, <3>1, <3>2
  <2>worker. worker' \in [Worker -> WorkerRow]
    BY ZenonT(60), <1>FinishCleanup, <1>worker, WorkerType DEF FinishCleanup, WorkerRow, Phases
  <2>same. UNCHANGED <<lane, cold, revision, document, fact, physical, owner, purging,
                       profile>>
    BY <1>FinishCleanup DEF FinishCleanup, catalog
  <2> QED
    BY <2>ledger, <2>registry, <2>cleanup, <2>worker, <2>same DEF TypeOK
<1>Replay. ASSUME NEW m \in Mutation,
             Replay(m)
      PROVE  TypeOK'
  <2>ledger. ledger' \in [Mutation -> LedgerRow]
    BY <1>Replay, <1>ledger, MoveType DEF Replay
  <2>lane. lane' \in [Mutation -> [Store -> QueueRow(LaneStates)]]
    BY <1>Replay, LanesType, QueueType DEF Replay
  <2>cold. cold' \in [Mutation -> {"NONE", "QUEUED", "DONE", "DEAD"}]
    BY <1>Replay, <1>cold DEF Replay
  <2>cleanup. cleanup' \in [Mutation -> [Store -> QueueRow(CleanupStates)]]
    BY <1>Replay, <1>cleanup, QueueType DEF Replay
  <2>same. UNCHANGED <<revision, document, fact, physical, registry, owner, purging,
                       profile, worker>>
    BY <1>Replay DEF Replay, catalog, artifacts
  <2> QED
    BY <2>ledger, <2>lane, <2>cold, <2>cleanup, <2>same DEF TypeOK
<1>PurgeDocument. ASSUME NEW d \in Document,
             PurgeDocument(d)
      PROVE  TypeOK'
  <2>ledger. ledger' \in [Mutation -> LedgerRow]
    BY <1>PurgeDocument, <1>ledger, MoveType DEF PurgeDocument
  <2>lane. lane' \in [Mutation -> [Store -> QueueRow(LaneStates)]]
    BY <1>PurgeDocument, <1>lane, QueueType DEF PurgeDocument, Cancelled
  <2>revision. revision' \in [Revision -> RevisionStates]
    BY <1>PurgeDocument, <1>revision DEF PurgeDocument, RevisionStates
  <2>document. document' \in [Document -> {"ACTIVE", "PURGED"}]
    BY <1>PurgeDocument, <1>document DEF PurgeDocument
  <2>fact. fact' \in [Revision -> FactRow]
    BY <1>PurgeDocument, <1>fact DEF PurgeDocument, FactRow, FactStates
  <2>purging. purging' \in SUBSET Mutation
    BY <1>PurgeDocument, <1>purging DEF PurgeDocument
  <2>same. UNCHANGED <<cold, physical, registry, owner, cleanup, profile, worker>>
    BY <1>PurgeDocument DEF PurgeDocument, artifacts
  <2> QED
    BY <2>ledger, <2>lane, <2>revision, <2>document, <2>fact, <2>purging, <2>same
       DEF TypeOK
<1>Restart. ASSUME Restart
      PROVE  TypeOK'
  <2>ledger. ledger' \in [Mutation -> LedgerRow]
    <3>1. \A n \in Mutation :
            MoveRun(MoveMutation(ledger[n], "RETRY_PENDING"), "RETRY_PENDING") \in LedgerRow
      BY <1>ledger, MoveType
    <3>2. PICK next \in Profiles :
            ledger' = [n \in Mutation |->
                IF Unparity(n, next) # {}
                THEN MoveRun(MoveMutation(ledger[n], "RETRY_PENDING"), "RETRY_PENDING")
                ELSE ledger[n]]
      BY <1>Restart DEF Restart
    <3> QED
      BY <1>ledger, <3>1, <3>2
  <2>lane. lane' \in [Mutation -> [Store -> QueueRow(LaneStates)]]
    BY <1>Restart, <1>lane, QueueType DEF Restart, Recovered
  <2>purging. purging' \in SUBSET Mutation
    BY <1>Restart DEF Restart
  <2>profile. profile' \in SUBSET Optional
    BY <1>Restart, PipelineAssumption DEF Restart
  <2>worker. worker' \in [Worker -> WorkerRow]
    BY <1>Restart, WorkerType DEF Restart
  <2>same. UNCHANGED <<cold, revision, document, fact, physical, registry, owner,
                       cleanup>>
    BY <1>Restart DEF Restart, catalog, artifacts
  <2> QED
    BY <2>ledger, <2>lane, <2>purging, <2>profile, <2>worker, <2>same DEF TypeOK
<1>SkipLane. ASSUME NEW w \in Worker, NEW m \in Mutation, NEW s \in Store, SkipLane(w, m, s)
      PROVE  TypeOK'
  BY <1>SkipLane, CompleteLaneType DEF SkipLane
<1>FinishLane. ASSUME NEW w \in Worker, NEW m \in Mutation, NEW s \in Store,
                      FinishLane(w, m, s)
      PROVE  TypeOK'
  BY <1>FinishLane, CompleteLaneType DEF FinishLane
<1>RequestRollback. ASSUME NEW m \in Mutation, RequestRollback(m)
      PROVE  TypeOK'
  BY <1>RequestRollback, <1>purging, RollBackType DEF RequestRollback
<1>PurgeRollback. ASSUME NEW m \in Mutation, PurgeRollback(m)
      PROVE  TypeOK'
  <2>1. purging' \subseteq Mutation
    BY <1>PurgeRollback, <1>purging DEF PurgeRollback
  <2>2. CASE RollBack(m)
    BY <2>1, <2>2, RollBackType
  <2>3. CASE UNCHANGED <<ledger, lane, cold, catalog, artifacts, cleanup, profile,
                         worker>>
    BY <2>1, <2>3 DEF TypeOK, catalog, artifacts
  <2> QED
    BY <1>PurgeRollback, <2>2, <2>3 DEF PurgeRollback
<1>stutter. CASE UNCHANGED vars
  BY <1>stutter DEF TypeOK, vars
<1>Consume. ASSUME NEW w \in Worker, Consume(w) PROVE TypeOK'
  BY <1>Consume, <1>ColdLoad, <1>ColdExtract, <1>ColdJudge, <1>ColdVerified,
     <1>ColdUnverified, <1>ClaimLanes, <1>StartLane, <1>ListAssertions,
     <1>CheckFence, <1>WriteArtifact, <1>RecordArtifact, <1>CommitGraph,
     <1>UndoWrite, <1>SettleUndo, <1>FailLane, <1>DeleteProjected, <1>SettleFence,
     <1>ClaimCleanup, <1>ApplyCleanup, <1>FinishCleanup, <1>SkipLane, <1>FinishLane
     DEF Consume, ColdPath, Project, Clean
<1> QED
  BY <1>Consume, <1>Admit, <1>RequestRollback, <1>Replay, <1>PurgeRollback,
     <1>PurgeDocument,
     <1>Restart, <1>stutter DEF Next, Request

\* The initial state is typed: the stores and the ledger start empty.
LEMMA TypeInit == Init => TypeOK
<1> SUFFICES ASSUME Init PROVE TypeOK
  OBVIOUS
<1>1. ledger \in [Mutation -> LedgerRow]
  BY DEF Init, LedgerRow, MutationStates, RunStates, Absent
<1>2. /\ lane \in [Mutation -> [Store -> QueueRow(LaneStates)]]
      /\ cleanup \in [Mutation -> [Store -> QueueRow(CleanupStates)]]
  BY QueueType DEF Init
<1>3. fact \in [Revision -> FactRow]
  BY DEF Init, FactRow, FactStates
<1>4. worker \in [Worker -> WorkerRow]
  BY DEF Init, Idle, WorkerRow, Phases
<1>5. profile \subseteq Optional
  BY PipelineAssumption DEF Init
<1>6. /\ cold \in [Mutation -> {"NONE", "QUEUED", "DONE", "DEAD"}]
      /\ revision \in [Revision -> RevisionStates]
      /\ document \in [Document -> {"ACTIVE", "PURGED"}]
      /\ physical \in [Optional -> SUBSET Revision]
      /\ registry \in [Revision -> [Store -> RegistryStates]]
      /\ owner \in [Mutation -> [Store -> OwnerStates]]
      /\ purging \subseteq Mutation
  BY DEF Init, RevisionStates, RegistryStates, OwnerStates
<1> QED
  BY <1>1, <1>2, <1>3, <1>4, <1>5, <1>6 DEF TypeOK

\* Type correctness: whatever is admitted, projected, rolled back, purged or
\* restarted, every table and every consumer keeps the shape TypeOK states.
THEOREM TypeCorrect == Spec => []TypeOK
  BY TypeInit, TypeStep, PTL DEF Spec

-----------------------------------------------------------------------------
(***************************************************************************)
(* A rollback that has begun is never undone: NoResurrection for every     *)
(* set of mutations, under the single consumer of the combined runtime.    *)
(*                                                                         *)
(* Every handler moves a ledger row along Safe, which keeps a mutation no  *)
(* handler moves forward (Held) where it is.  The exceptions are a replay, *)
(* which the invariant sends back into the rollback, and a consumer that   *)
(* reports on a blocked mutation, which the single consumer rules out.     *)
(***************************************************************************)

-----------------------------------------------------------------------------
(* The inductive invariant                                                 *)

\* A mutation that no forward transition of dao.py accepts.
Held(row) == row.mut \in Terminal \cup {"BLOCKED"}

\* An unadmitted mutation has no run, and a run in its rollback holds its
\* mutation.
Bound(row) == /\ row.mut = Absent => row.run = Absent
              /\ row.run \in {"ROLLING_BACK", "ROLLED_BACK"} => Held(row)
RunBindsMutation == \A m \in Mutation : Bound(ledger[m])

\* Only blocked cleanup blocks a run, so its replay resumes the rollback.
BlockedByCleanup ==
    \A m \in Mutation : ledger[m].run = "BLOCKED"
                           => \E s \in Store : cleanup[m][s].st = "BLOCKED"

\* The phases in which a consumer may still send its mutation to RETRY_PENDING.
Forward == {"extract", "judge", "list", "check", "write", "record", "commit",
            "undo", "undone", "failSoft"}

\* No consumer is working forward on a blocked mutation.
ForwardIsNotBlocked ==
    \A w \in Worker, m \in Mutation, s \in Store \cup {"COLD"} :
        worker[w].pc \in Forward /\ worker[w].cur = <<m, s>>
            => ledger[m].mut # "BLOCKED"

RollbackInv == /\ TypeOK
               /\ RunBindsMutation
               /\ BlockedByCleanup
               /\ ForwardIsNotBlocked

-----------------------------------------------------------------------------
(* Safe moves of a ledger row                                              *)

Safe(old, new) == /\ Bound(new)
                  /\ Held(old) => Held(new)
                  /\ new.run = "BLOCKED" => old.run = "BLOCKED"
                  /\ new.mut = "BLOCKED" => old.mut = "BLOCKED"

\* A row that stays put is safe, and safe moves compose.
LEMMA SafeChain ==
  /\ \A row : Bound(row) => Safe(row, row)
  /\ \A a, b, c : Safe(a, b) /\ Safe(b, c) => Safe(a, c)
  BY DEF Safe

\* A mutation transition is safe unless it retries a blocked mutation.
LEMMA SafeMutation ==
  ASSUME NEW row \in LedgerRow, Bound(row),
         NEW to, to # "BLOCKED", row.mut = "BLOCKED" => to # "RETRY_PENDING"
  PROVE  Safe(row, MoveMutation(row, to))
<1>1. CASE to \notin MutationNext(row.mut)
  BY <1>1, SafeChain DEF MoveMutation
<1>2. CASE to \in MutationNext(row.mut)
  <2> DEFINE new == MoveMutation(row, to)
  <2>1. new = [mut |-> to, run |-> Recompute(row.run, {to})]
    BY <1>2 DEF MoveMutation
  <2>2. row.mut # Absent /\ to # Absent
    BY <1>2, TerminalStays, AbsentIsInitial
  <2>3. Held(row) => Held(new)
    BY <1>2, <2>1, TerminalStays DEF Held, Terminal
  <2>4. \A state \in {"ROLLING_BACK", "ROLLED_BACK", "BLOCKED"} :
           new.run = state => row.run = state
    BY <2>1, RecomputeKeepsRollback DEF LedgerRow
  <2> QED
    BY <2>1, <2>2, <2>3, <2>4 DEF Safe, Bound
<1> QED
  BY <1>1, <1>2

\* A run transition is safe unless it concerns a rollback.
LEMMA SafeRun ==
  ASSUME NEW row \in LedgerRow, Bound(row),
         NEW to \in RunStates \ {Absent, "ROLLING_BACK", "ROLLED_BACK", "BLOCKED"}
  PROVE  Safe(row, MoveRun(row, to))
<1>1. RunNext(Absent) = {}
  BY DEF RunNext, Absent
<1> QED
  BY <1>1 DEF LedgerRow, Safe, Bound, Held, MoveRun, RunStep

\* Recomputing the run is safe.
LEMMA SafeRefresh ==
  ASSUME NEW row \in LedgerRow, Bound(row), row.mut # Absent
  PROVE  Safe(row, Refreshed(row))
<1>1. \A state \in {"ROLLING_BACK", "ROLLED_BACK", "BLOCKED"} :
         Refreshed(row).run = state => row.run = state
  BY RecomputeKeepsRollback DEF Refreshed, LedgerRow
<1>2. Refreshed(row).mut = row.mut
  BY DEF Refreshed, LedgerRow
<1> QED
  BY <1>1, <1>2 DEF Safe, Bound, Held

\* What the projection, the cold path and compensation do to a row is safe
\* (fail_projection_outbox, set_mutation_state, _advance_mutation_projection_state,
\* _finalize_terminal_projection_compensation, _enqueue_unowned_projection_cleanup).
LEMMA SafeHandlers ==
  ASSUME NEW row \in LedgerRow, Bound(row)
  PROVE  /\ row.mut # "BLOCKED" => \A dead : Safe(row, Failed(row, dead))
         /\ Safe(row, Failed(row, TRUE))
         /\ \A done : Safe(row, Advance(row, done))
         /\ Safe(row, Reopened(row))
         /\ Safe(row, MoveBoth(row, "ROLLED_BACK"))
<1> DEFINE failed(to, run) == MoveRun(MoveMutation(row, to), run)
<1>1. \A a, b : b \in {"DLQ", "RETRY_PENDING"} /\ a # "BLOCKED"
                /\ (row.mut = "BLOCKED" => a # "RETRY_PENDING") => Safe(row, failed(a, b))
  <2> SUFFICES ASSUME NEW a, NEW b \in {"DLQ", "RETRY_PENDING"}, a # "BLOCKED",
                      row.mut = "BLOCKED" => a # "RETRY_PENDING"
               PROVE  Safe(row, failed(a, b))
    OBVIOUS
  <2>1. Safe(row, MoveMutation(row, a)) /\ MoveMutation(row, a) \in LedgerRow
    BY SafeMutation, MoveType
  <2>2. b \in RunStates \ {Absent, "ROLLING_BACK", "ROLLED_BACK", "BLOCKED"}
    BY DEF RunStates, Absent
  <2>3. Safe(MoveMutation(row, a), failed(a, b))
    BY <2>1, <2>2, SafeRun DEF Safe
  <2> QED
    BY <2>1, <2>3, SafeChain
<1>2. /\ row.mut # "BLOCKED" => \A dead : Safe(row, Failed(row, dead))
      /\ Safe(row, Failed(row, TRUE))
  BY <1>1, SafeChain DEF Failed
<1>3. ASSUME NEW done PROVE Safe(row, Advance(row, done))
  <2> DEFINE last == Walk(row.mut, done)
  <2>1. CASE Advance(row, done) = row
    BY <2>1, SafeChain
  <2>2. CASE /\ row.mut \in DOMAIN Reached
             /\ Advance(row, done) = [mut |-> last, run |-> Recompute(row.run, {last})]
    <3>1. last \in DOMAIN Reached
      BY <2>2, WalkType
    <3>2. \A state \in DOMAIN Reached : state \notin Terminal \cup {"BLOCKED", Absent}
      BY DEF Reached, Terminal, Absent
    <3>3. \A state \in {"ROLLING_BACK", "ROLLED_BACK", "BLOCKED"} :
             Recompute(row.run, {last}) = state => row.run = state
      BY RecomputeKeepsRollback DEF LedgerRow
    <3> QED
      BY <2>2, <3>1, <3>2, <3>3 DEF Safe, Bound, Held
  <2> QED
    BY <2>1, <2>2 DEF Advance
<1>4. Safe(row, Reopened(row))
  BY DEF Safe, Bound, Held, Reopened, LedgerRow, Terminal, Absent
<1>5. Safe(row, MoveBoth(row, "ROLLED_BACK"))
  <2> DEFINE moved == MoveRun(row, "ROLLED_BACK")
  <2>1. /\ Bound(moved) /\ moved.mut = row.mut
        /\ moved.run = "BLOCKED" => row.run = "BLOCKED"
    BY DEF Bound, Held, MoveRun, RunStep, RunNext, RunInterruptions, LedgerRow, Absent
  <2>2. Safe(row, moved) /\ moved \in LedgerRow
    BY <2>1, MoveType DEF Safe, Held
  <2>3. Safe(moved, MoveMutation(moved, "ROLLED_BACK"))
    BY <2>1, <2>2, SafeMutation
  <2> QED
    BY <2>2, <2>3, SafeChain DEF MoveBoth
<1> QED
  BY <1>2, <1>3, <1>4, <1>5

\* A validator's or an extraction's verdict is safe on a mutation that is not
\* blocked (set_mutation_state).
LEMMA SafeJudged ==
  ASSUME TypeOK, NEW m \in Mutation, Bound(ledger[m]), ledger[m].mut # "BLOCKED",
         NEW to, to # "BLOCKED"
  PROVE  Safe(ledger[m], Judged(m, to)[m])
<1>1. ledger \in [Mutation -> LedgerRow] /\ ledger[m] \in LedgerRow
  BY DEF TypeOK
<1> DEFINE moved == MoveMutation(ledger[m], to)
<1>2. Safe(ledger[m], moved) /\ moved \in LedgerRow
  BY <1>1, SafeMutation, MoveType
<1>3. CASE MutationMayBe(ledger[m], to) /\ moved.mut # Absent
  <2>1. Safe(moved, Refreshed(moved))
    BY <1>2, <1>3, SafeRefresh DEF Safe
  <2> QED
    BY <1>1, <1>2, <1>3, <2>1, SafeChain DEF Judged
<1>4. CASE moved.mut = Absent
  <2>1. moved = ledger[m]
    BY <1>1, <1>4, AbsentIsInitial DEF MoveMutation
  <2>2. ledger[m].run = Absent
    BY <1>4, <2>1 DEF Bound
  <2>3. Refreshed(moved) = moved
    BY <1>1, <1>4, <2>1, <2>2
       DEF Refreshed, Recompute, RunStep, RunNext, LedgerRow, Absent
  <2> QED
    BY <1>1, <2>1, <2>3, SafeChain DEF Judged
<1>5. CASE ~MutationMayBe(ledger[m], to)
  BY <1>1, <1>5, SafeChain DEF Judged
<1> QED
  BY <1>3, <1>4, <1>5

\* The request that begins a rollback holds the mutation it is made for.
LEMMA RollingHolds ==
  ASSUME NEW row \in LedgerRow, Bound(row)
  PROVE  /\ Safe(row, MoveBoth(row, "ROLLING_BACK"))
         /\ row.mut # Absent => Held(MoveBoth(row, "ROLLING_BACK"))
<1> DEFINE moved == MoveRun(row, "ROLLING_BACK")
           new == MoveBoth(row, "ROLLING_BACK")
<1>1. moved \in LedgerRow /\ moved.mut = row.mut
      /\ (moved.run \in {"BLOCKED", "ROLLED_BACK"} => moved.run = row.run)
  BY MoveType DEF MoveRun, RunStep, LedgerRow
<1>2. CASE row.mut = Absent
  <2>1. new = row
    BY <1>2, TerminalStays
       DEF Bound, MoveBoth, MoveRun, MoveMutation, RunStep, RunNext, LedgerRow, Absent
  <2> QED
    BY <1>2, <2>1, SafeChain
<1>3. CASE row.mut # Absent /\ "ROLLING_BACK" \in MutationNext(row.mut)
  <2>1. new = [mut |-> "ROLLING_BACK", run |-> Recompute(moved.run, {"ROLLING_BACK"})]
    BY <1>1, <1>3 DEF MoveBoth, MoveMutation
  <2>2. new.run = "BLOCKED" => row.run = "BLOCKED"
    BY <1>1, <2>1, RecomputeKeepsRollback DEF LedgerRow
  <2> QED
    BY <2>1, <2>2 DEF Safe, Bound, Held, Terminal, Absent
<1>4. CASE row.mut # Absent /\ "ROLLING_BACK" \notin MutationNext(row.mut)
  <2>1. new = moved
    BY <1>1, <1>4 DEF MoveBoth, MoveMutation
  <2>2. row.mut \in Terminal
    BY <1>4 DEF LedgerRow, MutationStates, MutationNext, Interruptions, Terminal, Absent
  <2> QED
    BY <1>1, <1>4, <2>1, <2>2 DEF Safe, Bound, Held
<1> QED
  BY <1>2, <1>3, <1>4

-----------------------------------------------------------------------------
(* Steps that keep the invariant                                           *)

ForwardKept ==
    \A w \in Worker, m \in Mutation, s \in Store \cup {"COLD"} :
        worker'[w].pc \in Forward /\ worker'[w].cur = <<m, s>>
            => \/ worker[w].pc \in Forward /\ worker[w].cur = <<m, s>>
               \/ ledger[m].mut # "BLOCKED"
LedgerSafe == \A m \in Mutation : Safe(ledger[m], ledger'[m])
BlockedKept == \A m \in Mutation, s \in Store :
                  cleanup[m][s].st = "BLOCKED" => cleanup'[m][s].st = "BLOCKED"

\* What a step has to show: the invariant, and that it revives nothing.
Holding == RollbackInv' /\ \A m \in Mutation : RollbackBegun(m) => Held(ledger'[m])

\* A begun rollback holds its mutation.
LEMMA BegunHeld ==
  ASSUME RollbackInv, NEW m \in Mutation, RollbackBegun(m)
  PROVE  Held(ledger[m])
  BY DEF RollbackInv, RunBindsMutation, Bound, RollbackBegun, Held

\* Safe moves, kept cleanup and forward work on live mutations are enough.
LEMMA KeptSuffices ==
  ASSUME RollbackInv, TypeOK', LedgerSafe, BlockedKept, ForwardKept
  PROVE  Holding
<1>1. RunBindsMutation'
  BY DEF LedgerSafe, Safe, RunBindsMutation
<1>2. BlockedByCleanup'
  BY DEF LedgerSafe, Safe, BlockedKept, BlockedByCleanup, RollbackInv
<1>3. ForwardIsNotBlocked'
  BY DEF LedgerSafe, Safe, ForwardKept, ForwardIsNotBlocked, RollbackInv
<1>4. \A m \in Mutation : RollbackBegun(m) => Held(ledger'[m])
  BY BegunHeld DEF LedgerSafe, Safe
<1> QED
  BY <1>1, <1>2, <1>3, <1>4 DEF Holding, RollbackInv

\* A ledger that stays, or moves in one row.
LEMMA LedgerMoves ==
  ASSUME RollbackInv
  PROVE  /\ UNCHANGED ledger => LedgerSafe
         /\ \A m \in Mutation : \A row :
               Safe(ledger[m], row) /\ ledger' = [ledger EXCEPT ![m] = row] => LedgerSafe
<1>1. \A m \in Mutation : Safe(ledger[m], ledger[m])
  BY SafeChain DEF RollbackInv, RunBindsMutation
<1>2. ledger \in [Mutation -> LedgerRow]
  BY DEF RollbackInv, TypeOK
<1> QED
  BY <1>1, <1>2 DEF LedgerSafe

\* An idle consumer works on nothing.
LEMMA IdleNotForward == Idle.pc \notin Forward
  BY DEF Idle, Forward

\* The consumer's moves that never take up a blocked mutation.
LEMMA ForwardMoves ==
  ASSUME RollbackInv, NEW w \in Worker
  PROVE  /\ UNCHANGED worker => ForwardKept
         /\ \A phase : Goto(w, phase) /\ (phase \in Forward => worker[w].pc \in Forward)
               => ForwardKept
         /\ \A phase : \A m \in Mutation : \A s \in Store \cup {"COLD"} :
               Begin(w, phase, <<m, s>>) /\ (phase \in Forward => ledger[m].mut # "BLOCKED")
               => ForwardKept
         /\ Done(w) => ForwardKept
         /\ Applied(w) => ForwardKept
         /\ \A row : worker' = [worker EXCEPT ![w] = row] /\ row.pc \notin Forward
               => ForwardKept
         /\ \A row : worker' = [worker EXCEPT ![w] = row] /\ row.cur = worker[w].cur
                      /\ worker[w].pc \in Forward => ForwardKept
<1>1. worker \in [Worker -> WorkerRow]
  BY DEF RollbackInv, TypeOK
<1>2. UNCHANGED worker => ForwardKept
  BY DEF ForwardKept
<1>3. ASSUME NEW phase, Goto(w, phase), phase \in Forward => worker[w].pc \in Forward
      PROVE  ForwardKept
  BY <1>1, <1>3 DEF ForwardKept, Goto, WorkerRow
<1>4. ASSUME NEW phase, NEW m \in Mutation, NEW s \in Store \cup {"COLD"},
             Begin(w, phase, <<m, s>>), phase \in Forward => ledger[m].mut # "BLOCKED"
      PROVE  ForwardKept
  BY <1>1, <1>4 DEF ForwardKept, Begin, WorkerRow
<1>5. ASSUME NEW row, worker' = [worker EXCEPT ![w] = row], row.pc \notin Forward
      PROVE  ForwardKept
  BY <1>1, <1>5 DEF ForwardKept
<1>6. ASSUME NEW row, worker' = [worker EXCEPT ![w] = row], row.cur = worker[w].cur,
             worker[w].pc \in Forward
      PROVE  ForwardKept
  BY <1>1, <1>6 DEF ForwardKept
<1>7. "next" \notin Forward
  BY DEF Forward
<1>8. Done(w) => ForwardKept
  BY <1>1, <1>7 DEF Done, WorkerRow, ForwardKept
<1>9. Applied(w) => ForwardKept
  BY <1>1, <1>7 DEF Applied, WorkerRow, ForwardKept
<1> QED
  BY <1>2, <1>3, <1>4, <1>5, <1>6, <1>8, <1>9

-----------------------------------------------------------------------------
(* The cold path                                                           *)

\* Loading, extraction and verdict of a dispatch keep the invariant
\* (_process_cold_path_impl).
LEMMA ColdPathHolds ==
  ASSUME RollbackInv, TypeOK', NEW w \in Worker, ColdPath(w)
  PROVE  Holding
<1>1. PICK m \in Mutation : \/ ColdLoad(w, m) \/ ColdExtract(w, m) \/ ColdJudge(w, m)
                            \/ ColdVerified(w, m) \/ ColdUnverified(w, m)
  BY DEF ColdPath
<1>2. TypeOK /\ ledger \in [Mutation -> LedgerRow] /\ Bound(ledger[m])
  BY DEF RollbackInv, TypeOK, RunBindsMutation
<1>3. BlockedKept
  BY <1>1 DEF ColdLoad, ColdExtract, ColdJudge, ColdVerified, ColdUnverified, BlockedKept
<1>4. {"extract", "judge"} \subseteq Forward
      /\ {"idle", "verified", "unverified"} \cap Forward = {}
  BY DEF Forward
<1>5. CASE ColdLoad(w, m)
  <2>1. LedgerSafe
    BY <1>5, LedgerMoves DEF ColdLoad
  <2>2. ForwardKept
    BY <1>4, <1>5, ForwardMoves DEF ColdLoad
  <2> QED
    BY <1>3, <2>1, <2>2, KeptSuffices
<1>6. CASE ColdExtract(w, m)
  <2>1. ledger[m].mut # "BLOCKED"
    BY <1>4, <1>6 DEF ColdExtract, At, RollbackInv, ForwardIsNotBlocked
  <2>2. \/ ledger' = ledger
        \/ ledger' = [ledger EXCEPT ![m] = MoveMutation(@, "EXTRACTED")]
        \/ ledger' = Judged(m, "RETRY_PENDING")
    BY <1>6 DEF ColdExtract
  <2>3. Safe(ledger[m], MoveMutation(ledger[m], "EXTRACTED"))
    BY <1>2, <2>1, SafeMutation
  <2>4. Safe(ledger[m], Judged(m, "RETRY_PENDING")[m])
    BY <1>2, <2>1, SafeJudged
  <2>5. LedgerSafe
    BY <1>2, <2>2, <2>3, <2>4, LedgerMoves DEF Judged
  <2>6. ForwardKept
    BY <1>4, <1>6, ForwardMoves DEF ColdExtract, At
  <2> QED
    BY <1>3, <2>5, <2>6, KeptSuffices
<1>7. CASE ColdJudge(w, m)
  <2>1. ledger[m].mut # "BLOCKED"
    BY <1>4, <1>7 DEF ColdJudge, At, RollbackInv, ForwardIsNotBlocked
  <2>2. ledger' = ledger \/ \E to \in {"VALIDATED", "REJECTED", "RETRY_PENDING"} :
                               ledger' = Judged(m, to)
    BY <1>7 DEF ColdJudge
  <2>3. \A to \in {"VALIDATED", "REJECTED", "RETRY_PENDING"} :
           Safe(ledger[m], Judged(m, to)[m])
    BY <1>2, <2>1, SafeJudged
  <2>4. LedgerSafe
    BY <1>2, <2>2, <2>3, LedgerMoves DEF Judged
  <2>5. ForwardKept
    BY <1>4, <1>7, ForwardMoves DEF ColdJudge, At
  <2> QED
    BY <1>3, <2>4, <2>5, KeptSuffices
<1>8. CASE ColdVerified(w, m)
  <2>1. LedgerSafe
    BY <1>8, LedgerMoves DEF ColdVerified
  <2>2. ForwardKept
    <3>1. worker' = [worker EXCEPT ![w] = Idle] /\ Idle.pc \notin Forward
      BY <1>8, IdleNotForward DEF ColdVerified
    <3> QED
      BY <3>1, ForwardMoves
  <2> QED
    BY <1>3, <2>1, <2>2, KeptSuffices
<1>9. CASE ColdUnverified(w, m)
  <2>1. Safe(ledger[m], MoveMutation(ledger[m], "DEAD_LETTER"))
    BY <1>2, SafeMutation
  <2>2. LedgerSafe
    BY <1>9, <2>1, LedgerMoves DEF ColdUnverified
  <2>3. ForwardKept
    <3>1. worker' = [worker EXCEPT ![w] = Idle] /\ Idle.pc \notin Forward
      BY <1>9, IdleNotForward DEF ColdUnverified
    <3> QED
      BY <3>1, ForwardMoves
  <2> QED
    BY <1>3, <2>2, <2>3, KeptSuffices
<1> QED
  BY <1>1, <1>5, <1>6, <1>7, <1>8, <1>9

-----------------------------------------------------------------------------
(* Projection lanes                                                        *)

\* A compensation moves its mutation's row safely and leaves blocked cleanup
\* blocked (_finalize_terminal_projection_compensation,
\* _enqueue_unowned_projection_cleanup).
LEMMA CompensationHolds ==
  ASSUME RollbackInv, NEW m \in Mutation, NEW stores,
         FinalizeCompensation(m) \/ EnqueueUnowned(m, stores)
  PROVE  LedgerSafe /\ BlockedKept
<1>1. ledger \in [Mutation -> LedgerRow] /\ Bound(ledger[m])
      /\ cleanup \in [Mutation -> [Store -> QueueRow(CleanupStates)]]
  BY DEF RollbackInv, TypeOK, RunBindsMutation
<1>2. \/ ledger' = ledger
      \/ ledger' = [ledger EXCEPT ![m] = MoveBoth(@, "ROLLED_BACK")]
      \/ ledger' = [ledger EXCEPT ![m] = Reopened(@)]
  BY <1>1 DEF FinalizeCompensation, EnqueueUnowned
<1>3. LedgerSafe
  BY <1>1, <1>2, SafeHandlers, LedgerMoves
<1>4. BlockedKept
  BY <1>1 DEF FinalizeCompensation, EnqueueUnowned, BlockedKept
<1> QED
  BY <1>3, <1>4

\* fail_projection_outbox: a mutation that is not projectable any more fails for
\* good, and one that was is not blocked.
LEMMA FailLaneHolds ==
  ASSUME RollbackInv, NEW w \in Worker, NEW m \in Mutation, NEW s \in Store,
         FailLane(w, m, s)
  PROVE  LedgerSafe
<1>1. ledger \in [Mutation -> LedgerRow] /\ Bound(ledger[m])
  BY DEF RollbackInv, TypeOK, RunBindsMutation
<1> DEFINE dead == worker[w].pc = "failHard" \/ lane[m][s].n >= RetryLimit
<1>2. ledger' = ledger \/ ledger' = [ledger EXCEPT ![m] = Failed(ledger[m], dead)]
  BY <1>1 DEF FailLane
<1>3. Safe(ledger[m], Failed(ledger[m], dead))
  <2>1. CASE worker[w].pc = "failHard"
    <3>1. dead = TRUE
      BY <2>1
    <3> QED
      BY <1>1, <3>1, SafeHandlers
  <2>2. CASE worker[w].pc # "failHard"
    <3>1. worker[w].pc = "failSoft" /\ worker[w].cur = <<m, s>>
      BY <2>2 DEF FailLane, At
    <3>2. ledger[m].mut # "BLOCKED"
      BY <3>1 DEF RollbackInv, ForwardIsNotBlocked, Forward
    <3> QED
      BY <1>1, <3>2, SafeHandlers
  <2> QED
    BY <2>1, <2>2
<1> QED
  BY <1>2, <1>3, LedgerMoves

\* complete_projection_outbox: an activation that fails was about to commit.
LEMMA CompleteLaneHolds ==
  ASSUME RollbackInv, NEW w \in Worker, NEW m \in Mutation, NEW s \in Store,
         NEW outcome \in {"SKIPPED", "COMPLETED"}, CompleteLane(w, m, s, outcome),
         worker[w].pc = "skip" => worker[w].cur = <<m, s>>
  PROVE  LedgerSafe /\ ForwardKept
<1> DEFINE rows == [lane[m] EXCEPT ![s] = Row(outcome, @.n)]
           row == Advance(ledger[m], Finished(rows))
           act == /\ row.mut = "COMMITTED" /\ ledger[m].mut # "COMMITTED"
                  /\ ReadyToActivate(RevisionOf[m], [ledger EXCEPT ![m] = row])
           stale == ~Holds(w, lane[m][s]) \/ Fenced(m)
           raises == act /\ HeadConflict(RevisionOf[m])
<1>1. ledger \in [Mutation -> LedgerRow] /\ Bound(ledger[m])
      /\ worker \in [Worker -> WorkerRow]
  BY DEF RollbackInv, TypeOK, RunBindsMutation
<1>2. Safe(ledger[m], row)
  BY <1>1, SafeHandlers
<1>3. /\ ledger' = IF stale \/ raises THEN ledger ELSE [ledger EXCEPT ![m] = row]
      /\ worker' = [worker EXCEPT ![w] = AfterCompletion(@, <<m, s>>, stale, raises)]
  BY DEF CompleteLane
<1>4. LedgerSafe
  <2> HIDE DEF row, stale, raises
  <2> QED
    BY <1>2, <1>3, LedgerMoves
<1>5. raises => ledger[m].mut # "BLOCKED"
  <2>1. raises => row.mut = "COMMITTED"
    OBVIOUS
  <2> HIDE DEF row, raises
  <2> QED
    BY <1>2, <2>1 DEF Safe, Held, Terminal
<1>6. ForwardKept
  <2> DEFINE local == AfterCompletion(worker[w], <<m, s>>, stale, raises)
  <2>1. worker' = [worker EXCEPT ![w] = local]
    BY <1>1, <1>3
  <2> HIDE DEF stale, raises
  <2>2. \/ local.pc \notin Forward
        \/ /\ raises /\ worker[w].pc = "skip"
           /\ local = [worker[w] EXCEPT !.pc = "failSoft"]
    <3>1. {"fence", "next"} \cap Forward = {}
      BY DEF Forward
    <3>2. worker[w] \in WorkerRow
      BY <1>1
    <3> QED
      BY <3>1, <3>2, IdleNotForward DEF AfterCompletion, WorkerRow
  <2>3. CASE local.pc \notin Forward
    BY <2>1, <2>3, ForwardMoves
  <2>4. CASE /\ raises /\ worker[w].pc = "skip"
             /\ local = [worker[w] EXCEPT !.pc = "failSoft"]
    <3>1. local.cur = <<m, s>>
      <4>1. worker[w].cur = <<m, s>> /\ worker[w] \in WorkerRow
        BY <1>1, <2>4
      <4> HIDE DEF local
      <4> QED
        BY <2>4, <4>1 DEF WorkerRow
    <3>2. \A v \in Worker : worker'[v] = IF v = w THEN local ELSE worker[v]
      BY <1>1, <2>1
    <3>3. ledger[m].mut # "BLOCKED"
      BY <1>5, <2>4
    <3> HIDE DEF local
    <3> QED
      BY <3>1, <3>2, <3>3 DEF ForwardKept
  <2> QED
    BY <2>2, <2>3, <2>4
<1> QED
  BY <1>4, <1>6

\* Claiming lanes takes up nothing yet (claim_projection_outbox).
LEMMA ClaimLanesHolds ==
  ASSUME RollbackInv, TypeOK', NEW w \in Worker, ClaimLanes(w)
  PROVE  Holding
<1>1. PICK b : worker' = [worker EXCEPT ![w].pc = "next", ![w].todo = b]
  BY DEF ClaimLanes
<1>2. worker \in [Worker -> WorkerRow]
  BY DEF RollbackInv, TypeOK
<1>3. ForwardKept
  <2>1. "next" \notin Forward
    BY DEF Forward
  <2> QED
    BY <1>1, <1>2, <2>1 DEF ForwardKept, WorkerRow
<1>4. BlockedKept /\ LedgerSafe
  BY LedgerMoves DEF ClaimLanes, BlockedKept
<1> QED
  BY <1>3, <1>4, KeptSuffices

\* A lane's steps only continue what was started on a mutation that was
\* projectable when it was loaded.
LEMMA ProjectHolds ==
  ASSUME RollbackInv, TypeOK', NEW w \in Worker, Project(w)
  PROVE  Holding
<1>1. PICK m \in Mutation, s \in Store :
         \/ StartLane(w, m, s) \/ ListAssertions(w, m, s) \/ CheckFence(w, m, s)
         \/ WriteArtifact(w, m, s) \/ RecordArtifact(w, m, s) \/ CommitGraph(w, m)
         \/ UndoWrite(w, m, s) \/ SettleUndo(w, m, s) \/ FailLane(w, m, s)
         \/ SkipLane(w, m, s) \/ FinishLane(w, m, s)
         \/ DeleteProjected(w, m, s) \/ SettleFence(w, m, s)
  BY DEF Project
<1>2. worker \in [Worker -> WorkerRow]
  BY DEF RollbackInv, TypeOK
<1>3. UNCHANGED ledger => LedgerSafe
  BY LedgerMoves
<1>4. UNCHANGED cleanup => BlockedKept
  BY DEF BlockedKept
<1>5. CASE StartLane(w, m, s)
  <2>1. PICK phase : Begin(w, phase, <<m, s>>)
                     /\ (phase \in {"skip", "failHard"} \/ ledger[m].mut \in Projectable)
    BY <1>5 DEF StartLane
  <2>2. phase \in Forward => ledger[m].mut # "BLOCKED"
    BY <2>1 DEF Forward, Projectable
  <2>3. ForwardKept
    BY <2>1, <2>2, ForwardMoves
  <2> QED
    BY <1>3, <1>4, <1>5, <2>3, KeptSuffices DEF StartLane
<1>6. CASE \/ ListAssertions(w, m, s) \/ CheckFence(w, m, s) \/ WriteArtifact(w, m, s)
           \/ RecordArtifact(w, m, s) \/ CommitGraph(w, m)
  <2>1. worker[w].pc \in Forward
    BY <1>6 DEF ListAssertions, CheckFence, WriteArtifact, RecordArtifact, CommitGraph,
                At, Forward
  <2>2. Applied(w) \/ \E phase : Goto(w, phase)
    BY <1>6 DEF ListAssertions, CheckFence, WriteArtifact, RecordArtifact, CommitGraph
  <2>3. ForwardKept
    BY <2>1, <2>2, ForwardMoves
  <2>4. UNCHANGED <<ledger, cleanup>>
    BY <1>6 DEF ListAssertions, CheckFence, WriteArtifact, RecordArtifact, CommitGraph
  <2> QED
    BY <1>3, <1>4, <2>3, <2>4, KeptSuffices
<1>7. CASE UndoWrite(w, m, s)
  <2>1. worker[w].pc \in Forward
    BY <1>7 DEF UndoWrite, At, Forward
  <2>2. \E row : worker' = [worker EXCEPT ![w] = row] /\ row.cur = worker[w].cur
    <3>1. PICK bad, pc : worker' = [worker EXCEPT ![w].bad = bad, ![w].pc = pc]
      BY <1>7 DEF UndoWrite
    <3> DEFINE row == [worker[w] EXCEPT !.bad = bad, !.pc = pc]
    <3>2. worker' = [worker EXCEPT ![w] = row] /\ row.cur = worker[w].cur
      BY <1>2, <3>1 DEF WorkerRow
    <3> QED
      BY <3>2
  <2>3. ForwardKept
    BY <2>1, <2>2, ForwardMoves
  <2> QED
    BY <1>3, <1>4, <1>7, <2>3, KeptSuffices DEF UndoWrite
<1>8. CASE SettleUndo(w, m, s)
  <2>1. worker[w].pc \in Forward
    BY <1>8 DEF SettleUndo, At, Forward
  <2> DEFINE row == [worker[w] EXCEPT !.pc = "failSoft", !.bad = {}]
  <2>2. worker' = [worker EXCEPT ![w] = row] /\ row.cur = worker[w].cur
    BY <1>2, <1>8 DEF SettleUndo, WorkerRow
  <2>3. ForwardKept
    <3> HIDE DEF row
    <3> QED
      BY <2>1, <2>2, ForwardMoves
  <2>4. LedgerSafe /\ BlockedKept
    BY <1>8, CompensationHolds DEF SettleUndo
  <2> QED
    BY <2>3, <2>4, KeptSuffices
<1>9. CASE FailLane(w, m, s)
  <2>1. LedgerSafe
    BY <1>9, FailLaneHolds
  <2>2. ForwardKept
    BY <1>9, ForwardMoves DEF FailLane
  <2> QED
    BY <1>4, <1>9, <2>1, <2>2, KeptSuffices DEF FailLane
<1>10. CASE SkipLane(w, m, s) \/ FinishLane(w, m, s)
  <2>1. PICK outcome \in {"SKIPPED", "COMPLETED"} : CompleteLane(w, m, s, outcome)
    BY <1>10 DEF SkipLane, FinishLane
  <2>2. worker[w].pc = "skip" => worker[w].cur = <<m, s>>
    BY <1>10 DEF SkipLane, FinishLane, At
  <2>3. LedgerSafe /\ ForwardKept
    BY <2>1, <2>2, CompleteLaneHolds
  <2>4. UNCHANGED cleanup
    BY <2>1 DEF CompleteLane
  <2> QED
    BY <1>4, <2>3, <2>4, KeptSuffices
<1>11. CASE DeleteProjected(w, m, s)
  <2>1. PICK bad : worker' = [worker EXCEPT ![w].pc = "fenced", ![w].bad = bad]
    BY <1>11 DEF DeleteProjected
  <2>2. "fenced" \notin Forward
    BY DEF Forward
  <2>3. ForwardKept
    BY <1>2, <2>1, <2>2 DEF ForwardKept, WorkerRow
  <2> QED
    BY <1>3, <1>4, <1>11, <2>3, KeptSuffices DEF DeleteProjected
<1>12. CASE SettleFence(w, m, s)
  <2>1. LedgerSafe /\ BlockedKept
    BY <1>12, CompensationHolds DEF SettleFence
  <2>2. ForwardKept
    BY <1>12, ForwardMoves DEF SettleFence
  <2> QED
    BY <2>1, <2>2, KeptSuffices
<1> QED
  BY <1>1, <1>5, <1>6, <1>7, <1>8, <1>9, <1>10, <1>11, <1>12

-----------------------------------------------------------------------------
(* Cleanup                                                                 *)

\* Steps that block a run, or replay a blocked one, move one row and are not
\* safe: what they have to show instead.
LEMMA RowSuffices ==
  ASSUME RollbackInv, TypeOK', ForwardIsNotBlocked', NEW m \in Mutation, NEW row,
         ledger' = [ledger EXCEPT ![m] = row], Bound(row),
         RollbackBegun(m) => Held(row),
         row.run = "BLOCKED" => \E s \in Store : cleanup'[m][s].st = "BLOCKED",
         \A n \in Mutation \ {m} : cleanup'[n] = cleanup[n]
  PROVE  Holding
<1>1. \A n \in Mutation : ledger'[n] = IF n = m THEN row ELSE ledger[n]
  BY DEF RollbackInv, TypeOK
<1>2. RunBindsMutation'
  BY <1>1 DEF RollbackInv, RunBindsMutation
<1>3. BlockedByCleanup'
  BY <1>1 DEF RollbackInv, BlockedByCleanup
<1>4. \A n \in Mutation : RollbackBegun(n) => Held(ledger'[n])
  BY <1>1, BegunHeld
<1> QED
  BY <1>2, <1>3, <1>4 DEF Holding, RollbackInv

\* Blocking a run keeps what is held and binds its mutation.
LEMMA BlockedMove ==
  ASSUME NEW row \in LedgerRow, Bound(row)
  PROVE  /\ Bound(MoveBoth(row, "BLOCKED"))
         /\ Held(row) => Held(MoveBoth(row, "BLOCKED"))
<1> DEFINE moved == MoveRun(row, "BLOCKED")
           new == MoveBoth(row, "BLOCKED")
<1>1. moved \in LedgerRow /\ moved.mut = row.mut
      /\ (moved.run \in {"ROLLING_BACK", "ROLLED_BACK"} => moved.run = row.run)
      /\ (row.run = Absent => moved.run = Absent)
  BY MoveType DEF MoveRun, RunStep, RunNext, LedgerRow, Absent
<1>2. CASE "BLOCKED" \notin MutationNext(row.mut)
  <2>1. new = moved
    BY <1>1, <1>2 DEF MoveBoth, MoveMutation
  <2> QED
    BY <1>1, <2>1 DEF Bound, Held
<1>3. CASE "BLOCKED" \in MutationNext(row.mut)
  <2>1. new.mut = "BLOCKED"
    BY <1>1, <1>3 DEF MoveBoth, MoveMutation
  <2> QED
    BY <2>1 DEF Bound, Held, Absent
<1> QED
  BY <1>2, <1>3

\* Blocked cleanup is not claimed (claim_artifact_cleanup).
LEMMA ClaimCleanupHolds ==
  ASSUME RollbackInv, TypeOK', NEW w \in Worker, ClaimCleanup(w)
  PROVE  Holding
<1>1. PICK clock \in SUBSET {i \in Mutation \X Store : Waiting(cleanup[i[1]][i[2]])} :
        LET ready == clock \cup {i \in Mutation \X Store :
                                    cleanup[i[1]][i[2]].st = "PENDING"}
        IN  /\ cleanup' = [m \in Mutation |-> [s \in Store |->
                              IF <<m, s>> \in ready THEN Claim(cleanup[m][s], w)
                              ELSE cleanup[m][s]]]
            /\ worker' = [worker EXCEPT ![w] =
                  IF ready = {} THEN Idle
                  ELSE [@ EXCEPT !.pc = "clean", !.todo = ready]]
  BY DEF ClaimCleanup
<1> DEFINE ready == clock \cup {i \in Mutation \X Store : cleanup[i[1]][i[2]].st = "PENDING"}
<1>2. worker \in [Worker -> WorkerRow]
      /\ cleanup \in [Mutation -> [Store -> QueueRow(CleanupStates)]]
  BY DEF RollbackInv, TypeOK
<1>3. \A i \in ready : cleanup[i[1]][i[2]].st # "BLOCKED"
  BY DEF Waiting
<1>4. BlockedKept
  <2>1. \A m \in Mutation : \A s \in Store : cleanup[m][s].st = "BLOCKED"
           => <<m, s>> \notin ready
    BY <1>3
  <2>2. cleanup' = [m \in Mutation |-> [s \in Store |->
                      IF <<m, s>> \in ready THEN Claim(cleanup[m][s], w)
                      ELSE cleanup[m][s]]]
    BY <1>1
  <2> HIDE DEF ready
  <2> QED
    BY <2>1, <2>2 DEF BlockedKept
<1>5. ForwardKept
  <2> DEFINE row == IF ready = {} THEN Idle
                    ELSE [worker[w] EXCEPT !.pc = "clean", !.todo = ready]
  <2>1. worker' = [worker EXCEPT ![w] = row]
    BY <1>1, <1>2
  <2> HIDE DEF ready
  <2>2. row.pc \notin Forward
    <3>1. "clean" \notin Forward
      BY DEF Forward
    <3> QED
      BY <1>2, <3>1, IdleNotForward DEF WorkerRow
  <2> HIDE DEF row
  <2> QED
    BY <2>1, <2>2, ForwardMoves
<1>6. LedgerSafe
  BY LedgerMoves DEF ClaimCleanup
<1> QED
  BY <1>4, <1>5, <1>6, KeptSuffices

\* Finishing cleanup ends a rollback or blocks it; the single consumer has left
\* the forward path when it does (finish_artifact_cleanup).
LEMMA CleanHolds ==
  ASSUME RollbackInv, TypeOK', NEW w \in Worker, Clean(w), \A v, u \in Worker : v = u
  PROVE  Holding
<1>1. PICK m \in Mutation, s \in Store : ApplyCleanup(w, m, s) \/ FinishCleanup(w, m, s)
  BY DEF Clean
<1>2. /\ worker \in [Worker -> WorkerRow]
      /\ cleanup \in [Mutation -> [Store -> QueueRow(CleanupStates)]]
      /\ ledger \in [Mutation -> LedgerRow]
      /\ Bound(ledger[m])
  BY DEF RollbackInv, TypeOK, RunBindsMutation
<1>3. CASE ApplyCleanup(w, m, s)
  <2>1. PICK phase \in {"cleaned", "cleanFail"} : Begin(w, phase, <<m, s>>)
    BY <1>3 DEF ApplyCleanup
  <2>2. phase \notin Forward
    BY DEF Forward
  <2>3. ForwardKept
    BY <2>1, <2>2, ForwardMoves
  <2>4. LedgerSafe /\ BlockedKept
    BY <1>3, LedgerMoves DEF ApplyCleanup, BlockedKept
  <2> QED
    BY <2>3, <2>4, KeptSuffices
<1>4. CASE FinishCleanup(w, m, s)
  <2> DEFINE row == cleanup[m][s]
             failed == worker[w].pc = "cleanFail"
             blocked == failed /\ row.n >= RetryLimit
             rows == [cleanup EXCEPT ![m][s] =
                         Row(IF blocked THEN "BLOCKED"
                             ELSE IF failed THEN "RETRY_PENDING" ELSE "COMPLETED", row.n)]
             finished == \A x \in Store : rows[m][x].st \in {"NONE", "COMPLETED"}
             moved == IF blocked THEN MoveBoth(ledger[m], "BLOCKED")
                      ELSE IF ~failed /\ finished THEN MoveBoth(ledger[m], "ROLLED_BACK")
                      ELSE ledger[m]
  <2>1. worker'[w].pc \notin Forward
    <3>1. "clean" \notin Forward
      BY DEF Forward
    <3>2. worker'[w].pc = "clean" \/ worker'[w] = Idle
      BY <1>2, <1>4 DEF FinishCleanup, WorkerRow
    <3> QED
      BY <3>1, <3>2, IdleNotForward
  <2>2. \A v \in Worker : worker'[v].pc \notin Forward
    BY <2>1
  <2>3. CASE ~Holds(w, row)
    <3>1. UNCHANGED <<ledger, cleanup>>
      BY <1>4, <2>3 DEF FinishCleanup
    <3>2. LedgerSafe /\ BlockedKept
      BY <3>1, LedgerMoves DEF BlockedKept
    <3> QED
      BY <2>2, <3>2, KeptSuffices DEF ForwardKept
  <2>4. CASE Holds(w, row)
    <3>1. cleanup' = rows /\ ledger' = [ledger EXCEPT ![m] = moved]
      BY <1>2, <1>4, <2>4 DEF FinishCleanup
    <3>2. row.st # "BLOCKED"
      BY <2>4 DEF Holds
    <3>3. CASE blocked
      <4>1. cleanup'[m][s].st = "BLOCKED"
        BY <1>2, <3>1, <3>3 DEF Row
      <4>2. moved = MoveBoth(ledger[m], "BLOCKED")
        BY <3>3
      <4>3. ForwardIsNotBlocked'
        BY <2>2 DEF ForwardIsNotBlocked
      <4>4. \A n \in Mutation \ {m} : cleanup'[n] = cleanup[n]
        BY <1>2, <3>1
      <4>5. Bound(moved) /\ (RollbackBegun(m) => Held(moved))
        BY <1>2, <4>2, BlockedMove, BegunHeld
      <4> HIDE DEF moved
      <4> QED
        BY <3>1, <4>1, <4>3, <4>4, <4>5, RowSuffices
    <3>4. CASE ~blocked
      <4>1. moved = ledger[m] \/ moved = MoveBoth(ledger[m], "ROLLED_BACK")
        BY <3>4
      <4>2. Safe(ledger[m], moved)
        <5> HIDE DEF moved
        <5>1. Safe(ledger[m], ledger[m])
          BY <1>2, SafeChain
        <5>2. Safe(ledger[m], MoveBoth(ledger[m], "ROLLED_BACK"))
          BY <1>2, SafeHandlers
        <5> QED
          BY <4>1, <5>1, <5>2
      <4>3. BlockedKept
        <5>1. \A n \in Mutation : \A x \in Store :
                 <<n, x>> # <<m, s>> => cleanup'[n][x] = cleanup[n][x]
          BY <1>2, <3>1
        <5> QED
          BY <3>2, <5>1 DEF BlockedKept
      <4> HIDE DEF moved
      <4>4. LedgerSafe
        BY <3>1, <4>2, LedgerMoves
      <4> QED
        BY <2>2, <4>3, <4>4, KeptSuffices DEF ForwardKept
    <3> QED
      BY <3>3, <3>4
  <2> QED
    BY <2>3, <2>4
<1> QED
  BY <1>1, <1>3, <1>4

-----------------------------------------------------------------------------
(* Requests and restart                                                    *)

\* Admission starts a row that nothing holds (admit_v4_memory).
LEMMA AdmitHolds ==
  ASSUME RollbackInv, TypeOK', NEW m \in Mutation, Admit(m)
  PROVE  Holding
<1> DEFINE row == [mut |-> "RECEIVED", run |-> "QUEUED"]
<1>1. ledger' = [ledger EXCEPT ![m] = row] /\ UNCHANGED <<cleanup, worker>>
      /\ ledger[m].mut = Absent
  BY DEF Admit, Admitted
<1>2. Safe(ledger[m], row)
  BY <1>1 DEF Safe, Bound, Held, Terminal, Absent
<1>3. LedgerSafe
  <2> HIDE DEF row
  <2> QED
    BY <1>1, <1>2, LedgerMoves
<1>4. ForwardKept /\ BlockedKept
  BY <1>1 DEF ForwardKept, BlockedKept
<1> QED
  BY <1>3, <1>4, KeptSuffices

\* A rollback request moves its row into the rollback (request_pipeline_rollback).
LEMMA RollBackHolds ==
  ASSUME RollbackInv, TypeOK', NEW m \in Mutation, RollBack(m)
  PROVE  Holding
<1> DEFINE rolling == MoveBoth(ledger[m], "ROLLING_BACK")
           over == MoveBoth(rolling, "ROLLED_BACK")
<1>1. ledger \in [Mutation -> LedgerRow] /\ Bound(ledger[m])
      /\ cleanup \in [Mutation -> [Store -> QueueRow(CleanupStates)]]
  BY DEF RollbackInv, TypeOK, RunBindsMutation
<1>2. \/ ledger' = [ledger EXCEPT ![m] = rolling]
      \/ ledger' = [ledger EXCEPT ![m] = over]
  BY DEF RollBack
<1>3. Safe(ledger[m], rolling) /\ rolling \in LedgerRow
  BY <1>1, RollingHolds, MoveType DEF MoveBoth
<1>4. Bound(rolling)
  BY <1>3 DEF Safe
<1>5. Safe(rolling, over)
  <2> HIDE DEF rolling
  <2> QED
    BY <1>3, <1>4, SafeHandlers
<1> HIDE DEF rolling, over
<1>6. Safe(ledger[m], over)
  BY <1>3, <1>5, SafeChain
<1>7. LedgerSafe
  BY <1>2, <1>3, <1>6, LedgerMoves
<1>8. ForwardKept
  BY DEF RollBack, ForwardKept
<1>9. BlockedKept
  BY <1>1 DEF RollBack, BlockedKept
<1> QED
  BY <1>7, <1>8, <1>9, KeptSuffices

\* A replay resumes the rollback of a run with blocked cleanup, and the forward
\* path only of a run without (replay_pipeline_run).
LEMMA ReplayHolds ==
  ASSUME RollbackInv, TypeOK', NEW m \in Mutation, Replay(m)
  PROVE  Holding
<1> DEFINE row == MoveBoth(ledger[m], Resumed(m))
<1>1. /\ ledger \in [Mutation -> LedgerRow] /\ Bound(ledger[m])
      /\ cleanup \in [Mutation -> [Store -> QueueRow(CleanupStates)]]
  BY DEF RollbackInv, TypeOK, RunBindsMutation
<1>2. /\ ledger[m].run \in {"DLQ", "BLOCKED"}
      /\ ledger' = [ledger EXCEPT ![m] = row]
      /\ worker' = worker
      /\ \A n \in Mutation \ {m} : cleanup'[n] = cleanup[n]
  BY <1>1 DEF Replay
<1>3. ASSUME Bound(row), RollbackBegun(m) => Held(row), row.run # "BLOCKED",
             row.mut = "BLOCKED" => ledger[m].mut = "BLOCKED"
      PROVE  Holding
  <2> HIDE DEF row
  <2>1. \A n \in Mutation : ledger'[n] = IF n = m THEN row ELSE ledger[n]
    BY <1>1, <1>2
  <2>2. ForwardIsNotBlocked'
    BY <1>2, <1>3, <2>1 DEF RollbackInv, ForwardIsNotBlocked
  <2> QED
    BY <1>2, <1>3, <2>2, RowSuffices
<1>4. CASE \E s \in Store : cleanup[m][s].st = "BLOCKED"
  <2> DEFINE moved == MoveRun(ledger[m], "ROLLING_BACK")
  <2>1. row = MoveMutation(moved, "ROLLING_BACK")
    BY <1>4 DEF Resumed, MoveBoth
  <2>2. moved.run = "ROLLING_BACK" /\ moved \in LedgerRow
    <3>1. "ROLLING_BACK" \in RunNext(ledger[m].run) /\ ledger[m] \in LedgerRow
      BY <1>1, <1>2 DEF RunNext, RunInterruptions
    <3> QED
      BY <3>1, MoveType DEF MoveRun, RunStep, LedgerRow
  <2>3. Safe(ledger[m], row)
    BY <1>1, <1>4, RollingHolds DEF Resumed
  <2>4. row.run # "BLOCKED"
    BY <2>1, <2>2, RecomputeKeepsRollback DEF MoveMutation, LedgerRow
  <2> HIDE DEF row
  <2> QED
    BY <1>3, <2>3, <2>4, BegunHeld DEF Safe
<1>5. CASE ~ \E s \in Store : cleanup[m][s].st = "BLOCKED"
  <2>1. ledger[m].run = "DLQ"
    BY <1>2, <1>5 DEF RollbackInv, BlockedByCleanup
  <2> DEFINE moved == MoveRun(ledger[m], "RETRY_PENDING")
  <2>2. row = MoveMutation(moved, "RETRY_PENDING")
    BY <1>5 DEF Resumed, MoveBoth
  <2>3. /\ moved.run = "RETRY_PENDING" /\ moved.mut = ledger[m].mut
        /\ moved \in LedgerRow
    <3>1. "RETRY_PENDING" \in RunNext(ledger[m].run) /\ ledger[m] \in LedgerRow
      BY <1>1, <2>1 DEF RunNext
    <3> QED
      BY <3>1, MoveType DEF MoveRun, RunStep, LedgerRow
  <2>4. ~RollbackBegun(m)
    BY <2>1 DEF RollbackBegun
  <2>5. row.run \notin {"ROLLING_BACK", "ROLLED_BACK", "BLOCKED"}
    BY <2>2, <2>3, RecomputeKeepsRollback DEF MoveMutation, LedgerRow
  <2>6. row.mut = ledger[m].mut \/ row.mut = "RETRY_PENDING"
    BY <2>2, <2>3 DEF MoveMutation
  <2>7. row.mut # Absent
    BY <1>1, <2>1, <2>6 DEF Bound, Absent
  <2> HIDE DEF row
  <2>8. Bound(row)
    BY <2>5, <2>7 DEF Bound
  <2> QED
    BY <1>3, <2>4, <2>5, <2>6, <2>8
<1> QED
  BY <1>4, <1>5

\* A purge moves mutations to where nothing moves them from (purge_v4_document).
LEMMA PurgeHolds ==
  ASSUME RollbackInv, TypeOK', NEW d \in Document, PurgeDocument(d)
  PROVE  Holding
<1>1. PICK purged : ledger' = [m \in Mutation |-> IF m \in purged
                                  THEN MoveMutation(ledger[m], "PURGED") ELSE ledger[m]]
  BY DEF PurgeDocument
<1>2. ASSUME NEW m \in Mutation
      PROVE  Safe(ledger[m], ledger'[m])
  <2>1. ledger[m] \in LedgerRow /\ Bound(ledger[m])
    BY DEF RollbackInv, TypeOK, RunBindsMutation
  <2>2. Safe(ledger[m], MoveMutation(ledger[m], "PURGED"))
    BY <2>1, SafeMutation
  <2>3. Safe(ledger[m], ledger[m])
    BY <2>1, SafeChain
  <2> QED
    BY <1>1, <2>2, <2>3
<1>3. LedgerSafe
  BY <1>2 DEF LedgerSafe
<1>4. ForwardKept /\ BlockedKept
  BY DEF PurgeDocument, ForwardKept, BlockedKept
<1> QED
  BY <1>3, <1>4, KeptSuffices

\* A restart requeues only committed rows and leaves every consumer idle
\* (reconcile_v4_projection_parity).
LEMMA RestartHolds ==
  ASSUME RollbackInv, TypeOK', Restart
  PROVE  Holding
<1>1. PICK next : ledger' = [m \in Mutation |->
                     IF Unparity(m, next) # {}
                     THEN MoveRun(MoveMutation(ledger[m], "RETRY_PENDING"), "RETRY_PENDING")
                     ELSE ledger[m]]
  BY DEF Restart
<1>2. ASSUME NEW m \in Mutation
      PROVE  Safe(ledger[m], ledger'[m])
  <2> DEFINE moved == MoveMutation(ledger[m], "RETRY_PENDING")
  <2>1. ledger[m] \in LedgerRow /\ Bound(ledger[m])
    BY DEF RollbackInv, TypeOK, RunBindsMutation
  <2>2. CASE Unparity(m, next) # {}
    <3>1. ledger[m].mut = "COMMITTED"
      BY <2>2 DEF Unparity
    <3>2. Safe(ledger[m], moved) /\ moved \in LedgerRow
      BY <2>1, <3>1, SafeMutation, MoveType
    <3>3. "RETRY_PENDING" \in RunStates \ {Absent, "ROLLING_BACK", "ROLLED_BACK", "BLOCKED"}
      BY DEF RunStates, Absent
    <3> HIDE DEF moved
    <3>4. Safe(moved, MoveRun(moved, "RETRY_PENDING"))
      BY <3>2, <3>3, SafeRun DEF Safe
    <3>5. Safe(ledger[m], MoveRun(moved, "RETRY_PENDING"))
      BY <3>2, <3>4, SafeChain
    <3>6. ledger'[m] = MoveRun(moved, "RETRY_PENDING")
      BY <1>1, <2>2 DEF moved
    <3> QED
      BY <3>5, <3>6
  <2>3. CASE Unparity(m, next) = {}
    BY <1>1, <2>1, <2>3, SafeChain
  <2> QED
    BY <2>2, <2>3
<1>3. LedgerSafe
  BY <1>2 DEF LedgerSafe
<1>4. \A w \in Worker : worker'[w].pc \notin Forward
  BY IdleNotForward DEF Restart
<1>5. ForwardKept /\ BlockedKept
  BY <1>4 DEF Restart, ForwardKept, BlockedKept
<1> QED
  BY <1>3, <1>5, KeptSuffices

-----------------------------------------------------------------------------
(* The theorem                                                             *)

\* Nothing has been admitted at first, and no consumer has begun.
LEMMA RollbackInit == Init => RollbackInv
<1> SUFFICES ASSUME Init PROVE RollbackInv
  OBVIOUS
<1>1. TypeOK
  BY TypeInit
<1>2. \A m \in Mutation : ledger[m] = [mut |-> Absent, run |-> Absent]
  BY DEF Init
<1>3. \A w \in Worker : worker[w].pc \notin Forward
  BY IdleNotForward DEF Init
<1> QED
  BY <1>1, <1>2, <1>3
     DEF RollbackInv, RunBindsMutation, Bound, BlockedByCleanup, ForwardIsNotBlocked, Absent

\* Every step keeps the invariant and revives nothing (ProjectionPipeline, Next).
LEMMA RollbackStep ==
  ASSUME RollbackInv, [Next]_vars, \A v, u \in Worker : v = u
  PROVE  Holding
<1>1. TypeOK'
  BY TypeStep DEF RollbackInv
<1>2. CASE UNCHANGED vars
  <2>1. LedgerSafe
    BY <1>2, LedgerMoves DEF vars
  <2>2. ForwardKept /\ BlockedKept
    BY <1>2 DEF vars, ForwardKept, BlockedKept
  <2> QED
    BY <1>1, <2>1, <2>2, KeptSuffices
<1>3. CASE \E w \in Worker : Consume(w)
  <2>1. PICK w \in Worker : Consume(w)
    BY <1>3
  <2> QED
    BY <1>1, <2>1, ColdPathHolds, ClaimLanesHolds, ProjectHolds, ClaimCleanupHolds,
       CleanHolds
       DEF Consume
<1>4. CASE Request
  <2>1. CASE \E m \in Mutation : Admit(m)
    BY <1>1, <2>1, AdmitHolds
  <2>2. CASE \E m \in Mutation : RequestRollback(m)
    BY <1>1, <2>2, RollBackHolds DEF RequestRollback
  <2>3. CASE \E m \in Mutation : Replay(m)
    BY <1>1, <2>3, ReplayHolds
  <2>4. CASE \E m \in Mutation : PurgeRollback(m)
    <3>1. PICK m \in Mutation : PurgeRollback(m)
      BY <2>4
    <3>2. CASE RollBack(m)
      BY <1>1, <3>2, RollBackHolds
    <3>3. CASE UNCHANGED <<ledger, cleanup, worker>>
      <4>1. LedgerSafe /\ ForwardKept /\ BlockedKept
        BY <3>3, LedgerMoves DEF ForwardKept, BlockedKept
      <4> QED
        BY <1>1, <4>1, KeptSuffices
    <3> QED
      BY <3>1, <3>2, <3>3 DEF PurgeRollback
  <2>5. CASE \E d \in Document : PurgeDocument(d)
    BY <1>1, <2>5, PurgeHolds
  <2> QED
    BY <1>4, <2>1, <2>2, <2>3, <2>4, <2>5 DEF Request
<1>5. CASE Restart
  BY <1>1, <1>5, RestartHolds
<1> QED
  BY <1>2, <1>3, <1>4, <1>5 DEF Next

\* With the one consumer the combined runtime runs, no completion, failure
\* report, replay or parity repair of dao.py revives a mutation whose rollback
\* has begun, however many mutations, revisions and attempts there are.
THEOREM RollbackHolds ==
  ASSUME \A v, u \in Worker : v = u
  PROVE  Spec => NoResurrection
<1>1. Init => RollbackInv
  BY RollbackInit
<1>2. RollbackInv /\ [Next]_vars => RollbackInv'
  BY RollbackStep DEF Holding
<1>3. RollbackInv /\ [Next]_vars =>
         [\A m \in Mutation : RollbackBegun(m) =>
             ledger'[m].mut \in Terminal \cup {"BLOCKED"}]_vars
  BY RollbackStep DEF Holding, Held
<1> QED
  BY <1>1, <1>2, <1>3, PTL DEF Spec, NoResurrection
=============================================================================
