---------------------------- MODULE CommitProofs ----------------------------
(***************************************************************************)
(* What the pipeline says of its mutations and documents, for every set of *)
(* mutations, revisions, documents and profiles and every limit.           *)
(*                                                                         *)
(* Of a mutation: a rolled back run is clean, a committed mutation is in   *)
(* the stores its lanes projected it to, and it stays committed.  First    *)
(* the two halves of a row and the local data of a consumer, then what     *)
(* moves each durable table, then LiveInv: who holds what of a mutation    *)
(* nothing has stopped, then its assertion and its derived artifacts.      *)
(*                                                                         *)
(* Of a document: its history is one line of descent that ends at the      *)
(* head, and assertions follow their revisions.                            *)
(***************************************************************************)
EXTENDS ProjectionPipelineProofs

-----------------------------------------------------------------------------
(* What a mutation and its run say of each other                           *)

\* The states of a mutation whose run still makes progress.
Progress == {"RECEIVED", "EXTRACTED", "VALIDATED", "PENDING", "SQL_APPLIED",
             "VECTOR_APPLIED", "GRAPH_APPLIED", "COMMITTED", "RETRY_PENDING"}

\* A row whose two halves the handlers keep together.
Matched(row) ==
    /\ Bound(row)
    /\ row.run = Absent => row.mut = Absent
    /\ row.run \notin {"PURGED", "CANCELLED"}
    /\ row.mut \in Progress => row.run \notin {"DLQ", "BLOCKED"}
    /\ row.mut = "COMMITTED" => row.run = "COMMITTED"
    /\ row.run = "COMMITTED" => row.mut \in {"COMMITTED", "PURGED"}
    /\ row.mut = "ROLLING_BACK" => row.run = "ROLLING_BACK"
    /\ row.mut = "ROLLED_BACK" => row.run = "ROLLED_BACK"
    /\ row.mut = "BLOCKED" => row.run = "BLOCKED"
LedgerMatches == \A m \in Mutation : Matched(ledger[m])

\* Where a verdict, a dead dispatch or a purge may send a mutation.
Verdicts == {"EXTRACTED", "VALIDATED", "REJECTED", "RETRY_PENDING", "DEAD_LETTER", "PURGED"}

\* Every way a handler changes the row of an admitted mutation.
Moves(row) ==
    {row, Reopened(row), MoveBoth(MoveBoth(row, "ROLLING_BACK"), "ROLLED_BACK"),
     MoveRun(MoveMutation(row, "RETRY_PENDING"), "RETRY_PENDING"),
     Failed(row, TRUE), Failed(row, FALSE)}
    \cup {MoveBoth(row, to) : to \in {"ROLLED_BACK", "BLOCKED", "ROLLING_BACK", "RETRY_PENDING"}}
    \cup {MoveMutation(row, to) : to \in Verdicts}
    \cup {Refreshed(MoveMutation(row, to)) : to \in Verdicts}
    \cup {Advance(row, done) : done \in SUBSET Store}

\* The run a single mutation asks for (_recompute_pipeline_state_in_tx).
LEMMA AggregateOne ==
  ASSUME NEW to
  PROVE  /\ AggregateState({to}) = "COMMITTED" <=> to = "COMMITTED"
         /\ AggregateState({to}) = "DLQ" <=> to \in {"DEAD_LETTER", "BLOCKED", "REJECTED"}
         /\ AggregateState({to}) = "RETRY_PENDING" <=> to = "RETRY_PENDING"
         /\ AggregateState({to}) \in {"COMMITTED", "DLQ", "RETRY_PENDING", "PROJECTING",
                                      "VALIDATED", "EXTRACTED", "RUNNING"}
  BY DEF AggregateState

\* The run "new" that recomputing the run of one mutation may leave.
Recomputed(run, to, new) ==
    /\ new \in {"ROLLING_BACK", "ROLLED_BACK", "BLOCKED", "PURGED", "CANCELLED", Absent}
          => new = run
    /\ new = "DLQ" => run = "DLQ" \/ to \in {"DEAD_LETTER", "BLOCKED", "REJECTED"}
    /\ new = "COMMITTED" => run = "COMMITTED" \/ to = "COMMITTED"
    /\ run \in {"ROLLING_BACK", "ROLLED_BACK", "PURGED", "CANCELLED", Absent} => new = run
    /\ run \in {"BLOCKED", "DLQ", "COMMITTED"} =>
          new = IF to = "RETRY_PENDING" THEN to ELSE run
    /\ to = "COMMITTED" /\ run \notin {"ROLLING_BACK", "ROLLED_BACK", "BLOCKED", "DLQ",
                                       "PURGED", "CANCELLED", Absent}
          => new = "COMMITTED"

\* What recomputing a run from its one mutation does to it
\* (_recompute_pipeline_state_in_tx).
LEMMA RecomputeOne ==
  ASSUME NEW run \in RunStates, NEW to
  PROVE  Recomputed(run, to, Recompute(run, {to}))
<1> DEFINE target == AggregateState({to})
<1>1. /\ target = "COMMITTED" <=> to = "COMMITTED"
      /\ target = "DLQ" <=> to \in {"DEAD_LETTER", "BLOCKED", "REJECTED"}
      /\ target = "RETRY_PENDING" <=> to = "RETRY_PENDING"
      /\ target \in {"COMMITTED", "DLQ", "RETRY_PENDING", "PROJECTING", "VALIDATED",
                     "EXTRACTED", "RUNNING"}
  BY AggregateOne
<1>2. Recompute(run, {to}) =
         RunStep(IF run = "QUEUED"
                    /\ target \in {"EXTRACTED", "VALIDATED", "PROJECTING", "COMMITTED"}
                 THEN "RUNNING" ELSE run, target)
  BY DEF Recompute
<1> HIDE DEF target
<1> QED
  BY <1>1, <1>2 DEF Recomputed, RunStep, RunNext, RunInterruptions, RunStates, Absent

\* Recomputing the run keeps a row matched.
LEMMA MatchedRefresh ==
  ASSUME NEW row \in LedgerRow, Matched(row)
  PROVE  Matched(Refreshed(row))
<1> DEFINE run == Recompute(row.run, {row.mut})
<1>1. Refreshed(row) = [mut |-> row.mut, run |-> run]
  BY DEF Refreshed, LedgerRow
<1>2. Recomputed(row.run, row.mut, run)
  BY RecomputeOne DEF LedgerRow
<1> HIDE DEF run
<1> QED
  BY <1>1, <1>2 DEF Recomputed, Matched, Bound, Held, Terminal, Progress, Absent

\* A transition of the mutation alone keeps the halves together.
LEMMA MatchedMutation ==
  ASSUME NEW row \in LedgerRow, Matched(row), NEW to \in Verdicts
  PROVE  Matched(MoveMutation(row, to))
<1>1. CASE to \notin MutationNext(row.mut)
  BY <1>1 DEF MoveMutation
<1>2. CASE to \in MutationNext(row.mut)
  <2> DEFINE run == Recompute(row.run, {to})
  <2>1. MoveMutation(row, to) = [mut |-> to, run |-> run]
    BY <1>2 DEF MoveMutation
  <2>2. Recomputed(row.run, to, run)
    BY RecomputeOne DEF LedgerRow
  <2> HIDE DEF run
  <2>3. row.mut \in MutationStates
    BY DEF LedgerRow
  <2>4. /\ row.mut \notin {"ROLLING_BACK", "ROLLED_BACK", "PURGED", Absent}
        /\ row.mut \in Terminal => to \in Terminal
        /\ to \in {"EXTRACTED", "VALIDATED"} => row.mut \in Progress \ {"COMMITTED"}
        /\ row.mut = "COMMITTED" => to \in {"RETRY_PENDING", "PURGED"}
    BY <1>2, <2>3 DEF MutationNext, Interruptions, Verdicts, Terminal, Progress, Absent
  <2> QED
    BY <2>1, <2>2, <2>4
       DEF Recomputed, Matched, Bound, Held, Terminal, Progress, Verdicts, Absent
<1> QED
  BY <1>1, <1>2

\* Both halves moved to the state that a rollback, its end, its blocked cleanup
\* or a replay asks for.
LEMMA MatchedBoth ==
  ASSUME NEW row \in LedgerRow, Matched(row),
         NEW to \in {"ROLLED_BACK", "BLOCKED", "ROLLING_BACK", "RETRY_PENDING"}
  PROVE  Matched(MoveBoth(row, to))
<1> DEFINE first == RunStep(row.run, to)
           run == Recompute(first, {to})
<1>1. row.mut \in MutationStates /\ row.run \in RunStates
  BY DEF LedgerRow
<1>2. MoveRun(row, to) = [mut |-> row.mut, run |-> first] /\ first \in RunStates
  BY MoveType DEF MoveRun, LedgerRow
<1>3. MoveBoth(row, to) = IF to \in MutationNext(row.mut)
                          THEN [mut |-> to, run |-> run]
                          ELSE [mut |-> row.mut, run |-> first]
  BY <1>2 DEF MoveBoth, MoveMutation
<1>4. Recomputed(first, to, run)
  BY <1>2, RecomputeOne
<1>5. first = IF to \in RunNext(row.run) THEN to ELSE row.run
  BY DEF RunStep
<1>6. /\ to = "ROLLED_BACK" => first = IF row.run = "ROLLING_BACK" THEN to ELSE row.run
      /\ to = "BLOCKED" => first = IF row.run \in {"ROLLED_BACK", "PURGED", "CANCELLED",
                                                   "COMMITTED", Absent}
                                   THEN row.run ELSE to
      /\ to = "ROLLING_BACK" => first = IF row.run \in {"ROLLED_BACK", "PURGED",
                                                        "CANCELLED", Absent}
                                        THEN row.run ELSE to
      /\ to = "RETRY_PENDING" => first = IF row.run \in {"ROLLING_BACK", "ROLLED_BACK",
                                                         "PURGED", "CANCELLED", Absent}
                                         THEN row.run ELSE to
  BY <1>1, <1>5 DEF RunNext, RunInterruptions, RunStates, Absent
<1> HIDE DEF first, run
<1>7. CASE to = "ROLLED_BACK"
  <2>1. to \in MutationNext(row.mut) <=> row.mut = "ROLLING_BACK"
    BY <1>1, <1>7 DEF MutationNext, Interruptions, MutationStates, Absent
  <2> QED
    BY <1>1, <1>3, <1>4, <1>6, <1>7, <2>1
       DEF Recomputed, Matched, Bound, Held, Terminal, Progress, Absent
<1>8. CASE to = "BLOCKED"
  <2>1. to \in MutationNext(row.mut) <=>
           row.mut \notin {"COMMITTED", "DEAD_LETTER", "BLOCKED", Absent} \cup (Terminal \ {"ROLLING_BACK"})
    BY <1>1, <1>8 DEF MutationNext, Interruptions, MutationStates, Terminal, Absent
  <2> QED
    BY <1>1, <1>3, <1>4, <1>6, <1>8, <2>1
       DEF Recomputed, Matched, Bound, Held, Terminal, Progress, Absent
<1>9. CASE to = "ROLLING_BACK"
  <2>1. to \in MutationNext(row.mut) <=> row.mut \notin Terminal \cup {Absent}
    BY <1>1, <1>9 DEF MutationNext, Interruptions, MutationStates, Terminal, Absent
  <2> QED
    BY <1>1, <1>3, <1>4, <1>6, <1>9, <2>1
       DEF Recomputed, Matched, Bound, Held, Terminal, Progress, Absent
<1>10. CASE to = "RETRY_PENDING"
  <2>1. to \in MutationNext(row.mut) <=> row.mut \notin Terminal \cup {"RETRY_PENDING", Absent}
    BY <1>1, <1>10 DEF MutationNext, Interruptions, MutationStates, Terminal, Absent
  <2> QED
    BY <1>1, <1>3, <1>4, <1>6, <1>10, <2>1
       DEF Recomputed, Matched, Bound, Held, Terminal, Progress, Absent
<1> QED
  BY <1>7, <1>8, <1>9, <1>10

\* A failed lane takes its mutation with it (fail_projection_outbox), and a
\* parity repair takes a committed one (reconcile_v4_projection_parity).
LEMMA MatchedFailure ==
  ASSUME NEW row \in LedgerRow, Matched(row)
  PROVE  /\ Matched(MoveRun(MoveMutation(row, "RETRY_PENDING"), "RETRY_PENDING"))
         /\ \A dead \in BOOLEAN : Matched(Failed(row, dead))
<1>1. row.mut \in MutationStates
  BY DEF LedgerRow
<1>2. Matched(MoveRun(MoveMutation(row, "RETRY_PENDING"), "RETRY_PENDING"))
  <2> DEFINE moved == MoveMutation(row, "RETRY_PENDING")
             run == RunStep(moved.run, "RETRY_PENDING")
  <2>1. moved \in LedgerRow /\ Matched(moved)
    BY MatchedMutation, MoveType DEF Verdicts
  <2>2. moved.mut \in Terminal \cup {"RETRY_PENDING", Absent}
    BY <1>1 DEF MoveMutation, MutationNext, Interruptions, MutationStates, Terminal, Absent
  <2>3. run = IF moved.run \in {"ROLLING_BACK", "ROLLED_BACK", "PURGED", "CANCELLED", Absent}
              THEN moved.run ELSE "RETRY_PENDING"
    BY <2>1 DEF RunStep, RunNext, RunInterruptions, RunStates, LedgerRow, Absent
  <2>4. MoveRun(moved, "RETRY_PENDING") = [mut |-> moved.mut, run |-> run]
    BY <2>1 DEF MoveRun, LedgerRow
  <2> HIDE DEF moved, run
  <2>5. Matched(MoveRun(moved, "RETRY_PENDING"))
    BY <2>1, <2>2, <2>3, <2>4 DEF Matched, Bound, Held, Terminal, Progress, Absent
  <2> QED
    BY <2>5 DEF moved
<1>3. ASSUME row.mut # "COMMITTED"
      PROVE  Matched(MoveRun(MoveMutation(row, "DEAD_LETTER"), "DLQ"))
  <2> DEFINE moved == MoveMutation(row, "DEAD_LETTER")
             run == RunStep(moved.run, "DLQ")
  <2>1. moved \in LedgerRow /\ Matched(moved)
    BY MatchedMutation, MoveType DEF Verdicts
  <2>2. moved.mut \in Terminal \cup {"DEAD_LETTER", "BLOCKED", Absent}
    BY <1>1, <1>3 DEF MoveMutation, MutationNext, Interruptions, MutationStates, Terminal, Absent
  <2>3. run = IF moved.run \in {"ROLLING_BACK", "ROLLED_BACK", "BLOCKED", "COMMITTED", "PURGED",
                                "CANCELLED", Absent}
              THEN moved.run ELSE "DLQ"
    BY <2>1 DEF RunStep, RunNext, RunInterruptions, RunStates, LedgerRow, Absent
  <2>4. MoveRun(moved, "DLQ") = [mut |-> moved.mut, run |-> run]
    BY <2>1 DEF MoveRun, LedgerRow
  <2> HIDE DEF moved, run
  <2>5. Matched(MoveRun(moved, "DLQ"))
    BY <2>1, <2>2, <2>3, <2>4 DEF Matched, Bound, Held, Terminal, Progress, Absent
  <2> QED
    BY <2>5 DEF moved
<1>4. \A dead \in BOOLEAN : Failed(row, dead) \in
         {row, MoveRun(MoveMutation(row, "DEAD_LETTER"), "DLQ"),
          MoveRun(MoveMutation(row, "RETRY_PENDING"), "RETRY_PENDING")}
      /\ (row.mut = "COMMITTED" => Failed(row, dead) = row)
  BY DEF Failed
<1> QED
  BY <1>2, <1>3, <1>4

\* A completed lane takes the mutation to its next milestones and the run with
\* it (_advance_mutation_projection_state).
LEMMA MatchedAdvance ==
  ASSUME NEW row \in LedgerRow, Matched(row), NEW done
  PROVE  Matched(Advance(row, done))
<1> DEFINE last == Walk(row.mut, done)
           run == Recompute(row.run, {last})
<1>1. CASE Advance(row, done) = row
  BY <1>1
<1>2. CASE /\ row.mut \in DOMAIN Reached /\ ~RowTerminal(row)
           /\ Advance(row, done) = [mut |-> last, run |-> run]
  <2>1. last \in DOMAIN Reached
    BY <1>2, WalkType
  <2>2. DOMAIN Reached \subseteq Progress /\ DOMAIN Reached \cap (Terminal \cup {Absent}) = {}
    BY DEF Reached, Progress, Terminal, Absent
  <2>3. row.mut = "COMMITTED" => last = "COMMITTED"
    <3>1. Reached["COMMITTED"] = 4
      BY DEF Reached
    <3>2. Ahead("COMMITTED") = {}
      BY <3>1 DEF Ahead
    <3> QED
      BY <3>2 DEF Walk
  <2>4. Recomputed(row.run, last, run)
    BY RecomputeOne DEF LedgerRow
  <2> HIDE DEF last, run
  <2> QED
    BY <1>2, <2>1, <2>2, <2>3, <2>4
       DEF RowTerminal, Recomputed, Matched, Bound, Held, Terminal, Progress, Absent
<1> QED
  BY <1>1, <1>2 DEF Advance

\* Every change a handler makes to a row keeps its halves together.
LEMMA MatchedMoves ==
  ASSUME NEW row \in LedgerRow, Matched(row), NEW new \in Moves(row)
  PROVE  Matched(new) /\ new \in LedgerRow
<1>2. Matched(Reopened(row)) /\ Reopened(row) \in LedgerRow
  <2>1. Reopened(row) \in LedgerRow
    BY DEF Reopened, LedgerRow, MutationStates, RunStates
  <2> QED
    BY <2>1 DEF Reopened, Matched, Bound, Held, Terminal, Progress, Absent
<1>3. \A to \in Verdicts : /\ Matched(MoveMutation(row, to))
                           /\ MoveMutation(row, to) \in LedgerRow
                           /\ Matched(Refreshed(MoveMutation(row, to)))
                           /\ Refreshed(MoveMutation(row, to)) \in LedgerRow
  BY MatchedMutation, MatchedRefresh, MoveType
<1>4. \A to \in {"ROLLED_BACK", "BLOCKED", "ROLLING_BACK", "RETRY_PENDING"} :
         Matched(MoveBoth(row, to)) /\ MoveBoth(row, to) \in LedgerRow
  BY MatchedBoth, MoveType
<1>5. /\ Matched(MoveBoth(MoveBoth(row, "ROLLING_BACK"), "ROLLED_BACK"))
      /\ MoveBoth(MoveBoth(row, "ROLLING_BACK"), "ROLLED_BACK") \in LedgerRow
  BY <1>4, MatchedBoth, MoveType
<1>6. /\ Matched(MoveRun(MoveMutation(row, "RETRY_PENDING"), "RETRY_PENDING"))
      /\ MoveRun(MoveMutation(row, "RETRY_PENDING"), "RETRY_PENDING") \in LedgerRow
      /\ \A dead \in BOOLEAN : Matched(Failed(row, dead)) /\ Failed(row, dead) \in LedgerRow
  BY MatchedFailure, MoveType DEF Failed
<1>7. \A done : Matched(Advance(row, done)) /\ Advance(row, done) \in LedgerRow
  BY MatchedAdvance, AdvanceType
<1>8. CASE new \in {row, Reopened(row), MoveBoth(MoveBoth(row, "ROLLING_BACK"), "ROLLED_BACK"),
                    MoveRun(MoveMutation(row, "RETRY_PENDING"), "RETRY_PENDING"),
                    Failed(row, TRUE), Failed(row, FALSE)}
  BY <1>2, <1>5, <1>6, <1>8
<1>9. CASE \E to \in Verdicts : new = MoveMutation(row, to) \/ new = Refreshed(MoveMutation(row, to))
  BY <1>3, <1>9
<1>10. CASE \E to \in {"ROLLED_BACK", "BLOCKED", "ROLLING_BACK", "RETRY_PENDING"} : new = MoveBoth(row, to)
  BY <1>4, <1>10
<1>11. CASE \E done : new = Advance(row, done)
  BY <1>7, <1>11
<1> QED
  BY <1>8, <1>9, <1>10, <1>11 DEF Moves

\* The changes of a row, by name.
LEMMA MovesOf ==
  ASSUME NEW row
  PROVE  /\ row \in Moves(row)
         /\ Reopened(row) \in Moves(row)
         /\ MoveBoth(MoveBoth(row, "ROLLING_BACK"), "ROLLED_BACK") \in Moves(row)
         /\ MoveRun(MoveMutation(row, "RETRY_PENDING"), "RETRY_PENDING") \in Moves(row)
         /\ \A dead \in BOOLEAN : Failed(row, dead) \in Moves(row)
         /\ \A to \in {"ROLLED_BACK", "BLOCKED", "ROLLING_BACK", "RETRY_PENDING"} :
               MoveBoth(row, to) \in Moves(row)
         /\ \A to \in Verdicts : /\ MoveMutation(row, to) \in Moves(row)
                                 /\ Refreshed(MoveMutation(row, to)) \in Moves(row)
         /\ \A done \in SUBSET Store : Advance(row, done) \in Moves(row)
  BY DEF Moves

LedgerMoved == \A m \in Mutation :
    \/ ledger'[m] \in Moves(ledger[m])
    \/ /\ Admit(m) /\ ~Admitted(m)
       /\ ledger'[m] = [mut |-> "RECEIVED", run |-> "QUEUED"]

\* A ledger that stays, or changes in one row.
LEMMA OneRowMoves ==
  ASSUME TypeOK
  PROVE  /\ UNCHANGED ledger => LedgerMoved
         /\ \A m \in Mutation : \A row \in Moves(ledger[m]) :
               ledger' = [ledger EXCEPT ![m] = row] => LedgerMoved
<1>1. \A m \in Mutation : ledger[m] \in Moves(ledger[m])
  BY MovesOf
<1>2. ledger \in [Mutation -> LedgerRow]
  BY DEF TypeOK
<1> QED
  BY <1>1, <1>2 DEF LedgerMoved

\* A verdict is one of the changes (set_mutation_state).
LEMMA JudgedMoves ==
  ASSUME TypeOK, NEW m \in Mutation, NEW to \in Verdicts, ledger' = Judged(m, to)
  PROVE  LedgerMoved
<1> DEFINE row == IF MutationMayBe(ledger[m], to)
                  THEN Refreshed(MoveMutation(ledger[m], to)) ELSE ledger[m]
<1>1. ledger' = [ledger EXCEPT ![m] = row]
  BY DEF Judged, TypeOK
<1>2. row \in Moves(ledger[m])
  BY MovesOf
<1> QED
  BY <1>1, <1>2, OneRowMoves

\* What the cold path, a lane and a cleanup do to the ledger.
LEMMA ConsumeMoves ==
  ASSUME TypeOK, NEW w \in Worker, Consume(w)
  PROVE  LedgerMoved
<1>1. ledger \in [Mutation -> LedgerRow]
  BY DEF TypeOK
<1>2. ASSUME NEW m \in Mutation, ColdExtract(w, m) PROVE LedgerMoved
  <2>1. {"EXTRACTED", "RETRY_PENDING"} \subseteq Verdicts
    BY DEF Verdicts
  <2> QED
    BY <1>1, <1>2, <2>1, MovesOf, OneRowMoves, JudgedMoves DEF ColdExtract
<1>3. ASSUME NEW m \in Mutation, ColdJudge(w, m) PROVE LedgerMoved
  <2>1. ledger' = ledger \/ \E to \in {"VALIDATED", "REJECTED", "RETRY_PENDING"} :
                               ledger' = Judged(m, to)
    BY <1>3 DEF ColdJudge
  <2>2. {"VALIDATED", "REJECTED", "RETRY_PENDING"} \subseteq Verdicts
    BY DEF Verdicts
  <2> QED
    BY <2>1, <2>2, JudgedMoves, OneRowMoves
<1>4. ASSUME NEW m \in Mutation, ColdUnverified(w, m) PROVE LedgerMoved
  BY <1>1, <1>4, MovesOf, OneRowMoves DEF ColdUnverified, Verdicts
<1>5. ASSUME NEW m \in Mutation, NEW s \in Store, SettleUndo(w, m, s) \/ SettleFence(w, m, s)
      PROVE  LedgerMoved
  <2>1. \/ ledger' = ledger
        \/ ledger' = [ledger EXCEPT ![m] = MoveBoth(ledger[m], "ROLLED_BACK")]
        \/ ledger' = [ledger EXCEPT ![m] = Reopened(ledger[m])]
    BY <1>1, <1>5 DEF SettleUndo, SettleFence, FinalizeCompensation, EnqueueUnowned
  <2> QED
    BY <2>1, MovesOf, OneRowMoves
<1>6. ASSUME NEW m \in Mutation, NEW s \in Store, FailLane(w, m, s) PROVE LedgerMoved
  <2>1. \/ ledger' = ledger
        \/ \E dead \in BOOLEAN : ledger' = [ledger EXCEPT ![m] = Failed(ledger[m], dead)]
    BY <1>1, <1>6 DEF FailLane
  <2> QED
    BY <2>1, MovesOf, OneRowMoves
<1>7. ASSUME NEW m \in Mutation, NEW s \in Store, SkipLane(w, m, s) \/ FinishLane(w, m, s)
      PROVE  LedgerMoved
  <2>1. PICK outcome : CompleteLane(w, m, s, outcome)
    BY <1>7 DEF SkipLane, FinishLane
  <2>2. \/ ledger' = ledger
        \/ \E rows : ledger' = [ledger EXCEPT ![m] = Advance(ledger[m], Finished(rows))]
    BY <2>1 DEF CompleteLane
  <2>3. \A rows : Finished(rows) \in SUBSET Store
    BY DEF Finished
  <2> QED
    BY <2>2, <2>3, MovesOf, OneRowMoves
<1>8. ASSUME NEW m \in Mutation, NEW s \in Store, FinishCleanup(w, m, s) PROVE LedgerMoved
  <2>1. \/ ledger' = ledger
        \/ ledger' = [ledger EXCEPT ![m] = MoveBoth(ledger[m], "BLOCKED")]
        \/ ledger' = [ledger EXCEPT ![m] = MoveBoth(ledger[m], "ROLLED_BACK")]
    BY <1>1, <1>8 DEF FinishCleanup
  <2> QED
    BY <2>1, MovesOf, OneRowMoves
<1>9. UNCHANGED ledger => LedgerMoved
  BY OneRowMoves
<1>10. CASE ColdPath(w)
  BY <1>2, <1>3, <1>4, <1>9, <1>10 DEF ColdPath, ColdLoad, ColdVerified
<1>11. CASE Project(w)
  <2>1. PICK m \in Mutation, s \in Store :
           \/ StartLane(w, m, s) \/ ListAssertions(w, m, s) \/ CheckFence(w, m, s)
           \/ WriteArtifact(w, m, s) \/ RecordArtifact(w, m, s) \/ CommitGraph(w, m)
           \/ UndoWrite(w, m, s) \/ SettleUndo(w, m, s) \/ FailLane(w, m, s)
           \/ SkipLane(w, m, s) \/ FinishLane(w, m, s)
           \/ DeleteProjected(w, m, s) \/ SettleFence(w, m, s)
    BY <1>11 DEF Project
  <2>2. \/ StartLane(w, m, s) \/ ListAssertions(w, m, s) \/ CheckFence(w, m, s)
        \/ WriteArtifact(w, m, s) \/ RecordArtifact(w, m, s) \/ CommitGraph(w, m)
        \/ UndoWrite(w, m, s) \/ DeleteProjected(w, m, s)
        => UNCHANGED ledger
    BY DEF StartLane, ListAssertions, CheckFence, WriteArtifact, RecordArtifact,
           CommitGraph, UndoWrite, DeleteProjected
  <2> QED
    BY <1>5, <1>6, <1>7, <1>9, <2>1, <2>2
<1>12. CASE Clean(w)
  BY <1>8, <1>9, <1>12 DEF Clean, ApplyCleanup
<1>13. CASE ClaimLanes(w) \/ ClaimCleanup(w)
  BY <1>9, <1>13 DEF ClaimLanes, ClaimCleanup
<1> QED
  BY <1>10, <1>11, <1>12, <1>13 DEF Consume

\* What a rollback request does to the ledger (request_pipeline_rollback).
LEMMA RollBackMoves ==
  ASSUME TypeOK, NEW m \in Mutation, RollBack(m)
  PROVE  LedgerMoved
<1>1. \/ ledger' = [ledger EXCEPT ![m] = MoveBoth(ledger[m], "ROLLING_BACK")]
      \/ ledger' = [ledger EXCEPT ![m] = MoveBoth(MoveBoth(ledger[m], "ROLLING_BACK"), "ROLLED_BACK")]
  BY DEF RollBack
<1> QED
  BY <1>1, MovesOf, OneRowMoves

\* Every step changes a row the way some handler does, or admits it.
LEMMA StepMoves ==
  ASSUME TypeOK, [Next]_vars
  PROVE  LedgerMoved
<1>1. ledger \in [Mutation -> LedgerRow]
  BY DEF TypeOK
<1>2. CASE UNCHANGED ledger
  BY <1>2, OneRowMoves
<1>3. CASE \E w \in Worker : Consume(w)
  BY <1>3, ConsumeMoves
<1>4. ASSUME NEW m \in Mutation, Admit(m) PROVE LedgerMoved
  <2>1. ~Admitted(m) /\ ledger' = [ledger EXCEPT ![m] = [mut |-> "RECEIVED", run |-> "QUEUED"]]
    BY <1>4 DEF Admit
  <2>2. \A n \in Mutation : ledger[n] \in Moves(ledger[n])
    BY MovesOf
  <2> QED
    BY <1>1, <1>4, <2>1, <2>2 DEF LedgerMoved
<1>5. ASSUME NEW m \in Mutation, Replay(m) PROVE LedgerMoved
  <2>1. \/ ledger' = [ledger EXCEPT ![m] = MoveBoth(ledger[m], "ROLLING_BACK")]
        \/ ledger' = [ledger EXCEPT ![m] = MoveBoth(ledger[m], "RETRY_PENDING")]
    BY <1>5 DEF Replay, Resumed
  <2> QED
    BY <2>1, MovesOf, OneRowMoves
<1>6. ASSUME NEW m \in Mutation, RequestRollback(m) \/ PurgeRollback(m) PROVE LedgerMoved
  BY <1>6, RollBackMoves, OneRowMoves DEF RequestRollback, PurgeRollback
<1>7. ASSUME NEW d \in Document, PurgeDocument(d) PROVE LedgerMoved
  <2>1. PICK purged : ledger' = [m \in Mutation |-> IF m \in purged
                                   THEN MoveMutation(ledger[m], "PURGED") ELSE ledger[m]]
    BY <1>7 DEF PurgeDocument
  <2> QED
    BY <2>1, MovesOf DEF LedgerMoved, Verdicts
<1>8. CASE Restart
  <2>1. PICK next : ledger' = [m \in Mutation |-> IF Unparity(m, next) # {}
                       THEN MoveRun(MoveMutation(ledger[m], "RETRY_PENDING"), "RETRY_PENDING")
                       ELSE ledger[m]]
    BY <1>8 DEF Restart
  <2> QED
    BY <2>1, MovesOf DEF LedgerMoved
<1> QED
  BY <1>2, <1>3, <1>4, <1>5, <1>6, <1>7, <1>8 DEF Next, Request, vars

\* The halves of every row match in every state.
LEMMA MatchesStep ==
  ASSUME TypeOK, LedgerMatches, [Next]_vars
  PROVE  LedgerMatches'
<1>1. LedgerMoved
  BY StepMoves
<1>2. Matched([mut |-> "RECEIVED", run |-> "QUEUED"])
  BY DEF Matched, Bound, Held, Progress, Terminal, Absent
<1> QED
  BY <1>1, <1>2, MatchedMoves DEF LedgerMoved, LedgerMatches, TypeOK

\* A change of the mutation starts at an admitted one, stays admitted, and keeps
\* a terminal one out of the forward path.
LEMMA MutationMoves ==
  ASSUME NEW row \in LedgerRow, NEW to
  PROVE  /\ MoveMutation(row, to).mut = Absent <=> row.mut = Absent
         /\ row.mut \in Terminal => Held(MoveMutation(row, to))
         /\ row.mut \in Terminal /\ to # "BLOCKED" => MoveMutation(row, to).mut \in Terminal
<1>1. CASE to \in MutationNext(row.mut)
  <2>1. MoveMutation(row, to).mut = to
    BY <1>1 DEF MoveMutation
  <2>2. row.mut # Absent /\ to # Absent
    BY <1>1, TerminalStays, AbsentIsInitial
  <2> QED
    BY <1>1, <2>1, <2>2, TerminalStays DEF Held
<1>2. CASE to \notin MutationNext(row.mut)
  BY <1>2 DEF MoveMutation, Held
<1> QED
  BY <1>1, <1>2

\* The same for a change of both halves.
LEMMA BothMoves ==
  ASSUME NEW row \in LedgerRow, NEW to
  PROVE  /\ MoveRun(row, to).mut = row.mut
         /\ MoveBoth(row, to).mut = Absent <=> row.mut = Absent
         /\ row.mut \in Terminal => Held(MoveBoth(row, to))
         /\ row.mut \in Terminal /\ to # "BLOCKED" => MoveBoth(row, to).mut \in Terminal
<1>1. MoveRun(row, to) \in LedgerRow /\ MoveRun(row, to).mut = row.mut
  BY MoveType DEF MoveRun, LedgerRow
<1> QED
  BY <1>1, MutationMoves DEF MoveBoth

\* No handler admits or withdraws a mutation, and none takes a terminal one back
\* to the forward path.
LEMMA MovesKeep ==
  ASSUME NEW row \in LedgerRow, NEW new \in Moves(row)
  PROVE  /\ new.mut = Absent <=> row.mut = Absent
         /\ row.mut \in Terminal => Held(new)
<1> DEFINE Keeps(x) == /\ x.mut = Absent <=> row.mut = Absent
                       /\ row.mut \in Terminal => Held(x)
<1>1. Keeps(row) /\ Keeps(Reopened(row))
  BY DEF Held, Reopened, Terminal, Absent
<1>2. \A to : /\ Keeps(MoveMutation(row, to))
              /\ Keeps(Refreshed(MoveMutation(row, to)))
  BY MutationMoves, MoveType DEF Refreshed, Held, LedgerRow
<1>3. \A to : Keeps(MoveBoth(row, to))
  BY BothMoves
<1>4. Keeps(MoveBoth(MoveBoth(row, "ROLLING_BACK"), "ROLLED_BACK"))
  BY BothMoves, MoveType
<1>5. \A to, run : Keeps(MoveRun(MoveMutation(row, to), run))
  BY MutationMoves, BothMoves, MoveType DEF Held
<1>6. \A dead : Keeps(Failed(row, dead))
  BY <1>1, <1>5 DEF Failed
<1>7. ASSUME NEW done PROVE Keeps(Advance(row, done))
  <2>1. CASE Advance(row, done) = row
    BY <1>1, <2>1
  <2>2. CASE /\ row.mut \in DOMAIN Reached /\ ~RowTerminal(row)
             /\ Advance(row, done).mut = Walk(row.mut, done)
    <3>1. Walk(row.mut, done) \in DOMAIN Reached /\ Absent \notin DOMAIN Reached
      BY <2>2, WalkType DEF Reached, Absent
    <3> QED
      BY <2>2, <3>1 DEF RowTerminal
  <2> QED
    BY <2>1, <2>2 DEF Advance
<1> HIDE DEF Keeps
<1>8. Keeps(new)
  <2>1. CASE new \in {row, Reopened(row), MoveBoth(MoveBoth(row, "ROLLING_BACK"), "ROLLED_BACK"),
                      MoveRun(MoveMutation(row, "RETRY_PENDING"), "RETRY_PENDING"),
                      Failed(row, TRUE), Failed(row, FALSE)}
    BY <1>1, <1>4, <1>5, <1>6, <2>1
  <2>2. CASE \E to : new = MoveMutation(row, to) \/ new = Refreshed(MoveMutation(row, to))
    BY <1>2, <2>2
  <2>3. CASE \E to : new = MoveBoth(row, to)
    BY <1>3, <2>3
  <2>4. CASE \E done : new = Advance(row, done)
    BY <1>7, <2>4
  <2> QED
    BY <2>1, <2>2, <2>3, <2>4 DEF Moves
<1> QED
  BY <1>8 DEF Keeps

\* An admitted mutation stays admitted, and the ledger admits nothing else.
LEMMA AdmittedStays ==
  ASSUME TypeOK, [Next]_vars, NEW m \in Mutation, Admitted(m)
  PROVE  Admitted(m)'
<1>1. ledger'[m] \in Moves(ledger[m]) /\ ledger[m] \in LedgerRow
  BY StepMoves DEF LedgerMoved, TypeOK
<1> QED
  BY <1>1, MovesKeep DEF Admitted

\* A mutation no handler moves forward stays held: nothing but a rollback or its
\* blocked cleanup is ever made of it.
LEMMA HeldForever ==
  ASSUME RollbackInv, LedgerMatches, [Next]_vars, \A v, u \in Worker : v = u,
         NEW m \in Mutation, Held(ledger[m])
  PROVE  Held(ledger'[m])
<1>1. ledger[m] \in LedgerRow /\ Matched(ledger[m])
  BY DEF RollbackInv, TypeOK, LedgerMatches
<1>2. CASE ledger[m].mut \in Terminal
  <2>1. Admitted(m)
    BY <1>2 DEF Admitted, Terminal, Absent
  <2>2. ledger'[m] \in Moves(ledger[m])
    BY <2>1, StepMoves DEF LedgerMoved, RollbackInv
  <2> QED
    BY <1>1, <1>2, <2>2, MovesKeep
<1>3. CASE ledger[m].mut = "BLOCKED"
  <2>1. RollbackBegun(m)
    BY <1>1, <1>3 DEF Matched, RollbackBegun, LedgerRow
  <2> QED
    BY <2>1, RollbackStep DEF Holding
<1> QED
  BY <1>2, <1>3 DEF Held

-----------------------------------------------------------------------------
(* The local data of a consumer                                            *)

ColdPhases == {"idle", "extract", "judge", "verified", "unverified"}
CleanPhases == {"clean", "cleaned", "cleanFail"}

\* What a consumer holds in each phase of an iteration: nothing but its item in
\* the cold path, no finished lane in the cleanup stage, and never one item
\* twice.
Shaped(local) ==
    /\ local.pc \in ColdPhases => local.todo = {} /\ local.ok = {}
    /\ local.pc \in CleanPhases => local.ok = {}
    /\ local.pc \in {"idle", "next", "clean"} => local.cur = None
    /\ local.cur \notin local.todo \cup local.ok
    /\ local.todo \cap local.ok = {}
    /\ local.todo \cup local.ok \subseteq Mutation \X Store
    /\ local.pc \in {"list", "commit", "undo", "undone", "skip"}
          => local.cur \in Mutation \X Optional
    /\ local.pc \in {"undone", "fence", "fenced"} => local.bad \subseteq Optional
Shape == \A w \in Worker : Shaped(worker[w])

\* None is no work item.
LEMMA NoneIsNoItem == None \notin Item
  BY PipelineAssumption DEF Item

\* The consumer's local data after a step, field by field.
Moved(w, pc, cur, todo, ok, bad) ==
    /\ worker'[w].pc = pc /\ worker'[w].cur = cur /\ worker'[w].todo = todo
    /\ worker'[w].ok = ok /\ worker'[w].bad = bad
    /\ \A v \in Worker \ {w} : worker'[v] = worker[v]

\* The assignments of the handlers to a consumer's local data, field by field.
LEMMA LocalMoves ==
  ASSUME TypeOK, NEW w \in Worker
  PROVE  /\ \A phase : Goto(w, phase) =>
               Moved(w, phase, worker[w].cur, worker[w].todo, worker[w].ok, worker[w].bad)
         /\ \A phase, item : Begin(w, phase, item) =>
               Moved(w, phase, item, worker[w].todo \ {item}, worker[w].ok, worker[w].bad)
         /\ Done(w) => Moved(w, "next", None, worker[w].todo, worker[w].ok, {})
         /\ Applied(w) => Moved(w, "next", None, worker[w].todo,
                                worker[w].ok \cup {worker[w].cur}, worker[w].bad)
         /\ worker' = [worker EXCEPT ![w] = Idle] => Moved(w, "idle", None, {}, {}, {})
         /\ \A phase, bad :
               worker' = [worker EXCEPT ![w].pc = phase, ![w].bad = bad]
                  \/ worker' = [worker EXCEPT ![w].bad = bad, ![w].pc = phase]
               => Moved(w, phase, worker[w].cur, worker[w].todo, worker[w].ok, bad)
         /\ \A phase, todo : worker' = [worker EXCEPT ![w].pc = phase, ![w].todo = todo]
               => Moved(w, phase, worker[w].cur, todo, worker[w].ok, worker[w].bad)
<1>1. worker \in [Worker -> WorkerRow] /\ worker[w] \in WorkerRow
  BY DEF TypeOK
<1>2. \A row : worker' = [worker EXCEPT ![w] = row]
         => Moved(w, row.pc, row.cur, row.todo, row.ok, row.bad)
  BY <1>1 DEF Moved
<1>3. \A phase : Goto(w, phase) =>
         Moved(w, phase, worker[w].cur, worker[w].todo, worker[w].ok, worker[w].bad)
  BY <1>1 DEF Goto, Moved, WorkerRow
<1>4. \A phase, item : Begin(w, phase, item) =>
         Moved(w, phase, item, worker[w].todo \ {item}, worker[w].ok, worker[w].bad)
  BY <1>1 DEF Begin, Moved, WorkerRow
<1>5. Done(w) => Moved(w, "next", None, worker[w].todo, worker[w].ok, {})
  BY <1>1 DEF Done, Moved, WorkerRow
<1>6. Applied(w) => Moved(w, "next", None, worker[w].todo,
                          worker[w].ok \cup {worker[w].cur}, worker[w].bad)
  BY <1>1 DEF Applied, Moved, WorkerRow
<1>7. worker' = [worker EXCEPT ![w] = Idle] => Moved(w, "idle", None, {}, {}, {})
  BY <1>1 DEF Idle, Moved
<1>8. \A phase, bad :
         worker' = [worker EXCEPT ![w].pc = phase, ![w].bad = bad]
            \/ worker' = [worker EXCEPT ![w].bad = bad, ![w].pc = phase]
         => Moved(w, phase, worker[w].cur, worker[w].todo, worker[w].ok, bad)
  BY <1>1 DEF Moved, WorkerRow
<1>9. \A phase, todo : worker' = [worker EXCEPT ![w].pc = phase, ![w].todo = todo]
         => Moved(w, phase, worker[w].cur, todo, worker[w].ok, worker[w].bad)
  BY <1>1 DEF Moved, WorkerRow
<1> QED
  BY <1>3, <1>4, <1>5, <1>6, <1>7, <1>8, <1>9

\* What a completion does to the consumer's local data and to the lane
\* (complete_projection_outbox).
LEMMA CompletionMoves ==
  ASSUME TypeOK, NEW w \in Worker, NEW m \in Mutation, NEW s \in Store, NEW outcome,
         CompleteLane(w, m, s, outcome)
  PROVE  \/ \E bad \in SUBSET Optional :
               /\ ~Holds(w, lane[m][s]) \/ Fenced(m)
               /\ bad # {} => \E x \in Optional : owner[m][x] # "NONE"
               /\ Moved(w, "fence", <<m, s>>, worker[w].todo, worker[w].ok \ {<<m, s>>}, bad)
               /\ \/ UNCHANGED lane
                  \/ Fenced(m) /\ lane' = [lane EXCEPT ![m][s] = Cancelled]
         \/ /\ Holds(w, lane[m][s]) /\ ~Fenced(m) /\ UNCHANGED lane
            /\ worker[w].pc = "skip"
            /\ Moved(w, "failSoft", worker[w].cur, worker[w].todo, worker[w].ok, worker[w].bad)
         \/ /\ Holds(w, lane[m][s]) /\ ~Fenced(m) /\ UNCHANGED lane
            /\ Moved(w, "idle", None, {}, {}, {})
         \/ /\ Holds(w, lane[m][s]) /\ ~Fenced(m)
            /\ Moved(w, "next", None, worker[w].todo, worker[w].ok \ {<<m, s>>}, worker[w].bad)
            /\ lane' = [lane EXCEPT ![m][s] = Row(outcome, lane[m][s].n)]
<1> DEFINE rows == [lane[m] EXCEPT ![s] = Row(outcome, @.n)]
           row == Advance(ledger[m], Finished(rows))
           act == /\ row.mut = "COMMITTED" /\ ledger[m].mut # "COMMITTED"
                  /\ ReadyToActivate(RevisionOf[m], [ledger EXCEPT ![m] = row])
           stale == ~Holds(w, lane[m][s]) \/ Fenced(m)
           raises == act /\ HeadConflict(RevisionOf[m])
           bad == {x \in Optional : owner[m][x] # "NONE"}
<1>1. worker \in [Worker -> WorkerRow] /\ worker[w] \in WorkerRow
      /\ lane \in [Mutation -> [Store -> QueueRow(LaneStates)]]
  BY DEF TypeOK
<1>2. /\ worker' = [worker EXCEPT ![w] = AfterCompletion(worker[w], <<m, s>>, stale, raises)]
      /\ lane' = IF stale
                 THEN IF Fenced(m) /\ lane[m][s].st = "IN_FLIGHT"
                      THEN [lane EXCEPT ![m][s] = Cancelled] ELSE lane
                 ELSE IF raises THEN lane ELSE [lane EXCEPT ![m] = rows]
  BY <1>1 DEF CompleteLane
<1>3. AfterCompletion(worker[w], <<m, s>>, stale, raises) =
         IF stale
         THEN [worker[w] EXCEPT !.pc = "fence", !.cur = <<m, s>>, !.ok = @ \ {<<m, s>>}, !.bad = bad]
         ELSE IF raises
         THEN IF worker[w].pc = "skip" THEN [worker[w] EXCEPT !.pc = "failSoft"] ELSE Idle
         ELSE [worker[w] EXCEPT !.pc = "next", !.cur = None, !.ok = @ \ {<<m, s>>}]
  BY DEF AfterCompletion
<1>4. \A x : worker' = [worker EXCEPT ![w] = x] => Moved(w, x.pc, x.cur, x.todo, x.ok, x.bad)
  BY <1>1 DEF Moved
<1>5. [lane EXCEPT ![m] = rows] = [lane EXCEPT ![m][s] = Row(outcome, lane[m][s].n)]
  BY <1>1
<1>6. bad \in SUBSET Optional /\ (bad # {} => \E x \in Optional : owner[m][x] # "NONE")
  OBVIOUS
<1>7. CASE stale
  <2>1. Moved(w, "fence", <<m, s>>, worker[w].todo, worker[w].ok \ {<<m, s>>}, bad)
    <3> HIDE DEF stale, raises, bad
    <3> QED
      BY <1>1, <1>2, <1>3, <1>4, <1>7 DEF WorkerRow
  <2>2. UNCHANGED lane \/ (Fenced(m) /\ lane' = [lane EXCEPT ![m][s] = Cancelled])
    BY <1>2, <1>7
  <2> QED
    BY <1>6, <1>7, <2>1, <2>2
<1>8. CASE ~stale /\ raises
  <2>1. UNCHANGED lane
    BY <1>2, <1>8
  <2>2. worker[w].pc = "skip" => Moved(w, "failSoft", worker[w].cur, worker[w].todo,
                                       worker[w].ok, worker[w].bad)
    <3> HIDE DEF stale, raises, bad
    <3> QED
      BY <1>1, <1>2, <1>3, <1>4, <1>8 DEF WorkerRow
  <2>3. worker[w].pc # "skip" => Moved(w, "idle", None, {}, {}, {})
    <3> HIDE DEF stale, raises, bad
    <3>1. worker[w].pc # "skip" => worker' = [worker EXCEPT ![w] = Idle]
      BY <1>2, <1>3, <1>8
    <3> QED
      BY <3>1, LocalMoves
  <2> QED
    BY <1>8, <2>1, <2>2, <2>3
<1>9. CASE ~stale /\ ~raises
  <2>1. Moved(w, "next", None, worker[w].todo, worker[w].ok \ {<<m, s>>}, worker[w].bad)
    <3> HIDE DEF stale, raises, bad
    <3> QED
      BY <1>1, <1>2, <1>3, <1>4, <1>9 DEF WorkerRow
  <2>2. lane' = [lane EXCEPT ![m][s] = Row(outcome, lane[m][s].n)]
    BY <1>2, <1>5, <1>9
  <2> QED
    BY <1>9, <2>1, <2>2
<1> QED
  BY <1>7, <1>8, <1>9

\* One consumer moved, the others kept their shape.
LEMMA MovedShape ==
  ASSUME Shape, NEW w \in Worker, NEW pc, NEW cur, NEW todo, NEW ok, NEW bad,
         Moved(w, pc, cur, todo, ok, bad),
         Shaped([pc |-> pc, cur |-> cur, todo |-> todo, ok |-> ok, bad |-> bad])
  PROVE  Shape'
  BY DEF Moved, Shape, Shaped

\* The cold path holds no lane.
LEMMA ColdShape ==
  ASSUME TypeOK, Shape, NEW w \in Worker, ColdPath(w)
  PROVE  Shape'
<1>1. PICK m \in Mutation : \/ ColdLoad(w, m) \/ ColdExtract(w, m) \/ ColdJudge(w, m)
                            \/ ColdVerified(w, m) \/ ColdUnverified(w, m)
  BY DEF ColdPath
<1>2. Shaped(worker[w]) /\ <<m, "COLD">> # None
  BY ItemType, NoneIsNoItem DEF Shape
<1>3. \/ /\ worker[w].pc = "idle"
         /\ \E phase \in ColdPhases \ {"idle"} :
               Moved(w, phase, <<m, "COLD">>, worker[w].todo \ {<<m, "COLD">>},
                     worker[w].ok, worker[w].bad)
      \/ /\ worker[w].pc \in ColdPhases
         /\ \E phase \in ColdPhases \ {"idle"} :
               Moved(w, phase, worker[w].cur, worker[w].todo, worker[w].ok, worker[w].bad)
      \/ Moved(w, "idle", None, {}, {}, {})
  BY <1>1, LocalMoves
     DEF ColdLoad, ColdExtract, ColdJudge, ColdVerified, ColdUnverified, At, ColdPhases
<1> QED
  BY <1>2, <1>3, MovedShape DEF Shaped, ColdPhases, CleanPhases

\* A lane is worked on alone, and only an optional one is listed, undone or
\* skipped.
LEMMA ProjectShape ==
  ASSUME TypeOK, Shape, NEW w \in Worker, Project(w)
  PROVE  Shape'
<1>1. PICK m \in Mutation, s \in Store :
         \/ StartLane(w, m, s) \/ ListAssertions(w, m, s) \/ CheckFence(w, m, s)
         \/ WriteArtifact(w, m, s) \/ RecordArtifact(w, m, s) \/ CommitGraph(w, m)
         \/ UndoWrite(w, m, s) \/ SettleUndo(w, m, s) \/ FailLane(w, m, s)
         \/ SkipLane(w, m, s) \/ FinishLane(w, m, s)
         \/ DeleteProjected(w, m, s) \/ SettleFence(w, m, s)
  BY DEF Project
<1>2. Shaped(worker[w])
  BY DEF Shape
<1>3. <<m, s>> \in Mutation \X Store /\ <<m, s>> # None
  BY ItemType, NoneIsNoItem
<1> DEFINE pc == worker[w].pc
           cur == worker[w].cur
           todo == worker[w].todo
           ok == worker[w].ok
           bad == worker[w].bad
<1>4. CASE StartLane(w, m, s)
  <2>1. PICK phase \in {"skip", "failHard", "check", "list"} :
           /\ Moved(w, phase, <<m, s>>, todo \ {<<m, s>>}, ok, bad)
           /\ phase \in {"skip", "list"} => s \in Optional
    BY <1>4, LocalMoves DEF StartLane, Optional, Store
  <2>2. <<m, s>> \in todo
    BY <1>4 DEF StartLane, First
  <2> QED
    BY <1>2, <1>3, <2>1, <2>2, MovedShape DEF Shaped, ColdPhases, CleanPhases
<1>5. CASE \/ ListAssertions(w, m, s) \/ CheckFence(w, m, s) \/ WriteArtifact(w, m, s)
           \/ RecordArtifact(w, m, s) \/ CommitGraph(w, m)
  <2> DEFINE To(phase) == Moved(w, phase, cur, todo, ok, bad)
             moved == \/ Moved(w, "next", None, todo, ok \cup {cur}, bad)
                      \/ To("check") \/ To("write") \/ To("record") \/ To("failSoft")
                      \/ (To("commit") \/ To("undo")) /\ cur \in Mutation \X Optional
             busy == pc \notin ColdPhases \cup CleanPhases
                     /\ cur \in Mutation \X Store /\ cur # None
  <2>1. ListAssertions(w, m, s) => moved /\ busy
    BY <1>3, LocalMoves DEF ListAssertions, At, ColdPhases, CleanPhases
  <2>2. CheckFence(w, m, s) => moved /\ busy
    BY <1>3, LocalMoves DEF CheckFence, At, ColdPhases, CleanPhases
  <2>3. ASSUME WriteArtifact(w, m, s) PROVE moved /\ busy
    <3>1. pc = "write" /\ cur = <<m, s>>
      BY <2>3 DEF WriteArtifact, At
    <3>2. Goto(w, "record") \/ Goto(w, "failSoft") \/ (Goto(w, "undo") /\ s = "GRAPH")
      BY <2>3 DEF WriteArtifact
    <3>3. moved
      BY SMTT(60), <3>1, <3>2, LocalMoves DEF Optional
    <3> QED
      BY <1>3, <3>1, <3>3 DEF ColdPhases, CleanPhases
  <2>4. ASSUME RecordArtifact(w, m, s) PROVE moved /\ busy
    <3>1. pc = "record" /\ cur = <<m, s>>
      BY <2>4 DEF RecordArtifact, At
    <3>2. \/ Applied(w) \/ Goto(w, "failSoft")
          \/ (Goto(w, "commit") \/ Goto(w, "undo")) /\ s \in Optional
      BY <2>4 DEF RecordArtifact, Optional, Store
    <3>3. \/ Moved(w, "next", None, todo, ok \cup {cur}, bad) \/ To("failSoft")
          \/ (To("commit") \/ To("undo")) /\ s \in Optional
      BY <3>2, LocalMoves
    <3>4. s \in Optional => cur \in Mutation \X Optional
      BY <3>1
    <3> HIDE DEF To
    <3> QED
      BY <1>3, <3>1, <3>3, <3>4 DEF ColdPhases, CleanPhases
  <2>5. ASSUME CommitGraph(w, m) PROVE moved /\ busy
    <3>1. pc = "commit" /\ cur = <<m, "GRAPH">>
      BY <2>5 DEF CommitGraph, At
    <3>2. Moved(w, "next", None, todo, ok \cup {cur}, bad) \/ To("failSoft")
      BY <2>5, LocalMoves DEF CommitGraph
    <3>3. <<m, "GRAPH">> \in Mutation \X Store /\ <<m, "GRAPH">> # None
      BY ItemType, NoneIsNoItem DEF Store
    <3> QED
      BY <3>1, <3>2, <3>3 DEF ColdPhases, CleanPhases
  <2>6. moved /\ busy
    BY <1>5, <2>1, <2>2, <2>3, <2>4, <2>5
  <2>7. None \notin todo \cup ok
    BY <1>2, NoneIsNoItem DEF Shaped, Item
  <2> QED
    BY <1>2, <2>6, <2>7, MovedShape DEF Shaped, ColdPhases, CleanPhases
<1>6. CASE UndoWrite(w, m, s)
  <2>1. PICK phase \in {"failSoft", "undone"}, failed \in SUBSET {s} :
           Moved(w, phase, cur, todo, ok, failed)
    BY <1>6, LocalMoves DEF UndoWrite, DeleteFailures
  <2>2. pc = "undo" /\ cur = <<m, s>>
    BY <1>6 DEF UndoWrite, At
  <2> QED
    BY <1>2, <1>3, <2>1, <2>2, MovedShape DEF Shaped, ColdPhases, CleanPhases
<1>7. CASE SettleUndo(w, m, s) \/ FailLane(w, m, s) \/ SettleFence(w, m, s)
  <2>1. \/ pc = "undone" /\ Moved(w, "failSoft", cur, todo, ok, {})
        \/ Moved(w, "next", None, todo, ok, {})
    BY <1>7, LocalMoves DEF SettleUndo, FailLane, SettleFence, At
  <2>2. None \notin todo \cup ok
    BY <1>2, NoneIsNoItem DEF Shaped, Item
  <2> QED
    BY <1>2, <2>1, <2>2, MovedShape DEF Shaped, ColdPhases, CleanPhases
<1>8. CASE SkipLane(w, m, s) \/ FinishLane(w, m, s)
  <2>1. PICK outcome : CompleteLane(w, m, s, outcome)
    BY <1>8 DEF SkipLane, FinishLane
  <2>2. \/ pc = "skip" /\ cur = <<m, s>>
        \/ pc = "next" /\ todo = {}
    BY <1>8 DEF SkipLane, FinishLane, At
  <2>3. \/ \E x \in SUBSET Optional : Moved(w, "fence", <<m, s>>, todo, ok \ {<<m, s>>}, x)
        \/ pc = "skip" /\ Moved(w, "failSoft", cur, todo, ok, bad)
        \/ Moved(w, "idle", None, {}, {}, {})
        \/ Moved(w, "next", None, todo, ok \ {<<m, s>>}, bad)
    BY <2>1, CompletionMoves
  <2>4. None \notin todo \cup ok
    BY <1>2, NoneIsNoItem DEF Shaped, Item
  <2> QED
    BY <1>2, <1>3, <2>2, <2>3, <2>4, MovedShape DEF Shaped, ColdPhases, CleanPhases
<1>9. CASE DeleteProjected(w, m, s)
  <2>1. PICK failed \in SUBSET bad : Moved(w, "fenced", cur, todo, ok, failed)
    BY <1>9, LocalMoves DEF DeleteProjected, DeleteFailures
  <2>2. pc = "fence" /\ cur = <<m, s>>
    BY <1>9 DEF DeleteProjected, At
  <2> QED
    BY <1>2, <1>3, <2>1, <2>2, MovedShape DEF Shaped, ColdPhases, CleanPhases
<1> QED
  BY <1>1, <1>4, <1>5, <1>6, <1>7, <1>8, <1>9

\* The consumer's side of a claim of cleanup (claim_artifact_cleanup).
LEMMA ClaimCleanupMoves ==
  ASSUME TypeOK, NEW w \in Worker, ClaimCleanup(w)
  PROVE  \E ready \in SUBSET (Mutation \X Store) :
            /\ \A m \in Mutation, s \in Store : <<m, s>> \in ready =>
                  cleanup[m][s].st \in {"PENDING", "RETRY_PENDING", "IN_FLIGHT"}
            /\ cleanup' = [m \in Mutation |-> [s \in Store |->
                              IF <<m, s>> \in ready THEN Claim(cleanup[m][s], w)
                              ELSE cleanup[m][s]]]
            /\ \/ Moved(w, "idle", None, {}, {}, {})
               \/ Moved(w, "clean", worker[w].cur, ready, worker[w].ok, worker[w].bad)
<1>1. PICK clock \in SUBSET {i \in Mutation \X Store : Waiting(cleanup[i[1]][i[2]])} :
        LET ready == clock \cup {i \in Mutation \X Store :
                                    cleanup[i[1]][i[2]].st = "PENDING"}
        IN  /\ cleanup' = [m \in Mutation |-> [s \in Store |->
                              IF <<m, s>> \in ready THEN Claim(cleanup[m][s], w)
                              ELSE cleanup[m][s]]]
            /\ worker' = [worker EXCEPT ![w] =
                  IF ready = {} THEN Idle
                  ELSE [@ EXCEPT !.pc = "clean", !.todo = ready]]
  BY DEF ClaimCleanup
<1> DEFINE ready == clock \cup {i \in Mutation \X Store : cleanup[i[1]][i[2]].st = "PENDING"}
<1>2. worker \in [Worker -> WorkerRow] /\ worker[w] \in WorkerRow
  BY DEF TypeOK
<1>3. ready \in SUBSET (Mutation \X Store)
  OBVIOUS
<1>4. \A m \in Mutation, s \in Store : <<m, s>> \in ready =>
         cleanup[m][s].st \in {"PENDING", "RETRY_PENDING", "IN_FLIGHT"}
  BY DEF Waiting
<1>5. /\ cleanup' = [m \in Mutation |-> [s \in Store |->
                        IF <<m, s>> \in ready THEN Claim(cleanup[m][s], w)
                        ELSE cleanup[m][s]]]
      /\ worker' = [worker EXCEPT ![w] =
            IF ready = {} THEN Idle ELSE [@ EXCEPT !.pc = "clean", !.todo = ready]]
  BY <1>1
<1> HIDE DEF ready
<1>6. \/ Moved(w, "idle", None, {}, {}, {})
      \/ Moved(w, "clean", worker[w].cur, ready, worker[w].ok, worker[w].bad)
  <2>1. CASE ready = {}
    <3>1. worker' = [worker EXCEPT ![w] = Idle]
      BY <1>5, <2>1
    <3> QED
      BY <3>1, LocalMoves
  <2>2. CASE ready # {}
    <3>1. worker' = [worker EXCEPT ![w] = [worker[w] EXCEPT !.pc = "clean", !.todo = ready]]
      BY <1>2, <1>5, <2>2
    <3> QED
      BY <1>2, <3>1 DEF Moved, WorkerRow
  <2> QED
    BY <2>1, <2>2
<1> QED
  BY <1>3, <1>4, <1>5, <1>6

\* The consumer's side of a finished cleanup (finish_artifact_cleanup).
LEMMA FinishCleanupMoves ==
  ASSUME TypeOK, NEW w \in Worker, NEW m \in Mutation, NEW s \in Store, FinishCleanup(w, m, s)
  PROVE  \/ Moved(w, "idle", None, {}, {}, {})
         \/ Moved(w, "clean", None, worker[w].todo, worker[w].ok, worker[w].bad)
<1>1. worker[w] \in WorkerRow /\ worker \in [Worker -> WorkerRow]
  BY DEF TypeOK
<1>2. CASE worker[w].todo = {}
  <2>1. worker' = [worker EXCEPT ![w] = Idle]
    BY <1>1, <1>2 DEF FinishCleanup
  <2> QED
    BY <2>1, LocalMoves
<1>3. CASE worker[w].todo # {}
  <2>1. worker' = [worker EXCEPT ![w] = [worker[w] EXCEPT !.pc = "clean", !.cur = None]]
    BY <1>1, <1>3 DEF FinishCleanup
  <2> QED
    BY <1>1, <2>1 DEF Moved, WorkerRow
<1> QED
  BY <1>2, <1>3

\* The consumer keeps its shape in every step.
LEMMA ShapeStep ==
  ASSUME TypeOK, Shape, [Next]_vars
  PROVE  Shape'
<1>1. UNCHANGED worker => Shape'
  BY DEF Shape
<1>2. ASSUME NEW w \in Worker, ClaimLanes(w) PROVE Shape'
  <2>1. PICK b \in SUBSET (Mutation \X Store) :
           worker' = [worker EXCEPT ![w].pc = "next", ![w].todo = b]
    BY <1>2 DEF ClaimLanes
  <2>2. Moved(w, "next", worker[w].cur, b, worker[w].ok, worker[w].bad)
    BY <2>1, LocalMoves
  <2>3. Shaped(worker[w]) /\ worker[w].pc = "idle" /\ None \notin Mutation \X Store
    BY <1>2, NoneIsNoItem DEF Shape, ClaimLanes, Item
  <2> QED
    BY <2>2, <2>3, MovedShape DEF Shaped, ColdPhases, CleanPhases
<1>3. ASSUME NEW w \in Worker, ClaimCleanup(w) PROVE Shape'
  <2>1. PICK ready \in SUBSET (Mutation \X Store) :
           \/ Moved(w, "idle", None, {}, {}, {})
           \/ Moved(w, "clean", worker[w].cur, ready, worker[w].ok, worker[w].bad)
    BY <1>3, ClaimCleanupMoves
  <2>2. /\ Shaped(worker[w]) /\ worker[w].pc = "next" /\ worker[w].ok = {}
        /\ None \notin Mutation \X Store
    BY <1>3, NoneIsNoItem DEF Shape, ClaimCleanup, Item
  <2> QED
    BY <2>1, <2>2, MovedShape DEF Shaped, ColdPhases, CleanPhases
<1>4. ASSUME NEW w \in Worker, NEW m \in Mutation, NEW s \in Store, ApplyCleanup(w, m, s)
      PROVE  Shape'
  <2>1. PICK phase \in {"cleaned", "cleanFail"} :
           Moved(w, phase, <<m, s>>, worker[w].todo \ {<<m, s>>}, worker[w].ok, worker[w].bad)
    BY <1>4, LocalMoves DEF ApplyCleanup
  <2>2. Shaped(worker[w]) /\ worker[w].pc = "clean"
    BY <1>4 DEF Shape, ApplyCleanup
  <2> QED
    BY <2>1, <2>2, MovedShape DEF Shaped, ColdPhases, CleanPhases
<1>5. ASSUME NEW w \in Worker, NEW m \in Mutation, NEW s \in Store, FinishCleanup(w, m, s)
      PROVE  Shape'
  <2>2. worker[w].pc \in {"cleaned", "cleanFail"}
    BY <1>5 DEF FinishCleanup, At
  <2>3. \/ Moved(w, "idle", None, {}, {}, {})
        \/ Moved(w, "clean", None, worker[w].todo, worker[w].ok, worker[w].bad)
    BY <1>5, FinishCleanupMoves
  <2>4. Shaped(worker[w]) /\ None \notin Mutation \X Store
    BY NoneIsNoItem DEF Shape, Item
  <2> QED
    BY <2>2, <2>3, <2>4, MovedShape DEF Shaped, ColdPhases, CleanPhases
<1>6. CASE Restart
  <2>1. Shaped(Idle)
    BY DEF Shaped, Idle, ColdPhases, CleanPhases
  <2> QED
    BY <1>6, <2>1 DEF Restart, Shape
<1>7. ASSUME NEW w \in Worker, Consume(w) PROVE Shape'
  BY <1>2, <1>3, <1>4, <1>5, <1>7, ColdShape, ProjectShape DEF Consume, Clean
<1>8. CASE Request
  BY <1>1, <1>8
     DEF Request, Admit, RequestRollback, RollBack, Replay, PurgeRollback, PurgeDocument
<1> QED
  BY <1>1, <1>6, <1>7, <1>8 DEF Next, vars

-----------------------------------------------------------------------------
(* Which steps touch what                                                  *)

\* What each step of the consumer and each request leaves alone.
LEMMA ConsumeFrames ==
  ASSUME NEW w \in Worker, NEW m \in Mutation, NEW s \in Store
  PROVE  /\ ColdLoad(w, m) => UNCHANGED <<ledger, lane, catalog, artifacts, cleanup>>
         /\ ColdExtract(w, m) => UNCHANGED <<lane, catalog, artifacts, cleanup>>
         /\ ColdJudge(w, m) => UNCHANGED <<catalog, artifacts, cleanup>>
         /\ ColdVerified(w, m) => UNCHANGED <<ledger, lane, catalog, artifacts, cleanup>>
         /\ ColdUnverified(w, m) => UNCHANGED <<lane, catalog, artifacts, cleanup>>
         /\ ClaimLanes(w) => UNCHANGED <<ledger, catalog, artifacts, cleanup>>
         /\ StartLane(w, m, s) => UNCHANGED <<ledger, lane, catalog, artifacts, cleanup>>
         /\ ListAssertions(w, m, s) => UNCHANGED <<ledger, lane, catalog, artifacts, cleanup>>
         /\ CheckFence(w, m, s) => UNCHANGED <<ledger, lane, catalog, artifacts, cleanup>>
         /\ WriteArtifact(w, m, s) =>
               UNCHANGED <<ledger, lane, revision, document, registry, owner, cleanup>>
         /\ RecordArtifact(w, m, s) => UNCHANGED <<ledger, lane, catalog, physical, cleanup>>
         /\ CommitGraph(w, m) => UNCHANGED <<ledger, lane, catalog, registry, owner, cleanup>>
         /\ UndoWrite(w, m, s) =>
               UNCHANGED <<ledger, lane, revision, document, registry, owner, cleanup>>
         /\ SettleUndo(w, m, s) => UNCHANGED <<lane, catalog, physical, owner>>
         /\ FailLane(w, m, s) => UNCHANGED <<catalog, artifacts, cleanup>>
         /\ SkipLane(w, m, s) => UNCHANGED <<document, artifacts, cleanup>>
         /\ FinishLane(w, m, s) => UNCHANGED <<document, artifacts, cleanup>>
         /\ DeleteProjected(w, m, s) =>
               UNCHANGED <<ledger, lane, catalog, registry, owner, cleanup>>
         /\ SettleFence(w, m, s) => UNCHANGED <<lane, catalog, physical, owner>>
         /\ ClaimCleanup(w) => UNCHANGED <<ledger, lane, catalog, artifacts>>
         /\ ApplyCleanup(w, m, s) =>
               UNCHANGED <<ledger, lane, revision, document, registry, owner, cleanup>>
         /\ FinishCleanup(w, m, s) => UNCHANGED <<lane, catalog, physical, owner>>
  BY DEF ColdLoad, ColdExtract, ColdJudge, ColdVerified, ColdUnverified, ClaimLanes, StartLane,
         ListAssertions, CheckFence, WriteArtifact, RecordArtifact, CommitGraph, UndoWrite,
         SettleUndo, FailLane, SkipLane, FinishLane, CompleteLane, DeleteProjected, SettleFence,
         ClaimCleanup, ApplyCleanup, FinishCleanup, catalog, artifacts

\* A step of one consumer on one mutation and store.
ItemStep(w, m, s) ==
    \/ ColdLoad(w, m) \/ ColdExtract(w, m) \/ ColdJudge(w, m)
    \/ ColdVerified(w, m) \/ ColdUnverified(w, m)
    \/ StartLane(w, m, s) \/ ListAssertions(w, m, s) \/ CheckFence(w, m, s)
    \/ WriteArtifact(w, m, s) \/ RecordArtifact(w, m, s) \/ CommitGraph(w, m)
    \/ UndoWrite(w, m, s) \/ SettleUndo(w, m, s) \/ FailLane(w, m, s)
    \/ SkipLane(w, m, s) \/ FinishLane(w, m, s)
    \/ DeleteProjected(w, m, s) \/ SettleFence(w, m, s)
    \/ ApplyCleanup(w, m, s) \/ FinishCleanup(w, m, s)

\* Every step is one of the actions, with its consumer, mutation and store.
LEMMA Steps ==
  ASSUME [Next]_vars
  PROVE  \/ UNCHANGED vars
         \/ \E w \in Worker, m \in Mutation, s \in Store : ItemStep(w, m, s)
         \/ \E w \in Worker : ClaimLanes(w) \/ ClaimCleanup(w)
         \/ \E m \in Mutation : Admit(m) \/ RollBack(m) \/ Replay(m)
         \/ \E d \in Document : PurgeDocument(d)
         \/ Restart
         \/ UNCHANGED <<ledger, lane, cold, catalog, artifacts, cleanup, profile, worker>>
<1>1. CASE UNCHANGED vars
  BY <1>1
<1>2. ASSUME NEW w \in Worker, Consume(w)
      PROVE  \/ \E m \in Mutation, s \in Store : ItemStep(w, m, s)
             \/ ClaimLanes(w) \/ ClaimCleanup(w)
  <2>1. "SQL" \in Store
    BY DEF Store
  <2>2. CASE ColdPath(w)
    BY <2>1, <2>2 DEF ColdPath, ItemStep
  <2>3. CASE Project(w)
    BY <2>3 DEF Project, ItemStep
  <2>4. CASE Clean(w)
    BY <2>4 DEF Clean, ItemStep
  <2> QED
    BY <1>2, <2>2, <2>3, <2>4 DEF Consume
<1>3. CASE Request
  BY <1>3 DEF Request, RequestRollback, PurgeRollback
<1> QED
  BY <1>1, <1>2, <1>3 DEF Next

\* The steps that touch projection_outbox.
LEMMA LaneActions ==
  ASSUME [Next]_vars
  PROVE  \/ UNCHANGED lane
         \/ \E w \in Worker, m \in Mutation, s \in Store :
               \/ ColdJudge(w, m)
               \/ FailLane(w, m, s)
               \/ SkipLane(w, m, s)
               \/ FinishLane(w, m, s)
         \/ \E w \in Worker : ClaimLanes(w)
         \/ \E m \in Mutation : Admit(m) \/ RollBack(m) \/ Replay(m)
         \/ \E d \in Document : PurgeDocument(d)
         \/ Restart
<1>1. ASSUME NEW w \in Worker, NEW m \in Mutation, NEW s \in Store, ItemStep(w, m, s)
      PROVE  \/ UNCHANGED lane
             \/ ColdJudge(w, m)
             \/ FailLane(w, m, s)
             \/ SkipLane(w, m, s)
             \/ FinishLane(w, m, s)
  BY <1>1, ConsumeFrames DEF ItemStep, catalog, artifacts
<1>2. ASSUME NEW w \in Worker, ClaimLanes(w) \/ ClaimCleanup(w)
      PROVE  UNCHANGED lane \/ ClaimLanes(w)
  BY <1>2 DEF ClaimLanes, ClaimCleanup, catalog, artifacts
<1> QED
  BY <1>1, <1>2, Steps DEF catalog, artifacts, vars

\* The steps that touch artifact_sources.
LEMMA OwnerActions ==
  ASSUME [Next]_vars
  PROVE  \/ UNCHANGED owner
         \/ \E w \in Worker, m \in Mutation, s \in Store :
               \/ RecordArtifact(w, m, s)
         \/ \E m \in Mutation : RollBack(m)
<1>1. ASSUME NEW w \in Worker, NEW m \in Mutation, NEW s \in Store, ItemStep(w, m, s)
      PROVE  UNCHANGED owner \/ RecordArtifact(w, m, s)
  BY <1>1, ConsumeFrames DEF ItemStep, catalog, artifacts
<1>2. ASSUME NEW w \in Worker, ClaimLanes(w) \/ ClaimCleanup(w)
      PROVE  UNCHANGED owner
  BY <1>2 DEF ClaimLanes, ClaimCleanup, catalog, artifacts
<1> QED
  BY <1>1, <1>2, Steps DEF catalog, artifacts, vars, Admit, Replay, PurgeDocument, Restart

\* The steps that touch artifact_cleanup_outbox.
LEMMA CleanupActions ==
  ASSUME [Next]_vars
  PROVE  \/ UNCHANGED cleanup
         \/ \E w \in Worker, m \in Mutation, s \in Store :
               \/ SettleUndo(w, m, s)
               \/ SettleFence(w, m, s)
               \/ FinishCleanup(w, m, s)
         \/ \E w \in Worker : ClaimCleanup(w)
         \/ \E m \in Mutation : RollBack(m) \/ Replay(m)
<1>1. ASSUME NEW w \in Worker, NEW m \in Mutation, NEW s \in Store, ItemStep(w, m, s)
      PROVE  \/ UNCHANGED cleanup
             \/ SettleUndo(w, m, s)
             \/ SettleFence(w, m, s)
             \/ FinishCleanup(w, m, s)
  BY SMTT(60), <1>1, ConsumeFrames DEF ItemStep, catalog, artifacts
<1>2. ASSUME NEW w \in Worker, ClaimLanes(w) \/ ClaimCleanup(w)
      PROVE  UNCHANGED cleanup \/ ClaimCleanup(w)
  BY <1>2 DEF ClaimLanes, ClaimCleanup, catalog, artifacts
<1> QED
  BY <1>1, <1>2, Steps DEF catalog, artifacts, vars, Admit, PurgeDocument, Restart

\* The steps that touch v4_assertions.
LEMMA FactActions ==
  ASSUME [Next]_vars
  PROVE  \/ UNCHANGED fact
         \/ \E w \in Worker, m \in Mutation, s \in Store :
               \/ WriteArtifact(w, m, s)
               \/ UndoWrite(w, m, s)
               \/ SkipLane(w, m, s)
               \/ FinishLane(w, m, s)
               \/ ApplyCleanup(w, m, s)
         \/ \E m \in Mutation : Admit(m) \/ RollBack(m)
         \/ \E d \in Document : PurgeDocument(d)
<1>1. ASSUME NEW w \in Worker, NEW m \in Mutation, NEW s \in Store, ItemStep(w, m, s)
      PROVE  \/ UNCHANGED fact
             \/ WriteArtifact(w, m, s)
             \/ UndoWrite(w, m, s)
             \/ SkipLane(w, m, s)
             \/ FinishLane(w, m, s)
             \/ ApplyCleanup(w, m, s)
  BY <1>1, ConsumeFrames DEF ItemStep, catalog, artifacts
<1>2. ASSUME NEW w \in Worker, ClaimLanes(w) \/ ClaimCleanup(w)
      PROVE  UNCHANGED fact
  BY <1>2 DEF ClaimLanes, ClaimCleanup, catalog, artifacts
<1> QED
  BY <1>1, <1>2, Steps DEF catalog, artifacts, vars, Replay, Restart

\* The steps that touch the derived stores.
LEMMA PhysicalActions ==
  ASSUME [Next]_vars
  PROVE  \/ UNCHANGED physical
         \/ \E w \in Worker, m \in Mutation, s \in Store :
               \/ WriteArtifact(w, m, s)
               \/ CommitGraph(w, m)
               \/ UndoWrite(w, m, s)
               \/ DeleteProjected(w, m, s)
               \/ ApplyCleanup(w, m, s)
<1>1. ASSUME NEW w \in Worker, NEW m \in Mutation, NEW s \in Store, ItemStep(w, m, s)
      PROVE  \/ UNCHANGED physical
             \/ WriteArtifact(w, m, s)
             \/ CommitGraph(w, m)
             \/ UndoWrite(w, m, s)
             \/ DeleteProjected(w, m, s)
             \/ ApplyCleanup(w, m, s)
  BY <1>1, ConsumeFrames DEF ItemStep, catalog, artifacts
<1>2. ASSUME NEW w \in Worker, ClaimLanes(w) \/ ClaimCleanup(w)
      PROVE  UNCHANGED physical
  BY <1>2 DEF ClaimLanes, ClaimCleanup, catalog, artifacts
<1> QED
  BY <1>1, <1>2, Steps DEF catalog, artifacts, vars, Admit, RollBack, Replay, PurgeDocument, Restart

\* The steps that touch document_revisions.
LEMMA RevisionActions ==
  ASSUME [Next]_vars
  PROVE  \/ UNCHANGED revision
         \/ \E w \in Worker, m \in Mutation, s \in Store :
               \/ SkipLane(w, m, s)
               \/ FinishLane(w, m, s)
         \/ \E m \in Mutation : Admit(m) \/ RollBack(m)
         \/ \E d \in Document : PurgeDocument(d)
<1>1. ASSUME NEW w \in Worker, NEW m \in Mutation, NEW s \in Store, ItemStep(w, m, s)
      PROVE  UNCHANGED revision \/ SkipLane(w, m, s) \/ FinishLane(w, m, s)
  BY <1>1, ConsumeFrames DEF ItemStep, catalog, artifacts
<1>2. ASSUME NEW w \in Worker, ClaimLanes(w) \/ ClaimCleanup(w)
      PROVE  UNCHANGED revision
  BY <1>2 DEF ClaimLanes, ClaimCleanup, catalog, artifacts
<1> QED
  BY <1>1, <1>2, Steps DEF catalog, artifacts, vars, Replay, Restart

\* The step that touches documents.
LEMMA DocumentActions ==
  ASSUME [Next]_vars
  PROVE  \/ UNCHANGED document
         \/ \E d \in Document : PurgeDocument(d)
<1>1. ASSUME NEW w \in Worker, NEW m \in Mutation, NEW s \in Store, ItemStep(w, m, s)
      PROVE  UNCHANGED document
  BY <1>1, ConsumeFrames DEF ItemStep, catalog, artifacts
<1>2. ASSUME NEW w \in Worker, ClaimLanes(w) \/ ClaimCleanup(w)
      PROVE  UNCHANGED document
  BY <1>2 DEF ClaimLanes, ClaimCleanup, catalog, artifacts
<1> QED
  BY <1>1, <1>2, Steps DEF catalog, artifacts, vars, Admit, RollBack, Replay, Restart



-----------------------------------------------------------------------------
(* The invariants begin                                                    *)

\* Nothing is admitted and no consumer works at first.
LEMMA MatchesInit == Init => LedgerMatches /\ Shape
<1>1. Shaped(Idle)
  BY DEF Shaped, Idle, ColdPhases, CleanPhases
<1>2. Matched([mut |-> Absent, run |-> Absent])
  BY DEF Matched, Bound, Held, Progress, Terminal, Absent
<1> QED
  BY <1>1, <1>2 DEF Init, LedgerMatches, Shape

-----------------------------------------------------------------------------
(* How a lane moves                                                        *)

\* A row of projection_outbox in a step: it stays, it leaves the claimed and
\* the finished states, it is claimed, or the holder of its claim finishes it.
LaneDropped(m, s) ==
    /\ lane'[m][s].st \notin {"IN_FLIGHT", "COMPLETED", "SKIPPED"}
    /\ lane[m][s].st # "NONE" \/ ledger'[m].mut # Absent
    /\ \/ lane[m][s].st # "IN_FLIGHT" \/ ~Admitted(m)
       \/ \E w \in Worker : FailLane(w, m, s)
       \/ Fenced(m) /\ \E w \in Worker : FinishLane(w, m, s) \/ SkipLane(w, m, s)
       \/ RollBack(m)
       \/ Held(ledger'[m])
       \/ Restart
LaneClaimed(m, s) == \E w \in Worker :
    /\ ClaimLanes(w) /\ Claimable(m, s)
    /\ lane'[m][s] = Claim(lane[m][s], w)
LaneFinished(m, s) == \E w \in Worker :
    /\ Holds(w, lane[m][s]) /\ ~Fenced(m)
    /\ \/ FinishLane(w, m, s) /\ lane'[m][s] = Row("COMPLETED", lane[m][s].n)
       \/ SkipLane(w, m, s) /\ lane'[m][s] = Row("SKIPPED", lane[m][s].n)
LaneMoved(m, s) ==
    lane'[m][s] = lane[m][s] \/ LaneDropped(m, s) \/ LaneClaimed(m, s) \/ LaneFinished(m, s)

\* A lane is claimed, finished or dropped for one of few reasons.
LEMMA LaneMoves ==
  ASSUME TypeOK, [Next]_vars, NEW m \in Mutation, NEW s \in Store
  PROVE  LaneMoved(m, s)
<1>1. lane \in [Mutation -> [Store -> QueueRow(LaneStates)]]
  BY DEF TypeOK
<1>2. ASSUME NEW n \in Mutation, NEW from, NEW to,
             lane' = [lane EXCEPT ![n] = Lanes(n, from, to)],
             from \cap {"NONE", "IN_FLIGHT"} = {},
             to \in {"PENDING", "CANCELLED", "RETRY_PENDING"}
      PROVE  LaneMoved(m, s)
  <2>1. CASE n = m /\ lane[m][s].st \in from
    <3>1. lane'[m][s] = Row(to, lane[m][s].n)
      BY <1>1, <1>2, <2>1 DEF Lanes
    <3>2. lane'[m][s].st = to
      BY <3>1 DEF Row
    <3> QED
      BY <1>2, <2>1, <3>2 DEF LaneMoved, LaneDropped
  <2>2. CASE ~(n = m /\ lane[m][s].st \in from)
    <3>1. lane'[m][s] = lane[m][s]
      BY <1>1, <1>2, <2>2 DEF Lanes
    <3> QED
      BY <3>1 DEF LaneMoved
  <2> QED
    BY <2>1, <2>2
<1>3. ASSUME NEW w \in Worker, NEW n \in Mutation, ColdJudge(w, n) PROVE LaneMoved(m, s)
  <2>1. \/ lane' = lane
        \/ lane' = [lane EXCEPT ![n] = Lanes(n, {"BLOCKED_VALIDATION"}, "PENDING")]
        \/ lane' = [lane EXCEPT ![n] = Lanes(n, {"BLOCKED_VALIDATION", "PENDING",
                                                 "RETRY_PENDING"}, "CANCELLED")]
    BY <1>3 DEF ColdJudge
  <2> QED
    BY <1>2, <2>1 DEF LaneMoved
<1>4. ASSUME NEW w \in Worker, NEW n \in Mutation, NEW x \in Store, FailLane(w, n, x)
      PROVE  LaneMoved(m, s)
  <2>1. \/ lane' = lane
        \/ \E state \in {"DEAD_LETTER", "RETRY_PENDING"} :
              lane' = [lane EXCEPT ![n][x] = [st |-> state, by |-> None, n |-> lane[n][x].n]]
    BY <1>4 DEF FailLane
  <2>2. lane'[m][s] = lane[m][s]
        \/ (n = m /\ x = s /\ lane'[m][s].st \in {"DEAD_LETTER", "RETRY_PENDING"})
    BY <1>1, <2>1
  <2>3. lane' # lane => lane[n][x].st = "IN_FLIGHT"
    BY <1>4 DEF FailLane, Holds
  <2> QED
    BY <1>4, <2>2, <2>3 DEF LaneMoved, LaneDropped
<1>5. ASSUME NEW w \in Worker, NEW n \in Mutation, NEW x \in Store,
             SkipLane(w, n, x) \/ FinishLane(w, n, x)
      PROVE  LaneMoved(m, s)
  <2>1. PICK outcome \in {"COMPLETED", "SKIPPED"} :
           /\ CompleteLane(w, n, x, outcome)
           /\ outcome = "COMPLETED" => FinishLane(w, n, x)
           /\ outcome = "SKIPPED" => SkipLane(w, n, x)
    BY <1>5 DEF SkipLane, FinishLane
  <2>2. \/ UNCHANGED lane
        \/ /\ Fenced(n) /\ lane[n][x].st = "IN_FLIGHT"
           /\ lane' = [lane EXCEPT ![n][x] = Cancelled]
        \/ /\ Holds(w, lane[n][x]) /\ ~Fenced(n)
           /\ lane' = [lane EXCEPT ![n] = [lane[n] EXCEPT ![x] = Row(outcome, lane[n][x].n)]]
    BY <1>1, <2>1 DEF CompleteLane
  <2>3. \/ lane'[m][s] = lane[m][s]
        \/ /\ n = m /\ x = s /\ Fenced(m) /\ lane[m][s].st = "IN_FLIGHT"
           /\ lane'[m][s].st = "CANCELLED"
        \/ /\ n = m /\ x = s /\ Holds(w, lane[m][s]) /\ ~Fenced(m)
           /\ lane'[m][s] = Row(outcome, lane[m][s].n)
    BY <1>1, <2>2 DEF Cancelled, Row
  <2> QED
    BY <1>5, <2>1, <2>3 DEF LaneMoved, LaneDropped, LaneFinished
<1>6. ASSUME NEW w \in Worker, ClaimLanes(w) PROVE LaneMoved(m, s)
  <2>1. PICK b \in SUBSET {i \in Mutation \X Store : Claimable(i[1], i[2])} :
           lane' = [n \in Mutation |-> [x \in Store |->
                      IF <<n, x>> \in b THEN Claim(lane[n][x], w) ELSE lane[n][x]]]
    BY <1>6 DEF ClaimLanes
  <2>2. lane'[m][s] = IF <<m, s>> \in b THEN Claim(lane[m][s], w) ELSE lane[m][s]
    BY <2>1
  <2>3. <<m, s>> \in b => Claimable(m, s)
    BY <2>1
  <2> QED
    BY <1>6, <2>2, <2>3 DEF LaneMoved, LaneClaimed
<1>7. ASSUME NEW n \in Mutation, Admit(n) PROVE LaneMoved(m, s)
  <2>1. \/ lane'[m][s] = lane[m][s]
        \/ n = m /\ ~Admitted(m) /\ lane'[m][s].st = "BLOCKED_VALIDATION"
    BY <1>1, <1>7 DEF Admit, Row
  <2>2. n = m => ledger'[m].mut # Absent
    BY <1>7 DEF Admit, Absent, TypeOK
  <2> QED
    BY <1>1, <2>1, <2>2 DEF LaneMoved, LaneDropped
<1>8. ASSUME NEW n \in Mutation, RollBack(n) PROVE LaneMoved(m, s)
  <2>1. lane'[m][s] = lane[m][s] \/ (n = m /\ lane'[m][s].st = "CANCELLED")
    BY <1>1, <1>8 DEF RollBack, Cancelled, Row
  <2>2. n = m => ledger'[m].mut # Absent
    BY <1>8, AdmittedStays DEF RollBack, MayRollBack, Admitted
  <2> QED
    BY <1>8, <2>1, <2>2 DEF LaneMoved, LaneDropped
<1>9. ASSUME NEW n \in Mutation, Replay(n) PROVE LaneMoved(m, s)
  <2>1. /\ lane' = [lane EXCEPT ![n] = Lanes(n, {"DEAD_LETTER"}, "RETRY_PENDING")]
        /\ {"DEAD_LETTER"} \cap {"NONE", "IN_FLIGHT"} = {}
    BY <1>9 DEF Replay
  <2> QED
    BY <1>2, <2>1
<1>10. ASSUME NEW d \in Document, PurgeDocument(d) PROVE LaneMoved(m, s)
  <2>1. PICK purged \in SUBSET Mutation :
           /\ \A n \in purged : "PURGED" \in MutationNext(ledger[n].mut)
           /\ ledger' = [n \in Mutation |-> IF n \in purged
                                            THEN MoveMutation(ledger[n], "PURGED") ELSE ledger[n]]
           /\ lane' = [n \in Mutation |-> IF n \in purged
                                          THEN [x \in Store |-> Cancelled] ELSE lane[n]]
    BY <1>10 DEF PurgeDocument
  <2>2. CASE m \in purged
    <3>1. lane'[m][s].st = "CANCELLED"
      BY <2>1, <2>2 DEF Cancelled, Row
    <3>2. ledger'[m].mut = "PURGED"
      BY <2>1, <2>2 DEF MoveMutation
    <3> QED
      BY <3>1, <3>2 DEF LaneMoved, LaneDropped, Held, Terminal, Absent
  <2>3. CASE m \notin purged
    BY <2>1, <2>3 DEF LaneMoved
  <2> QED
    BY <2>2, <2>3
<1>11. CASE Restart
  <2>1. PICK next : lane' = [n \in Mutation |-> [x \in Store |-> Recovered(n, x, next)]]
    BY <1>11 DEF Restart
  <2>2. \/ lane'[m][s] = lane[m][s]
        \/ /\ lane'[m][s].st \in {"RETRY_PENDING", "PENDING"}
           /\ lane[m][s].st \in {"COMPLETED", "IN_FLIGHT", "SKIPPED"}
    BY <2>1 DEF Recovered, Unparity, Missing, Row
  <2> QED
    BY <1>11, <2>2 DEF LaneMoved, LaneDropped
<1>12. CASE UNCHANGED lane
  BY <1>12 DEF LaneMoved
<1> QED
  BY <1>3, <1>4, <1>5, <1>6, <1>7, <1>8, <1>9, <1>10, <1>11, <1>12, LaneActions

-----------------------------------------------------------------------------
(* The canonical lane comes first                                          *)

\* Mutations whose canonical assertion has been recorded: ownership of it was
\* taken, and may since have been released.
Recorded == {m \in Mutation : owner[m]["SQL"] # "NONE"}

\* The work a consumer holds on a derived store, or on a finished canonical
\* lane, is of a mutation in recorded.
Backed(local, recorded) ==
    /\ \A m \in Mutation, s \in Store : <<m, s>> \in local.ok => m \in recorded
    /\ \A m \in Mutation, s \in Optional : <<m, s>> \in local.todo => m \in recorded
    /\ \A m \in Mutation, s \in Store :
          /\ local.cur = <<m, s>>
          /\ s \in Optional \/ (local.pc \in {"fence", "fenced"} /\ local.bad # {})
          => m \in recorded

\* Nothing is projected, owned or cleaned up before the canonical assertion is
\* recorded.
SqlFirst ==
    /\ \A m \in Mutation, s \in Store :
          \/ lane[m][s].st \in {"COMPLETED", "SKIPPED"}
          \/ owner[m][s] # "NONE"
          \/ cleanup[m][s].st # "NONE"
          => m \in Recorded
    /\ \A w \in Worker : Backed(worker[w], Recorded)

\* Ownership is taken and released, never forgotten.
LEMMA OwnerStays ==
  ASSUME TypeOK, [Next]_vars
  PROVE  /\ \A m \in Mutation, s \in Store : owner[m][s] # "NONE" => owner'[m][s] # "NONE"
         /\ Recorded \subseteq Recorded'
<1>1. owner \in [Mutation -> [Store -> OwnerStates]]
  BY DEF TypeOK
<1>2. ASSUME NEW w \in Worker, NEW n \in Mutation, NEW x \in Store, RecordArtifact(w, n, x)
      PROVE  \A m \in Mutation, s \in Store : owner[m][s] # "NONE" => owner'[m][s] # "NONE"
  <2>1. owner' = owner \/ owner' = [owner EXCEPT ![n][x] = IF @ = "NONE" THEN "ACTIVE" ELSE @]
    BY <1>2 DEF RecordArtifact
  <2> QED
    BY <1>1, <2>1
<1>3. ASSUME NEW n \in Mutation, RollBack(n)
      PROVE  \A m \in Mutation, s \in Store : owner[m][s] # "NONE" => owner'[m][s] # "NONE"
  BY <1>1, <1>3 DEF RollBack
<1>4. \A m \in Mutation, s \in Store : owner[m][s] # "NONE" => owner'[m][s] # "NONE"
  BY <1>2, <1>3, OwnerActions
<1>5. "SQL" \in Store
  BY DEF Store
<1>6. \A m \in Mutation : owner[m]["SQL"] # "NONE" => owner'[m]["SQL"] # "NONE"
  BY <1>4, <1>5
<1>7. Recorded \subseteq Recorded'
  BY <1>6 DEF Recorded
<1> QED
  BY <1>4, <1>7

\* One consumer moved, the work of the others stays backed.
LEMMA MovedBacked ==
  ASSUME \A v \in Worker : Backed(worker[v], Recorded), Recorded \subseteq Recorded',
         NEW w \in Worker, NEW pc, NEW cur, NEW todo, NEW ok, NEW bad,
         Moved(w, pc, cur, todo, ok, bad),
         Backed([pc |-> pc, cur |-> cur, todo |-> todo, ok |-> ok, bad |-> bad], Recorded')
  PROVE  \A v \in Worker : Backed(worker'[v], Recorded')
<1>1. Backed(worker'[w], Recorded')
  BY DEF Moved, Backed
<1>2. ASSUME NEW v \in Worker \ {w} PROVE Backed(worker'[v], Recorded')
  <2>1. worker'[v] = worker[v] /\ Backed(worker[v], Recorded)
    BY DEF Moved
  <2> QED
    BY <2>1 DEF Backed
<1> QED
  BY <1>1, <1>2

\* A lane behind the canonical one is claimed only after it
\* (claim_projection_outbox).
LEMMA ClaimBacked ==
  ASSUME TypeOK, Shape, SqlFirst, Recorded \subseteq Recorded', NEW w \in Worker, ClaimLanes(w)
  PROVE  \A v \in Worker : Backed(worker'[v], Recorded')
<1>1. PICK b \in SUBSET {i \in Mutation \X Store : Claimable(i[1], i[2])} :
         worker' = [worker EXCEPT ![w].pc = "next", ![w].todo = b]
  BY DEF ClaimLanes
<1>2. Moved(w, "next", worker[w].cur, b, worker[w].ok, worker[w].bad)
  BY <1>1, LocalMoves
<1>3. worker[w].ok = {} /\ worker[w].cur = None /\ None \notin Item
  BY NoneIsNoItem DEF ClaimLanes, Shape, Shaped, ColdPhases
<1>4. ASSUME NEW m \in Mutation, NEW s \in Optional, <<m, s>> \in b PROVE m \in Recorded
  <2>1. Claimable(m, s)
    BY <1>4
  <2>2. \E x \in Store : lane[m][x].st \in {"COMPLETED", "SKIPPED"}
    BY <2>1 DEF Claimable, Optional, Store
  <2> QED
    BY <2>2 DEF SqlFirst
<1> QED
  BY <1>2, <1>3, <1>4, MovedBacked DEF SqlFirst, Backed, Optional, Store, Item

\* The cleanup stage claims only what a rollback or a compensation queued
\* (claim_artifact_cleanup).
LEMMA CleanBacked ==
  ASSUME TypeOK, Shape, SqlFirst, Recorded \subseteq Recorded', NEW w \in Worker,
         ClaimCleanup(w) \/ Clean(w)
  PROVE  \A v \in Worker : Backed(worker'[v], Recorded')
<1>1. Shaped(worker[w]) /\ Backed(worker[w], Recorded) /\ None \notin Item
      /\ \A v \in Worker : Backed(worker[v], Recorded)
  BY NoneIsNoItem DEF Shape, SqlFirst
<1>2. Optional \subseteq Store /\ Mutation \X Store \subseteq Item
  BY DEF Optional, Store, Item
<1>3. CASE ClaimCleanup(w)
  <2>1. PICK ready \in SUBSET (Mutation \X Store) :
            /\ \A m \in Mutation, s \in Store : <<m, s>> \in ready =>
                  cleanup[m][s].st \in {"PENDING", "RETRY_PENDING", "IN_FLIGHT"}
            /\ \/ Moved(w, "idle", None, {}, {}, {})
               \/ Moved(w, "clean", worker[w].cur, ready, worker[w].ok, worker[w].bad)
    BY <1>3, ClaimCleanupMoves
  <2>2. \A m \in Mutation, s \in Store : <<m, s>> \in ready => m \in Recorded
    BY SMTT(60), <2>1 DEF SqlFirst
  <2>3. worker[w].ok = {} /\ worker[w].cur = None
    BY <1>1, <1>3 DEF ClaimCleanup, Shaped
  <2>4. CASE Moved(w, "idle", None, {}, {}, {})
    BY <1>1, <1>2, <2>4, MovedBacked DEF Backed
  <2>5. CASE Moved(w, "clean", worker[w].cur, ready, worker[w].ok, worker[w].bad)
    BY <1>1, <1>2, <2>2, <2>3, <2>5, MovedBacked DEF Backed
  <2> QED
    BY <2>1, <2>4, <2>5
<1>4. ASSUME NEW m \in Mutation, NEW s \in Store, ApplyCleanup(w, m, s)
      PROVE  \A v \in Worker : Backed(worker'[v], Recorded')
  <2>1. PICK phase \in {"cleaned", "cleanFail"} :
           Moved(w, phase, <<m, s>>, worker[w].todo \ {<<m, s>>}, worker[w].ok, worker[w].bad)
    BY <1>4, LocalMoves DEF ApplyCleanup
  <2>2. <<m, s>> \in worker[w].todo
    BY <1>4 DEF ApplyCleanup
  <2> QED
    BY <1>1, <2>1, <2>2, MovedBacked DEF Backed
<1>5. ASSUME NEW m \in Mutation, NEW s \in Store, FinishCleanup(w, m, s)
      PROVE  \A v \in Worker : Backed(worker'[v], Recorded')
  <2>1. \/ Moved(w, "idle", None, {}, {}, {})
        \/ Moved(w, "clean", None, worker[w].todo, worker[w].ok, worker[w].bad)
    BY <1>5, FinishCleanupMoves
  <2>2. CASE Moved(w, "idle", None, {}, {}, {})
    BY <1>1, <1>2, <2>2, MovedBacked DEF Backed
  <2>3. CASE Moved(w, "clean", None, worker[w].todo, worker[w].ok, worker[w].bad)
    BY <1>1, <1>2, <2>3, MovedBacked DEF Backed
  <2> QED
    BY <2>1, <2>2, <2>3
<1> QED
  BY <1>3, <1>4, <1>5 DEF Clean

\* A lane and its compensation stay behind the canonical record
\* (record_mutation_artifact, complete_projection_outbox).
LEMMA ProjectBacked ==
  ASSUME TypeOK, Shape, SqlFirst, Recorded \subseteq Recorded', NEW w \in Worker, Project(w)
  PROVE  \A v \in Worker : Backed(worker'[v], Recorded')
<1> DEFINE pc == worker[w].pc
           cur == worker[w].cur
           todo == worker[w].todo
           ok == worker[w].ok
           bad == worker[w].bad
           To(phase, x) == Moved(w, phase, cur, todo, ok, x)
           Kept == \A v \in Worker : Backed(worker'[v], Recorded')
<1>1. /\ Shaped(worker[w]) /\ Backed(worker[w], Recorded)
      /\ \A v \in Worker : Backed(worker[v], Recorded)
  BY DEF Shape, SqlFirst
<1>2. /\ Optional \subseteq Store
      /\ \A n \in Mutation, x \in Store : <<n, x>> # None
      /\ \A n \in Mutation, x \in Store : owner[n][x] # "NONE" => n \in Recorded
  BY NoneIsNoItem DEF Optional, Store, Item, SqlFirst
<1>3. PICK m \in Mutation, s \in Store :
         \/ StartLane(w, m, s) \/ ListAssertions(w, m, s) \/ CheckFence(w, m, s)
         \/ WriteArtifact(w, m, s) \/ RecordArtifact(w, m, s) \/ CommitGraph(w, m)
         \/ UndoWrite(w, m, s) \/ SettleUndo(w, m, s) \/ FailLane(w, m, s)
         \/ SkipLane(w, m, s) \/ FinishLane(w, m, s)
         \/ DeleteProjected(w, m, s) \/ SettleFence(w, m, s)
  BY DEF Project
<1>4. ASSUME NEW phase, NEW x, To(phase, x), phase \notin {"fence", "fenced"} PROVE Kept
  BY <1>1, <1>4, MovedBacked DEF Backed
<1>5. ASSUME NEW phase, NEW x, Moved(w, phase, None, todo, ok, x) PROVE Kept
  BY <1>1, <1>2, <1>5, MovedBacked DEF Backed
<1>6. ASSUME NEW x, Moved(w, "next", None, todo, ok \cup {cur}, x), cur = <<m, s>>,
             s \in Optional \/ m \in Recorded'
      PROVE  Kept
  BY <1>1, <1>2, <1>6, MovedBacked DEF Backed
<1>7. CASE StartLane(w, m, s)
  <2>1. PICK phase \in {"skip", "failHard", "check", "list"} :
           Moved(w, phase, <<m, s>>, todo \ {<<m, s>>}, ok, bad)
    BY <1>7, LocalMoves DEF StartLane
  <2>2. <<m, s>> \in todo
    BY <1>7 DEF StartLane, First
  <2> QED
    BY <1>1, <2>1, <2>2, MovedBacked DEF Backed
<1>8. CASE ListAssertions(w, m, s)
  <2>1. cur = <<m, s>> /\ pc = "list"
    BY <1>8 DEF ListAssertions, At
  <2>2. s \in Optional
    BY <1>1, <2>1 DEF Shaped
  <2>3. To("check", bad) \/ To("write", bad) \/ Moved(w, "next", None, todo, ok \cup {cur}, bad)
    BY <1>8, LocalMoves DEF ListAssertions
  <2> QED
    BY <1>4, <1>6, <2>1, <2>2, <2>3
<1>9. CASE CheckFence(w, m, s)
  <2>1. To("failSoft", bad) \/ To("write", bad)
    BY <1>9, LocalMoves DEF CheckFence
  <2> QED
    BY <1>4, <2>1
<1>10. CASE WriteArtifact(w, m, s)
  <2>1. To("record", bad) \/ To("undo", bad) \/ To("failSoft", bad)
    BY <1>10, LocalMoves DEF WriteArtifact
  <2> QED
    BY <1>4, <2>1
<1>11. CASE RecordArtifact(w, m, s)
  <2>1. cur = <<m, s>>
    BY <1>11 DEF RecordArtifact, At
  <2>2. \/ To("commit", bad) \/ To("undo", bad) \/ To("failSoft", bad)
        \/ /\ Moved(w, "next", None, todo, ok \cup {cur}, bad)
           /\ owner' = [owner EXCEPT ![m][s] = IF @ = "NONE" THEN "ACTIVE" ELSE @]
    BY <1>11, LocalMoves DEF RecordArtifact
  <2>3. owner' = [owner EXCEPT ![m][s] = IF @ = "NONE" THEN "ACTIVE" ELSE @] /\ s = "SQL"
          => m \in Recorded'
    <3>1. owner \in [Mutation -> [Store -> OwnerStates]] /\ "SQL" \in Store
      BY DEF TypeOK, Store
    <3> SUFFICES ASSUME owner' = [owner EXCEPT ![m][s] = IF @ = "NONE" THEN "ACTIVE" ELSE @],
                        s = "SQL"
                 PROVE  owner'[m]["SQL"] # "NONE"
      BY DEF Recorded
    <3> QED
      BY <3>1
  <2>4. s \in Optional \/ s = "SQL"
    BY DEF Store, Optional
  <2> QED
    BY <1>4, <1>6, <2>1, <2>2, <2>3, <2>4
<1>12. CASE CommitGraph(w, m)
  <2>1. cur = <<m, "GRAPH">> /\ "GRAPH" \in Optional
    BY <1>12 DEF CommitGraph, At, Optional
  <2>2. To("failSoft", bad) \/ Moved(w, "next", None, todo, ok \cup {cur}, bad)
    BY <1>12, LocalMoves DEF CommitGraph
  <2>3. Moved(w, "next", None, todo, ok \cup {cur}, bad) => Kept
    BY <1>1, <1>2, <2>1, MovedBacked DEF Backed
  <2> QED
    BY <1>4, <2>2, <2>3
<1>13. CASE UndoWrite(w, m, s)
  <2>1. PICK failed : \E phase : phase \in {"failSoft", "undone"} /\ To(phase, failed)
    BY <1>13, LocalMoves DEF UndoWrite
  <2>2. To("failSoft", failed) \/ To("undone", failed)
    BY <2>1
  <2> QED
    BY <1>4, <2>2
<1>14. CASE SettleUndo(w, m, s)
  <2>1. To("failSoft", {})
    BY <1>14, LocalMoves DEF SettleUndo
  <2> QED
    BY <1>4, <2>1
<1>15. CASE FailLane(w, m, s) \/ SettleFence(w, m, s)
  <2>1. Moved(w, "next", None, todo, ok, {})
    BY <1>15, LocalMoves DEF FailLane, SettleFence
  <2> QED
    BY <1>5, <2>1
<1>16. CASE SkipLane(w, m, s) \/ FinishLane(w, m, s)
  <2> DEFINE Fences == \E x \in SUBSET Optional :
                         /\ x # {} => \E y \in Optional : owner[m][y] # "NONE"
                         /\ Moved(w, "fence", <<m, s>>, todo, ok \ {<<m, s>>}, x)
             Fails == To("failSoft", bad)
             Ends == Moved(w, "idle", None, {}, {}, {})
             Goes == Moved(w, "next", None, todo, ok \ {<<m, s>>}, bad)
  <2>1. PICK outcome : CompleteLane(w, m, s, outcome)
    BY <1>16 DEF SkipLane, FinishLane
  <2>2. Fences \/ Fails \/ Ends \/ Goes
    BY <2>1, CompletionMoves
  <2>3. s \in Optional => m \in Recorded
    <3>1. cur = <<m, s>> \/ <<m, s>> \in ok
      BY <1>16 DEF SkipLane, FinishLane, At, First
    <3> QED
      BY <1>1, <1>2, <3>1 DEF Backed
  <2>4. ASSUME Fences PROVE Kept
    <3>1. PICK x \in SUBSET Optional :
             /\ x # {} => \E y \in Optional : owner[m][y] # "NONE"
             /\ Moved(w, "fence", <<m, s>>, todo, ok \ {<<m, s>>}, x)
      BY <2>4
    <3>2. x # {} => m \in Recorded
      BY <1>2, <3>1
    <3> QED
      BY <1>1, <1>2, <2>3, <3>1, <3>2, MovedBacked DEF Backed
  <2>5. ASSUME Fails PROVE Kept
    BY <1>4, <2>5
  <2>6. ASSUME Ends PROVE Kept
    BY <1>1, <1>2, <2>6, MovedBacked DEF Backed
  <2>7. ASSUME Goes PROVE Kept
    BY <1>1, <1>2, <2>7, MovedBacked DEF Backed
  <2> HIDE DEF Fences, Fails, Ends, Goes
  <2>8. Kept
    <3> HIDE DEF Kept
    <3> QED
      BY Zenon, <2>2, <2>4, <2>5, <2>6, <2>7
  <2> QED
    BY <2>8
<1>17. CASE DeleteProjected(w, m, s)
  <2>1. PICK failed \in SUBSET bad : To("fenced", failed)
    BY <1>17, LocalMoves DEF DeleteProjected, DeleteFailures
  <2>2. pc = "fence"
    BY <1>17 DEF DeleteProjected, At
  <2> QED
    BY <1>1, <2>1, <2>2, MovedBacked DEF Backed
<1> QED
  BY <1>3, <1>7, <1>8, <1>9, <1>10, <1>11, <1>12, <1>13, <1>14, <1>15, <1>16, <1>17

\* Only a recorded lane is completed or skipped.
LEMMA RowsBacked ==
  ASSUME TypeOK, Shape, SqlFirst, [Next]_vars, NEW m \in Mutation, NEW s \in Store,
         lane'[m][s].st \in {"COMPLETED", "SKIPPED"}
  PROVE  m \in Recorded
<1>1. \A w \in Worker : Shaped(worker[w]) /\ Backed(worker[w], Recorded)
  BY DEF Shape, SqlFirst
<1>2. CASE lane'[m][s] = lane[m][s]
  BY <1>2 DEF SqlFirst
<1>3. CASE LaneFinished(m, s)
  <2>1. PICK w \in Worker : FinishLane(w, m, s) \/ SkipLane(w, m, s)
    BY <1>3 DEF LaneFinished
  <2>2. CASE FinishLane(w, m, s)
    BY <1>1, <2>2 DEF FinishLane, First, Backed
  <2>3. CASE SkipLane(w, m, s)
    <3>1. worker[w].cur = <<m, s>> /\ worker[w].pc = "skip"
      BY <2>3 DEF SkipLane, At
    <3>2. s \in Optional
      BY <1>1, <3>1 DEF Shaped
    <3> QED
      BY <1>1, <3>1, <3>2 DEF Backed
  <2> QED
    BY <2>1, <2>2, <2>3
<1>4. ~LaneDropped(m, s)
  BY DEF LaneDropped
<1>5. ~LaneClaimed(m, s)
  <2>1. \A row, w : Claim(row, w).st = "IN_FLIGHT"
    BY DEF Claim
  <2> QED
    BY <2>1 DEF LaneClaimed
<1> QED
  BY <1>2, <1>3, <1>4, <1>5, LaneMoves DEF LaneMoved

-----------------------------------------------------------------------------
(* How a cleanup row moves                                                 *)

\* A row of artifact_cleanup_outbox in a step: it stays, a rollback or a
\* compensation queues it, it is claimed, the holder of its claim finishes it,
\* or a replay makes a blocked one due again.
Compensates(w, m) ==
    \E x \in Store : /\ SettleUndo(w, m, x) \/ SettleFence(w, m, x)
                     /\ worker[w].pc \in {"undone", "fenced"}
                     /\ worker[w].cur = <<m, x>>
CleanupQueued(m, s) ==
    /\ cleanup[m][s].st = "NONE"
    /\ cleanup'[m][s].st = "PENDING"
    /\ \/ RollBack(m) /\ s \in Orphans(m)
       \/ \E w \in Worker : /\ Compensates(w, m) /\ s \in worker[w].bad
                            /\ ledger'[m] = Reopened(ledger[m])
CleanupClaimed(m, s) ==
    /\ cleanup[m][s].st \in {"PENDING", "RETRY_PENDING", "IN_FLIGHT"}
    /\ cleanup'[m][s].st = "IN_FLIGHT"
CleanupFinished(m, s) == \E w \in Worker :
    /\ FinishCleanup(w, m, s) /\ Holds(w, cleanup[m][s])
    /\ cleanup'[m][s].st \in {"BLOCKED", "RETRY_PENDING", "COMPLETED"}
CleanupMoved(m, s) ==
    \/ cleanup'[m][s] = cleanup[m][s]
    \/ CleanupQueued(m, s)
    \/ CleanupClaimed(m, s)
    \/ CleanupFinished(m, s)
    \/ Replay(m) /\ cleanup[m][s].st = "BLOCKED" /\ cleanup'[m][s].st = "RETRY_PENDING"

\* A cleanup row is queued, claimed and finished for one of few reasons.
LEMMA CleanupMoves ==
  ASSUME TypeOK, [Next]_vars, NEW m \in Mutation, NEW s \in Store
  PROVE  CleanupMoved(m, s)
<1>1. cleanup \in [Mutation -> [Store -> QueueRow(CleanupStates)]]
      /\ ledger \in [Mutation -> LedgerRow]
  BY DEF TypeOK
<1>2. ASSUME NEW w \in Worker, NEW n \in Mutation, NEW x \in Store,
             SettleUndo(w, n, x) \/ SettleFence(w, n, x)
      PROVE  CleanupMoved(m, s)
  <2>1. \/ UNCHANGED cleanup
        \/ EnqueueUnowned(n, worker[w].bad)
    BY <1>2 DEF SettleUndo, SettleFence, FinalizeCompensation
  <2>2. Compensates(w, n)
    BY <1>2 DEF Compensates, SettleUndo, SettleFence, At
  <2>3. CASE EnqueueUnowned(n, worker[w].bad)
    <3>1. \/ cleanup'[m][s] = cleanup[m][s]
          \/ /\ n = m /\ s \in worker[w].bad /\ cleanup[m][s].st = "NONE"
             /\ cleanup'[m][s].st = "PENDING"
      BY <1>1, <2>3 DEF EnqueueUnowned, Row
    <3>2. ledger'[n] = Reopened(ledger[n])
      BY <1>1, <2>3 DEF EnqueueUnowned
    <3> QED
      BY <2>2, <3>1, <3>2 DEF CleanupMoved, CleanupQueued
  <2> QED
    BY <2>1, <2>3 DEF CleanupMoved
<1>3. ASSUME NEW w \in Worker, NEW n \in Mutation, NEW x \in Store, FinishCleanup(w, n, x)
      PROVE  CleanupMoved(m, s)
  <2>1. \/ UNCHANGED cleanup
        \/ /\ Holds(w, cleanup[n][x])
           /\ \E state \in {"BLOCKED", "RETRY_PENDING", "COMPLETED"} :
                 cleanup' = [cleanup EXCEPT ![n][x] = Row(state, cleanup[n][x].n)]
    BY <1>3 DEF FinishCleanup
  <2>2. \/ cleanup'[m][s] = cleanup[m][s]
        \/ /\ n = m /\ x = s /\ Holds(w, cleanup[m][s])
           /\ cleanup'[m][s].st \in {"BLOCKED", "RETRY_PENDING", "COMPLETED"}
    BY <1>1, <2>1 DEF Row
  <2> QED
    BY <1>3, <2>2 DEF CleanupMoved, CleanupFinished
<1>4. ASSUME NEW w \in Worker, ClaimCleanup(w) PROVE CleanupMoved(m, s)
  <2>1. PICK ready \in SUBSET (Mutation \X Store) :
            /\ \A n \in Mutation, x \in Store : <<n, x>> \in ready =>
                  cleanup[n][x].st \in {"PENDING", "RETRY_PENDING", "IN_FLIGHT"}
            /\ cleanup' = [n \in Mutation |-> [x \in Store |->
                              IF <<n, x>> \in ready THEN Claim(cleanup[n][x], w)
                              ELSE cleanup[n][x]]]
    BY <1>4, ClaimCleanupMoves
  <2>2. cleanup'[m][s] = IF <<m, s>> \in ready THEN Claim(cleanup[m][s], w) ELSE cleanup[m][s]
    BY <2>1
  <2> QED
    BY <2>1, <2>2 DEF CleanupMoved, CleanupClaimed, Claim
<1>5. ASSUME NEW n \in Mutation, RollBack(n) PROVE CleanupMoved(m, s)
  <2>1. cleanup' = [cleanup EXCEPT ![n] =
                       [x \in Store |-> IF x \in Orphans(n) /\ cleanup[n][x].st = "NONE"
                                        THEN Row("PENDING", 0) ELSE cleanup[n][x]]]
    BY <1>1, <1>5 DEF RollBack
  <2>2. \/ cleanup'[m][s] = cleanup[m][s]
        \/ /\ n = m /\ s \in Orphans(m) /\ cleanup[m][s].st = "NONE"
           /\ cleanup'[m][s].st = "PENDING"
    BY <1>1, <2>1 DEF Row
  <2> QED
    BY <1>5, <2>2 DEF CleanupMoved, CleanupQueued
<1>6. ASSUME NEW n \in Mutation, Replay(n) PROVE CleanupMoved(m, s)
  <2>1. \/ cleanup'[m][s] = cleanup[m][s]
        \/ n = m /\ cleanup[m][s].st = "BLOCKED" /\ cleanup'[m][s].st = "RETRY_PENDING"
    BY <1>1, <1>6 DEF Replay, Row
  <2> QED
    BY <1>6, <2>1 DEF CleanupMoved
<1> QED
  BY <1>2, <1>3, <1>4, <1>5, <1>6, CleanupActions DEF CleanupMoved

\* Cleanup is queued for recorded mutations only.
LEMMA CleanupBacked ==
  ASSUME TypeOK, Shape, SqlFirst, [Next]_vars, NEW m \in Mutation, NEW s \in Store,
         cleanup'[m][s].st # "NONE"
  PROVE  m \in Recorded
<1>1. CASE cleanup[m][s].st # "NONE"
  BY <1>1 DEF SqlFirst
<1>2. CASE cleanup[m][s].st = "NONE" /\ CleanupQueued(m, s)
  <2>1. CASE s \in Orphans(m)
    BY <2>1 DEF Orphans, SqlFirst
  <2>2. ASSUME NEW w \in Worker, Compensates(w, m), s \in worker[w].bad
        PROVE  m \in Recorded
    <3>1. Shaped(worker[w]) /\ Backed(worker[w], Recorded)
      BY DEF Shape, SqlFirst
    <3>2. PICK x \in Store : worker[w].cur = <<m, x>>
      BY <2>2 DEF Compensates
    <3>3. worker[w].pc = "fenced" \/ (worker[w].pc = "undone" /\ x \in Optional)
      BY <2>2, <3>1, <3>2 DEF Compensates, Shaped
    <3> QED
      BY <2>2, <3>1, <3>2, <3>3 DEF Backed
  <2> QED
    BY <1>2, <2>1, <2>2 DEF CleanupQueued
<1> QED
  BY <1>1, <1>2, CleanupMoves
     DEF CleanupMoved, CleanupClaimed, CleanupFinished, Holds

\* The canonical lane comes first in every state.
LEMMA SqlFirstStep ==
  ASSUME TypeOK, Shape, SqlFirst, [Next]_vars
  PROVE  SqlFirst'
<1>1. /\ \A m \in Mutation, s \in Store : owner[m][s] # "NONE" => owner'[m][s] # "NONE"
      /\ Recorded \subseteq Recorded'
  BY OwnerStays
<1>2. \A m \in Mutation, s \in Store :
         lane'[m][s].st \in {"COMPLETED", "SKIPPED"} \/ cleanup'[m][s].st # "NONE"
            => m \in Recorded'
  BY <1>1, RowsBacked, CleanupBacked
<1>3. ASSUME NEW m \in Mutation, NEW s \in Store, owner'[m][s] # "NONE" PROVE m \in Recorded'
  <2>1. CASE owner[m][s] # "NONE"
    BY <1>1, <2>1 DEF SqlFirst
  <2>2. ASSUME owner[m][s] = "NONE" PROVE m \in Recorded'
    <3>1. owner \in [Mutation -> [Store -> OwnerStates]] /\ "SQL" \in Store
      BY DEF TypeOK, Store
    <3>2. PICK w \in Worker, n \in Mutation, x \in Store : RecordArtifact(w, n, x)
      <4>1. ASSUME NEW n \in Mutation, RollBack(n) PROVE FALSE
        BY <1>3, <2>2, <3>1, <4>1 DEF RollBack
      <4> QED
        BY <1>3, <2>2, <4>1, OwnerActions
    <3>3. worker[w].cur = <<n, x>> /\ Backed(worker[w], Recorded)
      BY <3>2 DEF RecordArtifact, At, SqlFirst
    <3>4. owner' = [owner EXCEPT ![n][x] = IF @ = "NONE" THEN "ACTIVE" ELSE @]
      BY <1>3, <2>2, <3>2 DEF RecordArtifact
    <3>5. n = m /\ x = s
      BY <1>3, <2>2, <3>1, <3>4
    <3>6. CASE s = "SQL"
      BY <1>3, <3>6 DEF Recorded
    <3>7. CASE s \in Optional
      BY <1>1, <3>3, <3>5, <3>7 DEF Backed
    <3> QED
      BY <3>6, <3>7 DEF Store, Optional
  <2> QED
    BY <2>1, <2>2
<1>4. ASSUME NEW w \in Worker, Consume(w)
      PROVE  \A v \in Worker : Backed(worker'[v], Recorded')
  <2>1. CASE ColdPath(w)
    <3>1. PICK m \in Mutation : \/ ColdLoad(w, m) \/ ColdExtract(w, m) \/ ColdJudge(w, m)
                                \/ ColdVerified(w, m) \/ ColdUnverified(w, m)
      BY <2>1 DEF ColdPath
    <3>2. /\ Shaped(worker[w]) /\ \A v \in Worker : Backed(worker[v], Recorded)
          /\ None \notin Item /\ \A s \in Store : <<m, "COLD">> # <<m, s>>
      BY NoneIsNoItem DEF Shape, SqlFirst, Store
    <3>3. \/ /\ worker[w].pc = "idle"
             /\ \E phase \in ColdPhases :
                   Moved(w, phase, <<m, "COLD">>, worker[w].todo \ {<<m, "COLD">>},
                         worker[w].ok, worker[w].bad)
          \/ /\ worker[w].pc \in ColdPhases
             /\ \E phase \in ColdPhases :
                   Moved(w, phase, worker[w].cur, worker[w].todo, worker[w].ok, worker[w].bad)
          \/ Moved(w, "idle", None, {}, {}, {})
      BY <3>1, LocalMoves
         DEF ColdLoad, ColdExtract, ColdJudge, ColdVerified, ColdUnverified, At, ColdPhases
    <3>4. {"fence", "fenced"} \cap ColdPhases = {} /\ Optional \subseteq Store
          /\ Mutation \X Store \subseteq Item
      BY DEF ColdPhases, Optional, Store, Item
    <3> QED
      BY <1>1, <3>2, <3>3, <3>4, MovedBacked DEF Backed, Shaped
  <2> QED
    BY <1>1, <1>4, <2>1, ClaimBacked, ProjectBacked, CleanBacked DEF Consume
<1>5. UNCHANGED worker => \A v \in Worker : Backed(worker'[v], Recorded')
  BY <1>1 DEF SqlFirst, Backed
<1>6. ASSUME Restart PROVE \A v \in Worker : Backed(worker'[v], Recorded')
  <2>1. \A v \in Worker : worker'[v] = Idle
    BY <1>6 DEF Restart
  <2>2. Idle.todo = {} /\ Idle.ok = {} /\ Idle.cur = None
    BY DEF Idle
  <2>3. \A m \in Mutation, s \in Store : <<m, s>> # None
    BY NoneIsNoItem DEF Item
  <2>4. Backed(Idle, Recorded')
    BY <2>2, <2>3 DEF Backed
  <2> QED
    BY <2>1, <2>4
<1>7. Request => UNCHANGED worker
  BY DEF Request, Admit, RequestRollback, RollBack, Replay, PurgeRollback, PurgeDocument
<1>8. \A v \in Worker : Backed(worker'[v], Recorded')
  <2>1. UNCHANGED worker \/ Restart \/ \E w \in Worker : Consume(w)
    BY <1>7 DEF Next, vars
  <2> QED
    BY <1>4, <1>5, <1>6, <2>1
<1> QED
  BY <1>2, <1>3, <1>8 DEF SqlFirst

-----------------------------------------------------------------------------
(* The end of a rollback                                                   *)

\* The run of the new row is rolled back only if the old one was.
NotEnding(row, new) == new.run = "ROLLED_BACK" => row.run = "ROLLED_BACK"

\* Only a move to ROLLED_BACK ends a rollback.
LEMMA EndingMoves ==
  ASSUME NEW row \in LedgerRow
  PROVE  /\ NotEnding(row, row) /\ NotEnding(row, Reopened(row))
         /\ \A to : /\ NotEnding(row, MoveMutation(row, to))
                    /\ NotEnding(row, Refreshed(MoveMutation(row, to)))
         /\ \A to \in {"BLOCKED", "ROLLING_BACK", "RETRY_PENDING"} :
               NotEnding(row, MoveBoth(row, to))
         /\ NotEnding(row, MoveRun(MoveMutation(row, "RETRY_PENDING"), "RETRY_PENDING"))
         /\ \A dead : NotEnding(row, Failed(row, dead))
         /\ \A done : NotEnding(row, Advance(row, done))
<1>1. \A run \in RunStates : \A to : Recompute(run, {to}) = "ROLLED_BACK" => run = "ROLLED_BACK"
  BY RecomputeKeepsRollback
<1>2. \A x \in LedgerRow : \A to : NotEnding(x, MoveMutation(x, to))
  BY <1>1 DEF NotEnding, MoveMutation, LedgerRow
<1>3. \A x \in LedgerRow : NotEnding(x, Refreshed(x))
  BY <1>1 DEF NotEnding, Refreshed, LedgerRow
<1>4. \A x \in LedgerRow : \A to : to # "ROLLED_BACK" => NotEnding(x, MoveRun(x, to))
  BY DEF NotEnding, MoveRun, RunStep, LedgerRow
<1>5. \A to : MoveMutation(row, to) \in LedgerRow /\ MoveRun(row, to) \in LedgerRow
  BY MoveType
<1>6. \A to : NotEnding(row, Refreshed(MoveMutation(row, to)))
  BY <1>2, <1>3, <1>5 DEF NotEnding
<1>7. \A to : to # "ROLLED_BACK" => NotEnding(row, MoveBoth(row, to))
  BY <1>2, <1>4, <1>5 DEF NotEnding, MoveBoth
<1>8. \A a, b : b # "ROLLED_BACK" => NotEnding(row, MoveRun(MoveMutation(row, a), b))
  BY <1>2, <1>4, <1>5 DEF NotEnding
<1>9. NotEnding(row, row) /\ NotEnding(row, Reopened(row))
  BY DEF NotEnding, Reopened, LedgerRow
<1>10. \A dead : NotEnding(row, Failed(row, dead))
  BY <1>8, <1>9 DEF Failed
<1>11. \A done : NotEnding(row, Advance(row, done))
  BY <1>1, <1>9 DEF Advance, NotEnding, LedgerRow
<1> QED
  BY <1>2, <1>6, <1>7, <1>8, <1>9, <1>10, <1>11

\* A rollback ends when its last cleanup is done, or at its request when it has
\* nothing to clean up (_finalize_terminal_projection_compensation,
\* finish_artifact_cleanup, request_pipeline_rollback).
LEMMA EndingSteps ==
  ASSUME TypeOK, [Next]_vars, NEW m \in Mutation,
         ledger[m].run # "ROLLED_BACK", ledger'[m].run = "ROLLED_BACK"
  PROVE  \/ \A s \in Store : cleanup'[m][s].st \in {"NONE", "COMPLETED"}
         \/ RollBack(m) /\ Orphans(m) = {} 
<1> DEFINE Ends == \/ \A s \in Store : cleanup'[m][s].st \in {"NONE", "COMPLETED"}
                   \/ RollBack(m) /\ Orphans(m) = {}
<1> SUFFICES ASSUME ~Ends PROVE FALSE
  OBVIOUS
<1> HIDE DEF Ends
<1>1. /\ ledger \in [Mutation -> LedgerRow]
      /\ cleanup \in [Mutation -> [Store -> QueueRow(CleanupStates)]]
  BY DEF TypeOK
<1>2. ASSUME NEW n \in Mutation, NEW row, NotEnding(ledger[n], row),
             ledger' = [ledger EXCEPT ![n] = row]
      PROVE  FALSE
  BY <1>1, <1>2 DEF NotEnding
<1>3. UNCHANGED ledger => FALSE
  OBVIOUS
<1>4. ASSUME NEW n \in Mutation, NEW to, ledger' = Judged(n, to) PROVE FALSE
  <2>1. NotEnding(ledger[n], IF MutationMayBe(ledger[n], to)
                             THEN Refreshed(MoveMutation(ledger[n], to)) ELSE ledger[n])
    BY <1>1, EndingMoves
  <2> QED
    BY <1>1, <1>2, <1>4, <2>1 DEF Judged
<1>5. ASSUME NEW n \in Mutation, NEW w \in Worker,
             ColdExtract(w, n) \/ ColdJudge(w, n) \/ ColdUnverified(w, n)
      PROVE  FALSE
  <2>1. \/ UNCHANGED ledger
        \/ \E to : ledger' = Judged(n, to)
        \/ \E to : ledger' = [ledger EXCEPT ![n] = MoveMutation(ledger[n], to)]
    BY <1>1, <1>5 DEF ColdExtract, ColdJudge, ColdUnverified
  <2> QED
    BY <1>1, <1>2, <1>3, <1>4, <2>1, EndingMoves
<1>6. ASSUME NEW n \in Mutation, NEW w \in Worker, NEW s \in Store,
             FailLane(w, n, s) \/ SkipLane(w, n, s) \/ FinishLane(w, n, s)
      PROVE  FALSE
  <2>1. \/ UNCHANGED ledger
        \/ \E dead : ledger' = [ledger EXCEPT ![n] = Failed(ledger[n], dead)]
        \/ \E done : ledger' = [ledger EXCEPT ![n] = Advance(ledger[n], done)]
    BY <1>1, <1>6 DEF FailLane, SkipLane, FinishLane, CompleteLane
  <2> QED
    BY <1>1, <1>2, <1>3, <2>1, EndingMoves
<1>7. ASSUME NEW n \in Mutation, NEW w \in Worker, NEW s \in Store,
             SettleUndo(w, n, s) \/ SettleFence(w, n, s)
      PROVE  FALSE
  <2>1. CASE EnqueueUnowned(n, worker[w].bad)
    <3>1. ledger' = [ledger EXCEPT ![n] = Reopened(ledger[n])]
      BY <1>1, <2>1 DEF EnqueueUnowned
    <3> QED
      BY <1>1, <1>2, <3>1, EndingMoves
  <2>2. CASE FinalizeCompensation(n)
    <3>1. \/ UNCHANGED ledger
          \/ /\ UNCHANGED cleanup /\ \A x \in Store : cleanup[n][x].st \in {"NONE", "COMPLETED"}
             /\ ledger' = [ledger EXCEPT ![n] = MoveBoth(ledger[n], "ROLLED_BACK")]
      BY <1>1, <2>2 DEF FinalizeCompensation
    <3>2. n = m => ~\A x \in Store : cleanup'[n][x].st \in {"NONE", "COMPLETED"}
      BY DEF Ends
    <3> QED
      BY <1>1, <3>1, <3>2
  <2> QED
    BY <1>7, <2>1, <2>2 DEF SettleUndo, SettleFence
<1>8. ASSUME NEW n \in Mutation, NEW w \in Worker, NEW s \in Store, FinishCleanup(w, n, s)
      PROVE  FALSE
  <2>1. \/ UNCHANGED ledger
        \/ ledger' = [ledger EXCEPT ![n] = MoveBoth(ledger[n], "BLOCKED")]
        \/ /\ \A x \in Store : cleanup'[n][x].st \in {"NONE", "COMPLETED"}
           /\ ledger' = [ledger EXCEPT ![n] = MoveBoth(ledger[n], "ROLLED_BACK")]
    BY <1>1, <1>8 DEF FinishCleanup
  <2>2. n = m => ~\A x \in Store : cleanup'[n][x].st \in {"NONE", "COMPLETED"}
    BY DEF Ends
  <2> QED
    BY <1>1, <1>2, <2>1, <2>2, EndingMoves
<1>9. ASSUME NEW n \in Mutation, Admit(n) PROVE FALSE
  BY <1>1, <1>9 DEF Admit
<1>10. ASSUME NEW n \in Mutation, RollBack(n) PROVE FALSE
  <2>1. \/ ledger' = [ledger EXCEPT ![n] = MoveBoth(ledger[n], "ROLLING_BACK")]
        \/ Orphans(n) = {}
    BY <1>1, <1>10 DEF RollBack
  <2>2. n = m => Orphans(n) # {}
    BY <1>10 DEF Ends
  <2>3. n # m => ledger'[m] = ledger[m]
    BY <1>1, <1>10 DEF RollBack
  <2> QED
    BY <1>1, <1>2, <2>1, <2>2, <2>3, EndingMoves
<1>11. ASSUME NEW n \in Mutation, Replay(n) PROVE FALSE
  <2>1. \E to \in {"ROLLING_BACK", "RETRY_PENDING"} :
           ledger' = [ledger EXCEPT ![n] = MoveBoth(ledger[n], to)]
    BY <1>11 DEF Replay, Resumed
  <2> QED
    BY <1>1, <1>2, <2>1, EndingMoves
<1>12. ASSUME NEW d \in Document, PurgeDocument(d) PROVE FALSE
  <2>1. ledger'[m] = ledger[m] \/ ledger'[m] = MoveMutation(ledger[m], "PURGED")
    BY <1>12 DEF PurgeDocument
  <2> QED
    BY <1>1, <2>1, EndingMoves DEF NotEnding
<1>13. CASE Restart
  <2>1. \/ ledger'[m] = ledger[m]
        \/ ledger'[m] = MoveRun(MoveMutation(ledger[m], "RETRY_PENDING"), "RETRY_PENDING")
    BY <1>13 DEF Restart
  <2> QED
    BY <1>1, <2>1, EndingMoves DEF NotEnding
<1>14. ASSUME NEW w \in Worker, NEW n \in Mutation, NEW s \in Store, ItemStep(w, n, s)
      PROVE  FALSE
  BY <1>3, <1>5, <1>6, <1>7, <1>8, <1>14, ConsumeFrames DEF ItemStep
<1>15. ASSUME NEW w \in Worker, ClaimLanes(w) \/ ClaimCleanup(w) PROVE FALSE
  BY <1>3, <1>15 DEF ClaimLanes, ClaimCleanup
<1> QED
  BY <1>3, <1>9, <1>10, <1>11, <1>12, <1>13, <1>14, <1>15, Steps DEF vars

\* A run that shares no artifact is over only with its cleanup.
CleanWhenAlone ==
    \A m \in Mutation :
        ledger[m].run = "ROLLED_BACK" /\ Siblings(m) \subseteq {m} =>
            \A s \in Store : cleanup[m][s].st \in {"NONE", "COMPLETED"}

\* A run that shares no artifact ends when its last cleanup does, and no cleanup
\* is queued for it after that.
LEMMA CleanWhenAloneStep ==
  ASSUME TypeOK, Shape, SqlFirst, CleanWhenAlone, [Next]_vars
  PROVE  CleanWhenAlone'
<1> SUFFICES ASSUME NEW m \in Mutation, ledger'[m].run = "ROLLED_BACK",
                    (Siblings(m) \subseteq {m})'
             PROVE  \A s \in Store : cleanup'[m][s].st \in {"NONE", "COMPLETED"}
  BY DEF CleanWhenAlone
<1>1. Siblings(m) \subseteq {m}
  BY AdmittedStays DEF Siblings
<1>2. CASE ledger[m].run = "ROLLED_BACK"
  <2> SUFFICES ASSUME NEW s \in Store PROVE cleanup'[m][s].st \in {"NONE", "COMPLETED"}
    OBVIOUS
  <2>1. cleanup[m][s].st \in {"NONE", "COMPLETED"}
    BY <1>1, <1>2 DEF CleanWhenAlone
  <2>2. ~RollBack(m)
    BY <1>2 DEF RollBack, MayRollBack, RunNext
  <2>3. ledger'[m] # Reopened(ledger[m])
    BY <1>2 DEF Reopened
  <2>4. ~CleanupQueued(m, s) /\ ~CleanupClaimed(m, s) /\ ~CleanupFinished(m, s)
    BY <2>1, <2>2, <2>3 DEF CleanupQueued, CleanupClaimed, CleanupFinished, Holds
  <2> QED
    BY <2>1, <2>4, CleanupMoves DEF CleanupMoved
<1>3. CASE RollBack(m) /\ Orphans(m) = {}
  <2>1. \A s \in Store : owner[m][s] = "NONE"
    BY <1>1, <1>3 DEF Orphans
  <2>2. m \notin Recorded
    BY <2>1 DEF Recorded, Store
  <2>3. \A s \in Store : cleanup[m][s].st = "NONE"
    BY <2>2 DEF SqlFirst
  <2>4. cleanup'[m] = [s \in Store |-> cleanup[m][s]]
    BY <1>3 DEF RollBack, TypeOK
  <2> QED
    BY <2>3, <2>4
<1> QED
  BY <1>2, <1>3, EndingSteps

\* Every run that shares no artifact and says ROLLED_BACK has finished all of
\* its cleanup, whatever was in flight when the rollback came.
THEOREM RolledBackCleanHolds == Spec => []RolledBackIsClean
<1> DEFINE Inv == TypeOK /\ Shape /\ SqlFirst /\ CleanWhenAlone
<1>1. Init => Inv
  <2> SUFFICES ASSUME Init PROVE Inv
    OBVIOUS
  <2>1. TypeOK /\ Shape
    BY TypeInit, MatchesInit
  <2>2. /\ \A m \in Mutation, s \in Store : /\ lane[m][s] = Row("NONE", 0)
                                            /\ cleanup[m][s] = Row("NONE", 0)
                                            /\ owner[m][s] = "NONE"
        /\ \A w \in Worker : worker[w] = Idle
    BY DEF Init
  <2>3. /\ \A m \in Mutation, s \in Store : <<m, s>> # None
        /\ Idle.todo = {} /\ Idle.ok = {} /\ Idle.cur = None
    BY SMTT(60), NoneIsNoItem DEF Item, Idle
  <2>4. \A w \in Worker : Backed(worker[w], Recorded)
    BY ZenonT(60), <2>2, <2>3 DEF Backed
  <2> QED
    BY <2>1, <2>2, <2>4 DEF Row, SqlFirst, CleanWhenAlone
<1>2. Inv /\ [Next]_vars => Inv'
  BY TypeStep, ShapeStep, SqlFirstStep, CleanWhenAloneStep
<1>3. Inv => RolledBackIsClean
  BY DEF CleanWhenAlone, RolledBackIsClean
<1> QED
  BY <1>1, <1>2, <1>3, PTL DEF Spec

-----------------------------------------------------------------------------
(* Live mutations                                                          *)

\* A mutation the forward path may still move: no rollback, purge, rejection or
\* blocked cleanup holds it.
Live(m) == ~Held(ledger[m])

\* The lanes a consumer answers for: the batch it claimed and the lane it works
\* on, until it turns to the cleanup stage.
Claims(local) == IF local.pc \in CleanPhases THEN {}
                 ELSE local.todo \cup local.ok \cup {local.cur}
\* The cleanup rows it answers for in that stage.
Cleanups(local) == IF local.pc \in CleanPhases THEN local.todo \cup {local.cur} ELSE {}

\* A mutation that was never admitted has no lane, no ownership, no cleanup.
Unadmitted == \A m \in Mutation, s \in Store : ~Admitted(m) =>
    lane[m][s].st = "NONE" /\ owner[m][s] = "NONE" /\ cleanup[m][s].st = "NONE"
\* A purge holds every mutation of its document.
PurgedIsHeld == \A m \in Mutation :
    document[DocOf(m)] = "PURGED" /\ Admitted(m) => ~Live(m)
\* Only a rollback cleans up a canonical row and releases ownership.
ReleasedIsHeld == \A m \in Mutation, s \in Store :
    owner[m][s] = "RELEASED" \/ cleanup[m]["SQL"].st # "NONE" => ~Live(m)
\* A consumer still holds the claim of every lane of a live mutation it answers
\* for, and cleans up only what was queued.
ClaimsKept == \A w \in Worker, m \in Mutation, s \in Store :
    /\ <<m, s>> \in Claims(worker[w]) /\ Live(m) => Holds(w, lane[m][s])
    /\ <<m, s>> \in Cleanups(worker[w]) => cleanup[m][s].st # "NONE"
\* Only the completion of a held mutation turns to deleting its artifacts.
FencedIsHeld == \A w \in Worker, m \in Mutation, s \in Store :
    worker[w].pc \in {"fence", "fenced"} /\ worker[w].cur = <<m, s>> => ~Live(m)
\* The cold path does not judge a committed mutation.
ColdIsEarly == \A w \in Worker, m \in Mutation :
    worker[w].pc \in {"extract", "judge"} /\ worker[w].cur = <<m, "COLD">>
        => ledger[m].mut # "COMMITTED"

LiveInv ==
    /\ RollbackInv /\ LedgerMatches /\ Shape /\ SqlFirst
    /\ Unadmitted /\ PurgedIsHeld /\ ReleasedIsHeld
    /\ ClaimsKept /\ FencedIsHeld

\* The fence of an admitted mutation is up only while something holds it.
LEMMA FencedHeld ==
  ASSUME LiveInv, NEW m \in Mutation, Fenced(m), Admitted(m)
  PROVE  ~Live(m)
<1>1. ledger[m] \in LedgerRow /\ Matched(ledger[m])
  BY DEF LiveInv, RollbackInv, TypeOK, LedgerMatches
<1>2. CASE RowTerminal(ledger[m])
  BY <1>1, <1>2 DEF RowTerminal, Matched, Bound, Live, Held, Terminal, LedgerRow, RunStates, Absent
<1>3. CASE document[DocOf(m)] = "PURGED"
  BY <1>3 DEF LiveInv, PurgedIsHeld
<1> QED
  BY <1>2, <1>3 DEF Fenced

\* A rollback request holds its mutation.
LEMMA RollBackHeld ==
  ASSUME TypeOK, LedgerMatches, NEW m \in Mutation, RollBack(m)
  PROVE  Held(ledger'[m])
<1>1. ledger \in [Mutation -> LedgerRow] /\ ledger[m] \in LedgerRow /\ Bound(ledger[m])
      /\ ledger[m].mut # Absent
  BY DEF TypeOK, LedgerMatches, Matched, RollBack, MayRollBack, Admitted
<1> DEFINE rolling == MoveBoth(ledger[m], "ROLLING_BACK")
<1>2. rolling \in LedgerRow /\ Held(rolling) /\ Bound(rolling)
  BY <1>1, RollingHolds, MoveType DEF Safe
<1>3. Held(MoveBoth(rolling, "ROLLED_BACK"))
  BY <1>2, SafeHandlers DEF Safe
<1>4. ledger'[m] \in {rolling, MoveBoth(rolling, "ROLLED_BACK")}
  BY <1>1 DEF RollBack
<1> QED
  BY <1>2, <1>3, <1>4

\* A purge holds every mutation of the document.
LEMMA PurgeHeld ==
  ASSUME TypeOK, LedgerMatches, NEW d \in Document, PurgeDocument(d), NEW m \in Mutation,
         DocOf(m) = d, Admitted(m)
  PROVE  Held(ledger'[m])
<1>1. ledger[m] \in LedgerRow
  BY DEF TypeOK
<1> DEFINE inside == {n \in Mutation : DocOf(n) = d /\ Admitted(n)}
           purged == {n \in inside : /\ ledger[n].mut \notin Unpurgeable
                                     /\ "PURGED" \in MutationNext(ledger[n].mut)}
<1>2. ledger'[m] = IF m \in purged THEN MoveMutation(ledger[m], "PURGED") ELSE ledger[m]
  BY DEF PurgeDocument
<1>3. m \in purged <=> /\ ledger[m].mut \notin Unpurgeable
                       /\ "PURGED" \in MutationNext(ledger[m].mut)
  OBVIOUS
<1>4. CASE m \in purged
  <2>1. ledger'[m].mut = "PURGED"
    BY <1>2, <1>3, <1>4 DEF MoveMutation
  <2> QED
    BY <2>1 DEF Held, Terminal
<1>5. CASE m \notin purged
  <2>1. ledger[m].mut \in {"ROLLING_BACK", "PURGED", "ROLLED_BACK", "REJECTED", "CANCELLED"}
    BY <1>1, <1>3, <1>5
       DEF Admitted, LedgerRow, MutationStates, MutationNext, Interruptions, Unpurgeable, Absent
  <2> QED
    BY <1>2, <1>5, <2>1 DEF Held, Terminal
<1> QED
  BY <1>4, <1>5

\* What holds a mutation keeps holding it.
LEMMA LiveBefore ==
  ASSUME LiveInv, [Next]_vars, \A v, u \in Worker : v = u, NEW m \in Mutation, Live(m)'
  PROVE  Live(m)
  BY HeldForever DEF Live, LiveInv

\* A consumer in its cleanup stage or done with its iteration answers for no lane.
LEMMA ClaimsDropped ==
  ASSUME NEW w \in Worker, NEW pc, NEW cur, NEW todo, NEW ok, NEW bad,
         Moved(w, pc, cur, todo, ok, bad)
  PROVE  /\ pc \in CleanPhases => Claims(worker'[w]) = {}
         /\ pc \notin CleanPhases => Claims(worker'[w]) = todo \cup ok \cup {cur}
  BY DEF Moved, Claims

\* A consumer takes up lanes only when it claims them (claim_projection_outbox).
LEMMA ClaimsShrink ==
  ASSUME TypeOK, Shape, NEW w \in Worker, Consume(w), ~ClaimLanes(w),
         NEW n \in Mutation, NEW x \in Store, <<n, x>> \in Claims(worker'[w])
  PROVE  <<n, x>> \in Claims(worker[w])
<1> DEFINE pc == worker[w].pc
           cur == worker[w].cur
           todo == worker[w].todo
           ok == worker[w].ok
           bad == worker[w].bad
           item == <<n, x>>
           To(phase, y) == Moved(w, phase, cur, todo, ok, y)
           Kept == item \in todo \cup ok \cup {cur}
<1>1. /\ Shaped(worker[w]) /\ item # None /\ None \notin Item
      /\ \A m \in Mutation : item # <<m, "COLD">>
  BY NoneIsNoItem DEF Shape, Item, Store
<1>2. ASSUME NEW phase, NEW y, To(phase, y) PROVE Kept
  BY <1>2, ClaimsDropped
<1>3. ASSUME NEW phase, NEW y, Moved(w, phase, None, todo, ok, y) PROVE Kept
  BY <1>1, <1>3, ClaimsDropped
<1>4. Moved(w, "idle", None, {}, {}, {}) => FALSE
  <2>1. "idle" \notin CleanPhases
    BY DEF CleanPhases
  <2> QED
    BY <1>1, <2>1, ClaimsDropped
<1>5. \A phase \in CleanPhases : \A c, t, o, b : ~Moved(w, phase, c, t, o, b)
  BY ClaimsDropped
<1>6. CASE ColdPath(w)
  <2>1. PICK m \in Mutation : \/ ColdLoad(w, m) \/ ColdExtract(w, m) \/ ColdJudge(w, m)
                              \/ ColdVerified(w, m) \/ ColdUnverified(w, m)
    BY <1>6 DEF ColdPath
  <2>2. /\ pc \in ColdPhases
        /\ \/ \E phase : Moved(w, phase, <<m, "COLD">>, todo \ {<<m, "COLD">>}, ok, bad)
           \/ \E phase : To(phase, bad)
           \/ Moved(w, "idle", None, {}, {}, {})
    BY <2>1, LocalMoves
       DEF ColdLoad, ColdExtract, ColdJudge, ColdVerified, ColdUnverified, At, ColdPhases
  <2>3. Kept
    BY <1>1, <1>2, <1>4, <2>2, ClaimsDropped
  <2>4. pc \notin CleanPhases
    BY <2>2 DEF ColdPhases, CleanPhases
  <2> QED
    BY <2>3, <2>4 DEF Claims
<1>7. CASE Project(w)
  <2>1. PICK m \in Mutation, s \in Store :
           \/ StartLane(w, m, s) \/ ListAssertions(w, m, s) \/ CheckFence(w, m, s)
           \/ WriteArtifact(w, m, s) \/ RecordArtifact(w, m, s) \/ CommitGraph(w, m)
           \/ UndoWrite(w, m, s) \/ SettleUndo(w, m, s) \/ FailLane(w, m, s)
           \/ SkipLane(w, m, s) \/ FinishLane(w, m, s)
           \/ DeleteProjected(w, m, s) \/ SettleFence(w, m, s)
    BY <1>7 DEF Project
  <2>2. pc \notin CleanPhases
    BY <2>1
       DEF StartLane, ListAssertions, CheckFence, WriteArtifact, RecordArtifact, CommitGraph,
           UndoWrite, SettleUndo, FailLane, SkipLane, FinishLane, DeleteProjected, SettleFence,
           At, CleanPhases
  <2>3. CASE StartLane(w, m, s)
    <3>1. PICK phase : Moved(w, phase, <<m, s>>, todo \ {<<m, s>>}, ok, bad)
      BY <2>3, LocalMoves DEF StartLane
    <3>2. <<m, s>> \in todo
      BY <2>3 DEF StartLane, First
    <3>3. Kept
      BY <3>1, <3>2, ClaimsDropped
    <3> QED
      BY <2>2, <3>3 DEF Claims
  <2>4. CASE ListAssertions(w, m, s) \/ RecordArtifact(w, m, s) \/ CommitGraph(w, m)
    <3>1. (\E phase : To(phase, bad)) \/ Moved(w, "next", None, todo, ok \cup {cur}, bad)
      BY <2>4, LocalMoves DEF ListAssertions, RecordArtifact, CommitGraph
    <3>2. Kept
      BY <1>1, <1>2, <3>1, ClaimsDropped
    <3> QED
      BY <2>2, <3>2 DEF Claims
  <2>5. CASE \/ CheckFence(w, m, s) \/ WriteArtifact(w, m, s) \/ UndoWrite(w, m, s)
             \/ SettleUndo(w, m, s) \/ DeleteProjected(w, m, s)
    <3>1. \E phase, y : To(phase, y)
      BY <2>5, LocalMoves
         DEF CheckFence, WriteArtifact, UndoWrite, SettleUndo, DeleteProjected
    <3>2. Kept
      BY <1>2, <3>1
    <3> QED
      BY <2>2, <3>2 DEF Claims
  <2>6. CASE FailLane(w, m, s) \/ SettleFence(w, m, s)
    <3>1. Moved(w, "next", None, todo, ok, {})
      BY <2>6, LocalMoves DEF FailLane, SettleFence
    <3>2. Kept
      BY <1>3, <3>1
    <3> QED
      BY <2>2, <3>2 DEF Claims
  <2>7. CASE SkipLane(w, m, s) \/ FinishLane(w, m, s)
    <3>1. PICK outcome : CompleteLane(w, m, s, outcome)
      BY <2>7 DEF SkipLane, FinishLane
    <3>2. <<m, s>> \in ok \cup {cur}
      BY <2>7 DEF SkipLane, FinishLane, At, First
    <3>3. \/ \E y : Moved(w, "fence", <<m, s>>, todo, ok \ {<<m, s>>}, y)
          \/ To("failSoft", bad)
          \/ Moved(w, "idle", None, {}, {}, {})
          \/ Moved(w, "next", None, todo, ok \ {<<m, s>>}, bad)
      BY <3>1, CompletionMoves
    <3>4. Kept
      BY <1>1, <1>2, <1>4, <3>2, <3>3, ClaimsDropped
    <3> QED
      BY <2>2, <3>4 DEF Claims
  <2> QED
    BY <2>1, <2>3, <2>4, <2>5, <2>6, <2>7
<1>8. ASSUME ClaimCleanup(w) \/ Clean(w) PROVE FALSE
  <2>1. {"clean", "cleaned", "cleanFail"} \subseteq CleanPhases
    BY DEF CleanPhases
  <2>2. CASE ClaimCleanup(w)
    <3>1. \/ Moved(w, "idle", None, {}, {}, {})
          \/ \E ready : Moved(w, "clean", cur, ready, ok, bad)
      BY <2>2, ClaimCleanupMoves
    <3> QED
      BY <1>4, <1>5, <2>1, <3>1
  <2>3. ASSUME NEW m \in Mutation, NEW s \in Store, ApplyCleanup(w, m, s) PROVE FALSE
    <3>1. \E phase \in {"cleaned", "cleanFail"} :
             Moved(w, phase, <<m, s>>, todo \ {<<m, s>>}, ok, bad)
      BY <2>3, LocalMoves DEF ApplyCleanup
    <3> QED
      BY <1>5, <2>1, <3>1
  <2>4. ASSUME NEW m \in Mutation, NEW s \in Store, FinishCleanup(w, m, s) PROVE FALSE
    <3>1. \/ Moved(w, "idle", None, {}, {}, {})
          \/ Moved(w, "clean", None, todo, ok, bad)
      BY <2>4, FinishCleanupMoves
    <3> QED
      BY <1>4, <1>5, <2>1, <3>1
  <2> QED
    BY <1>8, <2>2, <2>3, <2>4 DEF Clean
<1> QED
  BY <1>6, <1>7, <1>8 DEF Consume

\* A lane that is reported failed or finished leaves the batch
\* (fail_projection_outbox, complete_projection_outbox).
LEMMA ClaimsEnd ==
  ASSUME TypeOK, Shape, NEW w \in Worker, NEW m \in Mutation, NEW s \in Store,
         <<m, s>> \in Claims(worker'[w])
  PROVE  /\ ~FailLane(w, m, s)
         /\ FinishLane(w, m, s) \/ SkipLane(w, m, s) => Fenced(m) \/ UNCHANGED lane
<1> DEFINE todo == worker[w].todo
           ok == worker[w].ok
           cur == worker[w].cur
<1>1. Shaped(worker[w]) /\ <<m, s>> # None
  BY NoneIsNoItem DEF Shape, Item
<1>2. "next" \notin CleanPhases /\ "idle" \notin CleanPhases
  BY DEF CleanPhases
<1>3. ASSUME FailLane(w, m, s) PROVE FALSE
  <2>1. Moved(w, "next", None, todo, ok, {}) /\ cur = <<m, s>>
    BY <1>3, LocalMoves DEF FailLane, At
  <2> QED
    BY <1>1, <1>2, <2>1, ClaimsDropped DEF Shaped
<1>4. ASSUME FinishLane(w, m, s) \/ SkipLane(w, m, s), ~Fenced(m), lane' # lane PROVE FALSE
  <2>1. PICK outcome : CompleteLane(w, m, s, outcome)
    BY <1>4 DEF SkipLane, FinishLane
  <2>2. Moved(w, "next", None, todo, ok \ {<<m, s>>}, worker[w].bad)
    BY <1>4, <2>1, CompletionMoves
  <2>3. <<m, s>> \notin todo
    BY <1>1, <1>4 DEF SkipLane, FinishLane, At, Shaped
  <2> QED
    BY <1>1, <1>2, <2>2, <2>3, ClaimsDropped
<1> QED
  BY <1>3, <1>4

\* A batch is claimed whole (claim_projection_outbox).
LEMMA ClaimsTaken ==
  ASSUME TypeOK, Shape, NEW w \in Worker, ClaimLanes(w), NEW m \in Mutation, NEW s \in Store,
         <<m, s>> \in Claims(worker'[w])
  PROVE  Holds(w, lane'[m][s]) /\ lane[m][s].st # "NONE"
<1>1. PICK b \in SUBSET {i \in Mutation \X Store : Claimable(i[1], i[2])} :
         /\ lane' = [n \in Mutation |-> [x \in Store |->
                       IF <<n, x>> \in b THEN Claim(lane[n][x], w) ELSE lane[n][x]]]
         /\ worker' = [worker EXCEPT ![w].pc = "next", ![w].todo = b]
  BY DEF ClaimLanes
<1>2. Moved(w, "next", worker[w].cur, b, worker[w].ok, worker[w].bad)
  BY <1>1, LocalMoves
<1>3. worker[w].ok = {} /\ worker[w].cur = None /\ <<m, s>> # None /\ "next" \notin CleanPhases
  BY NoneIsNoItem DEF ClaimLanes, Shape, Shaped, ColdPhases, CleanPhases, Item
<1>4. <<m, s>> \in b
  BY <1>2, <1>3, ClaimsDropped
<1>5. lane'[m][s] = Claim(lane[m][s], w) /\ Claimable(m, s)
  BY <1>1, <1>4
<1> QED
  BY <1>5 DEF Holds, Claim, Claimable

\* A consumer that restarted answers for nothing.
LEMMA RestartForgets ==
  ASSUME Restart, NEW w \in Worker, NEW m \in Mutation, NEW s \in Store
  PROVE  <<m, s>> \notin Claims(worker'[w]) /\ <<m, s>> \notin Cleanups(worker'[w])
<1>1. worker'[w] = Idle /\ <<m, s>> # None
  BY NoneIsNoItem DEF Restart, Item
<1> QED
  BY <1>1 DEF Claims, Cleanups, Idle, CleanPhases

\* The lanes of a step's consumers.
LEMMA ClaimsBefore ==
  ASSUME TypeOK, Shape, [Next]_vars, \A v, u \in Worker : v = u, NEW w \in Worker, ~ClaimLanes(w),
         NEW m \in Mutation, NEW s \in Store, <<m, s>> \in Claims(worker'[w])
  PROVE  <<m, s>> \in Claims(worker[w]) /\ ~Restart
<1>1. ~Restart
  BY RestartForgets
<1>2. CASE Consume(w)
  BY <1>1, <1>2, ClaimsShrink
<1>3. CASE UNCHANGED worker
  BY <1>1, <1>3
<1>4. Request => UNCHANGED worker
  BY DEF Request, Admit, RequestRollback, RollBack, Replay, PurgeRollback, PurgeDocument
<1> QED
  BY <1>1, <1>2, <1>3, <1>4 DEF Next, vars

\* A claim is kept until its lane is finished, failed, or taken by what holds
\* its mutation.
LEMMA ClaimsStay ==
  ASSUME LiveInv, [Next]_vars, \A v, u \in Worker : v = u,
         NEW w \in Worker, NEW m \in Mutation, NEW s \in Store,
         <<m, s>> \in Claims(worker'[w]), Live(m)'
  PROVE  Holds(w, lane'[m][s])
<1>1. TypeOK /\ Shape /\ LedgerMatches /\ Unadmitted
  BY DEF LiveInv, RollbackInv
<1>2. CASE ClaimLanes(w)
  BY <1>1, <1>2, ClaimsTaken
<1>3. CASE ~ClaimLanes(w)
  <2>1. <<m, s>> \in Claims(worker[w]) /\ ~Restart
    BY <1>1, <1>3, ClaimsBefore
  <2>2. Live(m)
    BY LiveBefore
  <2>3. Holds(w, lane[m][s])
    BY <2>1, <2>2 DEF LiveInv, ClaimsKept
  <2>4. Admitted(m) /\ ~Fenced(m)
    BY <1>1, <2>2, <2>3, FencedHeld DEF Unadmitted, Holds
  <2>5. ~RollBack(m) /\ ~Held(ledger'[m])
    BY <1>1, RollBackHeld DEF Live
  <2>6. \A v \in Worker : ~FailLane(v, m, s)
    BY <1>1, ClaimsEnd
  <2>7. ~LaneDropped(m, s)
    BY <2>1, <2>3, <2>4, <2>5, <2>6 DEF LaneDropped, Holds
  <2>8. ~LaneClaimed(m, s)
    BY <1>3 DEF LaneClaimed
  <2>9. LaneFinished(m, s) => UNCHANGED lane
    BY <1>1, <2>4, ClaimsEnd DEF LaneFinished
  <2> QED
    BY <1>1, <2>3, <2>7, <2>8, <2>9, LaneMoves DEF LaneMoved
<1> QED
  BY <1>2, <1>3

\* A cleanup row is never taken back.
LEMMA CleanupStays ==
  ASSUME TypeOK, [Next]_vars, NEW m \in Mutation, NEW s \in Store, cleanup[m][s].st # "NONE"
  PROVE  cleanup'[m][s].st # "NONE"
  BY CleanupMoves DEF CleanupMoved, CleanupQueued, CleanupClaimed, CleanupFinished

\* Only the cleanup stage reaches its phases.
LEMMA ForwardPhases ==
  ASSUME TypeOK, NEW w \in Worker, ColdPath(w) \/ ClaimLanes(w) \/ Project(w)
  PROVE  worker'[w].pc \notin CleanPhases
<1> DEFINE pc == worker'[w].pc
           cur == worker[w].cur
           todo == worker[w].todo
           ok == worker[w].ok
           bad == worker[w].bad
           LanePhases == {"skip", "failHard", "check", "list", "write", "next", "failSoft",
                       "record", "undo", "commit", "undone", "fenced"}
<1>1. CASE ColdPath(w)
  <2>1. PICK m \in Mutation : \/ ColdLoad(w, m) \/ ColdExtract(w, m) \/ ColdJudge(w, m)
                              \/ ColdVerified(w, m) \/ ColdUnverified(w, m)
    BY <1>1 DEF ColdPath
  <2>2. \/ \E phase \in ColdPhases : Moved(w, phase, <<m, "COLD">>, todo \ {<<m, "COLD">>}, ok, bad)
        \/ \E phase \in ColdPhases : Moved(w, phase, cur, todo, ok, bad)
        \/ Moved(w, "idle", None, {}, {}, {})
    BY <2>1, LocalMoves
       DEF ColdLoad, ColdExtract, ColdJudge, ColdVerified, ColdUnverified, ColdPhases
  <2> QED
    BY <2>2 DEF Moved, ColdPhases, CleanPhases
<1>2. CASE ClaimLanes(w)
  <2>1. \E b : worker' = [worker EXCEPT ![w].pc = "next", ![w].todo = b]
    BY <1>2 DEF ClaimLanes
  <2>2. pc = "next"
    <3>1. PICK b : Moved(w, "next", worker[w].cur, b, worker[w].ok, worker[w].bad)
      BY <2>1, LocalMoves
    <3> QED
      BY <3>1 DEF Moved
  <2> QED
    BY <2>2 DEF CleanPhases
<1>3. CASE Project(w)
  <2>1. PICK m \in Mutation, s \in Store :
           \/ StartLane(w, m, s) \/ ListAssertions(w, m, s) \/ CheckFence(w, m, s)
           \/ WriteArtifact(w, m, s) \/ RecordArtifact(w, m, s) \/ CommitGraph(w, m)
           \/ UndoWrite(w, m, s) \/ SettleUndo(w, m, s) \/ FailLane(w, m, s)
           \/ SkipLane(w, m, s) \/ FinishLane(w, m, s)
           \/ DeleteProjected(w, m, s) \/ SettleFence(w, m, s)
    BY <1>3 DEF Project
  <2>2. CASE SkipLane(w, m, s) \/ FinishLane(w, m, s)
    <3>1. PICK outcome : CompleteLane(w, m, s, outcome)
      BY <2>2 DEF SkipLane, FinishLane
    <3>2. pc = "fence" \/ pc = "failSoft" \/ pc = "idle" \/ pc = "next"
      BY <3>1, CompletionMoves DEF Moved
    <3> QED
      BY <3>2 DEF CleanPhases
  <2>3. CASE ~(SkipLane(w, m, s) \/ FinishLane(w, m, s))
    <3>1. CASE StartLane(w, m, s)
      <4>1. \E phase \in LanePhases : Moved(w, phase, <<m, s>>, todo \ {<<m, s>>}, ok, bad)
        BY <3>1, LocalMoves DEF StartLane
      <4> QED
        BY <4>1 DEF Moved, CleanPhases
    <3>2. CASE ListAssertions(w, m, s) \/ RecordArtifact(w, m, s) \/ CommitGraph(w, m)
      <4>1. \/ \E phase \in LanePhases : Moved(w, phase, cur, todo, ok, bad)
            \/ Moved(w, "next", None, todo, ok \cup {cur}, bad)
        BY <3>2, LocalMoves DEF ListAssertions, RecordArtifact, CommitGraph
      <4> QED
        BY <4>1 DEF Moved, CleanPhases
    <3>3. CASE \/ CheckFence(w, m, s) \/ WriteArtifact(w, m, s) \/ UndoWrite(w, m, s)
               \/ SettleUndo(w, m, s) \/ DeleteProjected(w, m, s)
      <4>1. \E phase, y : phase \in LanePhases /\ Moved(w, phase, cur, todo, ok, y)
        <5>1. CASE CheckFence(w, m, s) \/ WriteArtifact(w, m, s)
          <6>1. \/ Moved(w, "failSoft", cur, todo, ok, bad)
                \/ Moved(w, "write", cur, todo, ok, bad)
                \/ Moved(w, "record", cur, todo, ok, bad)
                \/ Moved(w, "undo", cur, todo, ok, bad)
            BY <5>1, LocalMoves DEF CheckFence, WriteArtifact
          <6> QED
            BY <6>1
        <5>2. CASE SettleUndo(w, m, s)
          <6>1. Moved(w, "failSoft", cur, todo, ok, {})
            BY <5>2, LocalMoves DEF SettleUndo
          <6> QED
            BY <6>1
        <5>3. CASE UndoWrite(w, m, s)
          <6>1. PICK failed : \E phase : /\ phase \in {"failSoft", "undone"}
                                        /\ Moved(w, phase, cur, todo, ok, failed)
            BY <5>3, LocalMoves DEF UndoWrite
          <6> QED
            BY <6>1
        <5>4. CASE DeleteProjected(w, m, s)
          <6>1. PICK failed \in SUBSET bad : Moved(w, "fenced", cur, todo, ok, failed)
            BY <5>4, LocalMoves DEF DeleteProjected, DeleteFailures
          <6> QED
            BY <6>1
        <5> QED
          BY <3>3, <5>1, <5>2, <5>3, <5>4
      <4> QED
        BY <4>1 DEF Moved, CleanPhases
    <3>4. CASE FailLane(w, m, s) \/ SettleFence(w, m, s)
      <4>1. Moved(w, "next", None, todo, ok, {})
        BY <3>4, LocalMoves DEF FailLane, SettleFence
      <4> QED
        BY <4>1 DEF Moved, CleanPhases
    <3> QED
      BY <2>1, <2>3, <3>1, <3>2, <3>3, <3>4
  <2> QED
    BY <2>2, <2>3
<1> QED
  BY <1>1, <1>2, <1>3

\* The rows a consumer cleans up were queued (claim_artifact_cleanup).
LEMMA CleanupsQueued ==
  ASSUME TypeOK, Shape, ClaimsKept, [Next]_vars, \A v, u \in Worker : v = u,
         NEW w \in Worker, NEW m \in Mutation, NEW s \in Store, <<m, s>> \in Cleanups(worker'[w])
  PROVE  cleanup'[m][s].st # "NONE"
<1> DEFINE todo == worker[w].todo
           ok == worker[w].ok
           bad == worker[w].bad
           item == <<m, s>>
<1>1. Shaped(worker[w]) /\ item # None
      /\ worker'[w].pc \in CleanPhases /\ item \in worker'[w].todo \cup {worker'[w].cur}
  BY NoneIsNoItem DEF Shape, Item, Cleanups
<1>2. CASE item \in Cleanups(worker[w])
  BY <1>2, CleanupStays DEF ClaimsKept
<1>3. CASE UNCHANGED worker \/ Restart
  BY <1>2, <1>3, RestartForgets
<1>4. CASE ClaimCleanup(w)
  <2>1. PICK ready \in SUBSET (Mutation \X Store) :
            /\ \A n \in Mutation, x \in Store : <<n, x>> \in ready =>
                  cleanup[n][x].st \in {"PENDING", "RETRY_PENDING", "IN_FLIGHT"}
            /\ \/ Moved(w, "idle", None, {}, {}, {})
               \/ Moved(w, "clean", worker[w].cur, ready, ok, bad)
    BY SMTT(60), <1>4, ClaimCleanupMoves
  <2>2. worker[w].cur = None
    BY <1>1, <1>4 DEF ClaimCleanup, Shaped
  <2>3. item \in ready
    BY <1>1, <2>1, <2>2 DEF Moved, CleanPhases
  <2>4. cleanup[m][s].st # "NONE"
    BY <2>1, <2>3
  <2> QED
    BY <2>4, CleanupStays
<1>5. ASSUME NEW n \in Mutation, NEW x \in Store, ApplyCleanup(w, n, x) PROVE item \in Cleanups(worker[w])
  <2>1. PICK phase \in {"cleaned", "cleanFail"} :
           Moved(w, phase, <<n, x>>, todo \ {<<n, x>>}, ok, bad)
    BY <1>5, LocalMoves DEF ApplyCleanup
  <2>2. worker[w].pc \in CleanPhases /\ <<n, x>> \in todo
    BY <1>5 DEF ApplyCleanup, CleanPhases
  <2> QED
    BY <1>1, <2>1, <2>2 DEF Moved, Cleanups
<1>6. ASSUME NEW n \in Mutation, NEW x \in Store, FinishCleanup(w, n, x) PROVE item \in Cleanups(worker[w])
  <2>1. \/ Moved(w, "idle", None, {}, {}, {})
        \/ Moved(w, "clean", None, todo, ok, bad)
    BY <1>6, FinishCleanupMoves
  <2>2. worker[w].pc \in CleanPhases
    BY <1>6 DEF FinishCleanup, At, CleanPhases
  <2> QED
    BY <1>1, <2>1, <2>2 DEF Moved, Cleanups, CleanPhases
<1>7. ~(ColdPath(w) \/ ClaimLanes(w) \/ Project(w))
  BY <1>1, ForwardPhases
<1>8. Request => UNCHANGED worker
  BY DEF Request, Admit, RequestRollback, RollBack, Replay, PurgeRollback, PurgeDocument
<1> QED
  BY <1>2, <1>3, <1>4, <1>5, <1>6, <1>7, <1>8 DEF Next, Consume, Clean, vars

\* Nothing is written for a mutation before its admission.
LEMMA UnadmittedStep ==
  ASSUME LiveInv, [Next]_vars, NEW m \in Mutation, NEW s \in Store, ~Admitted(m)'
  PROVE  lane'[m][s].st = "NONE" /\ owner'[m][s] = "NONE" /\ cleanup'[m][s].st = "NONE"
<1>1. TypeOK /\ Shape /\ ~Admitted(m) /\ SqlFirst
  BY AdmittedStays DEF LiveInv, RollbackInv
<1>2. lane[m][s].st = "NONE" /\ owner[m][s] = "NONE" /\ cleanup[m][s].st = "NONE"
  BY <1>1 DEF LiveInv, Unadmitted
<1>3. "SQL" \in Store
  BY DEF Store
<1>4. m \notin Recorded
  BY <1>1, <1>3 DEF LiveInv, Unadmitted, Recorded
<1>5. ~Held(ledger[m])
  BY <1>1 DEF Admitted, Held, Terminal, Absent
<1>6. lane'[m][s].st = "NONE"
  <2>1. ~LaneDropped(m, s)
    BY <1>2 DEF LaneDropped, Admitted
  <2>2. ~LaneClaimed(m, s)
    BY <1>2 DEF LaneClaimed, Claimable
  <2>3. ~LaneFinished(m, s)
    BY <1>2 DEF LaneFinished, Holds
  <2> QED
    BY <1>1, <1>2, <2>1, <2>2, <2>3, LaneMoves DEF LaneMoved
<1>7. cleanup'[m][s].st = "NONE"
  BY <1>1, <1>4, CleanupBacked
<1>8. ~RollBack(m)
  BY <1>1 DEF RollBack, MayRollBack
<1>9. owner'[m][s] = "NONE"
  <2>1. owner \in [Mutation -> [Store -> OwnerStates]]
    BY <1>1 DEF TypeOK
  <2>2. ASSUME NEW w \in Worker, NEW n \in Mutation, NEW x \in Store, RecordArtifact(w, n, x)
        PROVE  owner'[m][s] = owner[m][s]
    <3>1. <<n, x>> \in Claims(worker[w])
      BY <2>2 DEF RecordArtifact, At, Claims, CleanPhases
    <3>2. ~(n = m /\ x = s)
      BY <1>2, <1>5, <3>1 DEF LiveInv, ClaimsKept, Live, Holds
    <3>3. owner' = owner \/ owner' = [owner EXCEPT ![n][x] = IF @ = "NONE" THEN "ACTIVE" ELSE @]
      BY <2>2 DEF RecordArtifact
    <3> QED
      BY <2>1, <3>2, <3>3
  <2>3. ASSUME NEW n \in Mutation, RollBack(n) PROVE owner'[m][s] = owner[m][s]
    <3>1. n # m
      BY <1>8, <2>3
    <3> QED
      BY <2>1, <2>3, <3>1 DEF RollBack
  <2> QED
    BY <1>2, <2>2, <2>3, OwnerActions
<1> QED
  BY <1>6, <1>7, <1>9

\* A purge keeps holding what it fenced, and a purged document admits nothing.
LEMMA PurgedIsHeldStep ==
  ASSUME LiveInv, [Next]_vars, \A v, u \in Worker : v = u,
         NEW m \in Mutation, document'[DocOf(m)] = "PURGED", Admitted(m)'
  PROVE  ~Live(m)'
<1>1. TypeOK /\ LedgerMatches /\ RollbackInv
  BY DEF LiveInv, RollbackInv
<1>2. CASE Admitted(m)
  <2>1. CASE document[DocOf(m)] = "PURGED"
    BY <1>1, <1>2, <2>1, HeldForever DEF LiveInv, PurgedIsHeld, Live
  <2>2. CASE document[DocOf(m)] # "PURGED"
    <3>1. PICK d \in Document : PurgeDocument(d)
      BY <2>2, DocumentActions
    <3>2. d = DocOf(m)
      BY <1>1, <2>2, <3>1 DEF PurgeDocument, TypeOK
    <3> QED
      BY <1>1, <1>2, <3>1, <3>2, PurgeHeld DEF Live
  <2> QED
    BY <2>1, <2>2
<1>3. CASE ~Admitted(m)
  <2>1. Admit(m)
    BY <1>1, <1>3, StepMoves, MovesKeep DEF LedgerMoved, Admitted, TypeOK
  <2>2. document[DocOf(m)] # "PURGED" /\ document' = document
    BY <2>1 DEF Admit
  <2> QED
    BY <2>2
<1> QED
  BY <1>2, <1>3

\* Only a rollback releases ownership and queues canonical cleanup.
LEMMA ReleasedIsHeldStep ==
  ASSUME LiveInv, [Next]_vars, \A v, u \in Worker : v = u, NEW m \in Mutation, NEW s \in Store,
         owner'[m][s] = "RELEASED" \/ cleanup'[m]["SQL"].st # "NONE"
  PROVE  ~Live(m)'
<1>1. TypeOK /\ LedgerMatches /\ Shape
  BY DEF LiveInv, RollbackInv
<1>2. "SQL" \in Store /\ "SQL" \notin Optional
  BY DEF Store, Optional
<1> SUFFICES ASSUME Live(m)' PROVE FALSE
  OBVIOUS
<1>3. Live(m)
  BY LiveBefore
<1>4. ~RollBack(m)
  BY <1>1, RollBackHeld DEF Live
<1>5. owner[m][s] # "RELEASED" /\ cleanup[m]["SQL"].st = "NONE"
  BY <1>3 DEF LiveInv, ReleasedIsHeld
<1>6. cleanup'[m]["SQL"].st = "NONE"
  <2>1. ~CleanupQueued(m, "SQL")
    <3> SUFFICES ASSUME NEW w \in Worker, Compensates(w, m), "SQL" \in worker[w].bad PROVE FALSE
      BY <1>4 DEF CleanupQueued
    <3>1. worker[w].pc \in {"undone", "fenced"}
      BY DEF Compensates
    <3> QED
      BY <1>1, <1>2, <3>1 DEF Shape, Shaped
  <2> QED
    BY <1>1, <1>2, <1>5, <2>1, CleanupMoves
       DEF CleanupMoved, CleanupClaimed, CleanupFinished, Holds
<1>7. owner'[m][s] # "RELEASED"
  <2>1. owner \in [Mutation -> [Store -> OwnerStates]]
    BY <1>1 DEF TypeOK
  <2>2. ASSUME NEW w \in Worker, NEW n \in Mutation, NEW x \in Store, RecordArtifact(w, n, x)
        PROVE  owner'[m][s] # "RELEASED"
    <3>1. owner' = owner \/ owner' = [owner EXCEPT ![n][x] = IF @ = "NONE" THEN "ACTIVE" ELSE @]
      BY <2>2 DEF RecordArtifact
    <3> QED
      BY <1>5, <2>1, <3>1
  <2>3. ASSUME NEW n \in Mutation, RollBack(n) PROVE owner'[m][s] # "RELEASED"
    <3>1. n # m
      BY <1>4, <2>3
    <3> QED
      BY <1>5, <2>1, <2>3, <3>1 DEF RollBack
  <2> QED
    BY <1>5, <2>2, <2>3, OwnerActions
<1> QED
  BY <1>6, <1>7

\* Only the completion of a held mutation turns to deleting what it projected
\* (complete_projection_outbox).
LEMMA FencedIsHeldStep ==
  ASSUME LiveInv, [Next]_vars, \A v, u \in Worker : v = u,
         NEW w \in Worker, NEW m \in Mutation, NEW s \in Store,
         worker'[w].pc \in {"fence", "fenced"}, worker'[w].cur = <<m, s>>
  PROVE  ~Live(m)'
<1>1. TypeOK /\ LedgerMatches /\ Shape
  BY DEF LiveInv, RollbackInv
<1> SUFFICES ASSUME Live(m)' PROVE FALSE
  OBVIOUS
<1>2. Live(m)
  BY LiveBefore
<1>3. ~(worker[w].pc \in {"fence", "fenced"} /\ worker[w].cur = <<m, s>>)
  BY <1>2 DEF LiveInv, FencedIsHeld
<1>4. "fence" \notin CleanPhases /\ "fenced" \notin CleanPhases
  BY DEF CleanPhases
<1>5. <<m, s>> \in Claims(worker'[w])
  BY <1>4 DEF Claims
<1>6. ~ClaimLanes(w)
  <2> SUFFICES ASSUME ClaimLanes(w) PROVE FALSE
    OBVIOUS
  <2>1. PICK b : worker' = [worker EXCEPT ![w].pc = "next", ![w].todo = b]
    BY DEF ClaimLanes
  <2>2. Moved(w, "next", worker[w].cur, b, worker[w].ok, worker[w].bad)
    BY <1>1, <2>1, LocalMoves
  <2> QED
    BY <2>2 DEF Moved
<1>7. <<m, s>> \in Claims(worker[w]) /\ ~Restart
  BY <1>1, <1>5, <1>6, ClaimsBefore
<1>8. Holds(w, lane[m][s])
  BY <1>2, <1>7 DEF LiveInv, ClaimsKept
<1>9. Admitted(m) /\ ~Fenced(m)
  BY <1>1, <1>2, <1>8, FencedHeld DEF LiveInv, Unadmitted, Holds
<1>10. ASSUME NEW n \in Mutation, NEW x \in Store, SkipLane(w, n, x) \/ FinishLane(w, n, x)
       PROVE  FALSE
  <2>1. PICK outcome : CompleteLane(w, n, x, outcome)
    BY <1>10 DEF SkipLane, FinishLane
  <2>2. PICK y : /\ ~Holds(w, lane[n][x]) \/ Fenced(n)
                 /\ Moved(w, "fence", <<n, x>>, worker[w].todo, worker[w].ok \ {<<n, x>>}, y)
    <3>1. ~Moved(w, "failSoft", worker[w].cur, worker[w].todo, worker[w].ok, worker[w].bad)
      BY DEF Moved
    <3>2. /\ ~Moved(w, "idle", None, {}, {}, {})
          /\ ~Moved(w, "next", None, worker[w].todo, worker[w].ok \ {<<n, x>>}, worker[w].bad)
      BY DEF Moved
    <3> QED
      BY <1>1, <2>1, <3>1, <3>2, CompletionMoves
  <2>3. n = m /\ x = s
    BY <2>2 DEF Moved
  <2> QED
    BY <1>8, <1>9, <2>2, <2>3
<1>11. ASSUME NEW n \in Mutation, NEW x \in Store, DeleteProjected(w, n, x) PROVE FALSE
  <2>1. PICK y : Moved(w, "fenced", worker[w].cur, worker[w].todo, worker[w].ok, y)
    BY <1>1, <1>11, LocalMoves DEF DeleteProjected
  <2> QED
    BY <1>3, <1>11, <2>1 DEF DeleteProjected, At, Moved
<1>12. CASE Project(w)
  <2> DEFINE cur == worker[w].cur
             todo == worker[w].todo
             ok == worker[w].ok
             bad == worker[w].bad
  <2>1. PICK n \in Mutation, x \in Store :
           \/ StartLane(w, n, x) \/ ListAssertions(w, n, x) \/ CheckFence(w, n, x)
           \/ WriteArtifact(w, n, x) \/ RecordArtifact(w, n, x) \/ CommitGraph(w, n)
           \/ UndoWrite(w, n, x) \/ SettleUndo(w, n, x) \/ FailLane(w, n, x)
           \/ SettleFence(w, n, x)
    BY <1>10, <1>11, <1>12 DEF Project
  <2>2. CASE StartLane(w, n, x)
    <3>1. PICK phase \in {"skip", "failHard", "check", "list"} :
             Moved(w, phase, <<n, x>>, todo \ {<<n, x>>}, ok, bad)
      BY <1>1, <2>2, LocalMoves DEF StartLane
    <3> QED
      BY <3>1 DEF Moved
  <2>3. CASE UndoWrite(w, n, x)
    <3>1. PICK failed : \E phase : /\ phase \in {"failSoft", "undone"}
                                  /\ Moved(w, phase, cur, todo, ok, failed)
      BY <1>1, <2>3, LocalMoves DEF UndoWrite
    <3> QED
      BY <3>1 DEF Moved
  <2>4. CASE SettleUndo(w, n, x)
    <3>1. Moved(w, "failSoft", cur, todo, ok, {})
      BY <1>1, <2>4, LocalMoves DEF SettleUndo
    <3> QED
      BY <3>1 DEF Moved
  <2>5. CASE FailLane(w, n, x) \/ SettleFence(w, n, x)
    <3>1. Moved(w, "next", None, todo, ok, {})
      BY <1>1, <2>5, LocalMoves DEF FailLane, SettleFence
    <3> QED
      BY <3>1 DEF Moved
  <2>6. CASE \/ ListAssertions(w, n, x) \/ RecordArtifact(w, n, x) \/ CommitGraph(w, n)
             \/ CheckFence(w, n, x) \/ WriteArtifact(w, n, x)
    <3>1. \/ \E phase \in {"check", "write", "commit", "failSoft", "undo", "record"} :
                Moved(w, phase, cur, todo, ok, bad)
          \/ Moved(w, "next", None, todo, ok \cup {cur}, bad)
      BY <1>1, <2>6, LocalMoves
         DEF ListAssertions, RecordArtifact, CommitGraph, CheckFence, WriteArtifact
    <3> QED
      BY <3>1 DEF Moved
  <2> QED
    BY <2>1, <2>2, <2>3, <2>4, <2>5, <2>6
<1>13. ~ColdPath(w)
  <2> SUFFICES ASSUME NEW n \in Mutation,
                      \/ ColdLoad(w, n) \/ ColdExtract(w, n) \/ ColdJudge(w, n)
                      \/ ColdVerified(w, n) \/ ColdUnverified(w, n)
               PROVE  FALSE
    BY DEF ColdPath
  <2>1. \/ \E phase \in ColdPhases : Moved(w, phase, <<n, "COLD">>, worker[w].todo \ {<<n, "COLD">>},
                                            worker[w].ok, worker[w].bad)
        \/ \E phase \in ColdPhases : Moved(w, phase, worker[w].cur, worker[w].todo,
                                            worker[w].ok, worker[w].bad)
        \/ Moved(w, "idle", None, {}, {}, {})
    BY <1>1, LocalMoves
       DEF ColdLoad, ColdExtract, ColdJudge, ColdVerified, ColdUnverified, ColdPhases
  <2> QED
    BY <2>1 DEF Moved, ColdPhases
<1>14. ~ClaimCleanup(w)
  <2> SUFFICES ASSUME ClaimCleanup(w) PROVE FALSE
    OBVIOUS
  <2>1. \/ Moved(w, "idle", None, {}, {}, {})
        \/ \E ready : Moved(w, "clean", worker[w].cur, ready, worker[w].ok, worker[w].bad)
    BY <1>1, ClaimCleanupMoves
  <2> QED
    BY <2>1 DEF Moved
<1>15. ~Clean(w)
  <2>1. ASSUME NEW n \in Mutation, NEW x \in Store, ApplyCleanup(w, n, x) PROVE FALSE
    <3>1. \E phase \in {"cleaned", "cleanFail"} :
             Moved(w, phase, <<n, x>>, worker[w].todo \ {<<n, x>>}, worker[w].ok, worker[w].bad)
      BY <1>1, <2>1, LocalMoves DEF ApplyCleanup
    <3> QED
      BY <3>1 DEF Moved
  <2>2. ASSUME NEW n \in Mutation, NEW x \in Store, FinishCleanup(w, n, x) PROVE FALSE
    <3>1. \/ Moved(w, "idle", None, {}, {}, {})
          \/ Moved(w, "clean", None, worker[w].todo, worker[w].ok, worker[w].bad)
      BY <1>1, <2>2, FinishCleanupMoves
    <3> QED
      BY <3>1 DEF Moved
  <2> QED
    BY <2>1, <2>2 DEF Clean
<1>16. UNCHANGED worker => FALSE
  BY <1>3
<1>17. Request => UNCHANGED worker
  BY DEF Request, Admit, RequestRollback, RollBack, Replay, PurgeRollback, PurgeDocument
<1> QED
  BY <1>6, <1>7, <1>12, <1>13, <1>14, <1>15, <1>16, <1>17 DEF Next, Consume, vars

\* Nothing is claimed, owned or held at first.
LEMMA LiveInvInit == Init => LiveInv
<1> SUFFICES ASSUME Init PROVE LiveInv
  OBVIOUS
<1>1. RollbackInv /\ LedgerMatches /\ Shape
  BY RollbackInit, MatchesInit
<1>2. /\ \A m \in Mutation, s \in Store : /\ lane[m][s] = Row("NONE", 0)
                                          /\ cleanup[m][s] = Row("NONE", 0)
                                          /\ owner[m][s] = "NONE"
      /\ \A w \in Worker : worker[w] = Idle
      /\ \A d \in Document : document[d] = "ACTIVE"
      /\ \A m \in Mutation : ~Admitted(m)
  BY DEF Init, Admitted
<1>3. /\ \A m \in Mutation, s \in Store : <<m, s>> # None
      /\ Idle.todo = {} /\ Idle.ok = {} /\ Idle.cur = None /\ Idle.pc = "idle"
  BY NoneIsNoItem DEF Item, Idle
<1>4. \A w \in Worker : Backed(worker[w], Recorded)
  <2>1. Backed(Idle, Recorded)
    BY <1>3 DEF Backed, Optional, Store
  <2> QED
    BY <1>2, <2>1
<1>5. SqlFirst /\ Unadmitted
  BY <1>2, <1>4 DEF Row, SqlFirst, Unadmitted
<1>6. PurgedIsHeld
  BY <1>2 DEF PurgedIsHeld
<1>7. ReleasedIsHeld
  BY <1>2 DEF ReleasedIsHeld, Row, Store
<1>8. ClaimsKept /\ FencedIsHeld
  <2>1. "idle" \notin CleanPhases
    BY DEF CleanPhases
  <2> QED
    BY <1>2, <1>3, <2>1 DEF ClaimsKept, FencedIsHeld, Claims, Cleanups
<1> QED
  BY <1>1, <1>5, <1>6, <1>7, <1>8 DEF LiveInv

\* With one consumer, what it holds of a live mutation is its own in every state.
LEMMA LiveInvStep ==
  ASSUME LiveInv, [Next]_vars, \A v, u \in Worker : v = u
  PROVE  LiveInv'
<1>1. TypeOK /\ RollbackInv /\ LedgerMatches /\ Shape /\ SqlFirst /\ ClaimsKept
  BY DEF LiveInv, RollbackInv
<1>2. RollbackInv'
  BY <1>1, RollbackStep DEF Holding
<1>3. LedgerMatches' /\ Shape' /\ SqlFirst'
  BY <1>1, MatchesStep, ShapeStep, SqlFirstStep
<1>4. Unadmitted'
  BY UnadmittedStep DEF Unadmitted
<1>5. PurgedIsHeld'
  BY PurgedIsHeldStep DEF PurgedIsHeld
<1>6. ReleasedIsHeld'
  BY ReleasedIsHeldStep DEF ReleasedIsHeld
<1>7. ClaimsKept'
  BY <1>1, ClaimsStay, CleanupsQueued DEF ClaimsKept
<1>8. FencedIsHeld'
  BY FencedIsHeldStep DEF FencedIsHeld
<1> QED
  BY <1>2, <1>3, <1>4, <1>5, <1>6, <1>7, <1>8 DEF LiveInv

\* A transition of the mutation goes where it says, or nowhere.
LEMMA MovesWhere ==
  ASSUME NEW row \in LedgerRow, NEW to
  PROVE  /\ MoveMutation(row, to).mut = row.mut \/ MoveMutation(row, to).mut = to
         /\ MoveBoth(row, to).mut = row.mut \/ MoveBoth(row, to).mut = to
<1>1. \A x : MoveMutation(x, to).mut = x.mut \/ MoveMutation(x, to).mut = to
  BY DEF MoveMutation
<1>2. MoveRun(row, to).mut = row.mut
  BY BothMoves
<1> QED
  BY <1>1, <1>2 DEF MoveBoth

\* No request and no restart commits a mutation.
LEMMA RequestsNeverCommit ==
  ASSUME TypeOK, Request \/ Restart \/ UNCHANGED ledger,
         NEW m \in Mutation, ledger'[m].mut = "COMMITTED"
  PROVE  ledger[m].mut = "COMMITTED"
<1>1. ledger \in [Mutation -> LedgerRow]
  BY DEF TypeOK
<1>2. \A to : to # "COMMITTED" => /\ MoveMutation(ledger[m], to).mut = "COMMITTED"
                                       => ledger[m].mut = "COMMITTED"
                                  /\ MoveBoth(ledger[m], to).mut = "COMMITTED"
                                       => ledger[m].mut = "COMMITTED"
  BY <1>1, MovesWhere
<1>3. \A n \in Mutation : ~Admit(n) \/ n # m
  BY <1>1 DEF Admit
<1>4. ASSUME NEW n \in Mutation, RollBack(n) PROVE ledger[m].mut = "COMMITTED"
  <2>1. ledger'[m] \in {ledger[m], MoveBoth(ledger[m], "ROLLING_BACK"),
                        MoveBoth(MoveBoth(ledger[m], "ROLLING_BACK"), "ROLLED_BACK")}
    BY <1>1, <1>4 DEF RollBack
  <2>2. MoveBoth(ledger[m], "ROLLING_BACK") \in LedgerRow
    BY <1>1, MoveType
  <2>3. MoveBoth(MoveBoth(ledger[m], "ROLLING_BACK"), "ROLLED_BACK").mut = "COMMITTED"
           => MoveBoth(ledger[m], "ROLLING_BACK").mut = "COMMITTED"
    BY <2>2, MovesWhere
  <2> QED
    BY <1>2, <2>1, <2>3
<1>5. ASSUME NEW n \in Mutation, Replay(n) PROVE ledger[m].mut = "COMMITTED"
  <2>1. ledger'[m] \in {ledger[m], MoveBoth(ledger[m], "ROLLING_BACK"),
                        MoveBoth(ledger[m], "RETRY_PENDING")}
    BY <1>1, <1>5 DEF Replay, Resumed
  <2> QED
    BY <1>2, <2>1
<1>6. ASSUME NEW d \in Document, PurgeDocument(d) PROVE ledger[m].mut = "COMMITTED"
  <2>1. ledger'[m] \in {ledger[m], MoveMutation(ledger[m], "PURGED")}
    BY <1>1, <1>6 DEF PurgeDocument
  <2> QED
    BY <1>2, <2>1
<1>7. ASSUME Restart PROVE ledger[m].mut = "COMMITTED"
  <2>1. \/ ledger'[m] = ledger[m]
        \/ ledger'[m] = MoveRun(MoveMutation(ledger[m], "RETRY_PENDING"), "RETRY_PENDING")
    BY <1>1, <1>7 DEF Restart
  <2>2. MoveMutation(ledger[m], "RETRY_PENDING") \in LedgerRow
    BY <1>1, MoveType
  <2>3. MoveRun(MoveMutation(ledger[m], "RETRY_PENDING"), "RETRY_PENDING").mut
           = MoveMutation(ledger[m], "RETRY_PENDING").mut
    BY <2>2, BothMoves
  <2> QED
    BY <1>2, <2>1, <2>3
<1>8. CASE UNCHANGED ledger
  BY <1>8
<1>9. ASSUME NEW n \in Mutation, Admit(n) PROVE ledger[m].mut = "COMMITTED"
  <2>1. n # m
    BY <1>3, <1>9
  <2> QED
    BY <1>1, <1>9, <2>1 DEF Admit
<1> QED
  BY <1>4, <1>5, <1>6, <1>7, <1>8, <1>9 DEF Request, RequestRollback, PurgeRollback

\* The other stages never enter the cold path.
LEMMA OnlyColdIsCold ==
  ASSUME TypeOK, NEW w \in Worker, Project(w) \/ ClaimCleanup(w) \/ Clean(w)
  PROVE  worker'[w].pc \notin {"extract", "judge"}
<1> DEFINE cur == worker[w].cur
           todo == worker[w].todo
           ok == worker[w].ok
           bad == worker[w].bad
<1>1. ASSUME NEW n \in Mutation, NEW x \in Store, SkipLane(w, n, x) \/ FinishLane(w, n, x)
      PROVE  worker'[w].pc \notin {"extract", "judge"}
  <2>1. PICK outcome : CompleteLane(w, n, x, outcome)
    BY <1>1 DEF SkipLane, FinishLane
  <2>2. \/ \E y : Moved(w, "fence", <<n, x>>, todo, ok \ {<<n, x>>}, y)
        \/ Moved(w, "failSoft", cur, todo, ok, bad)
        \/ Moved(w, "idle", None, {}, {}, {})
        \/ Moved(w, "next", None, todo, ok \ {<<n, x>>}, bad)
    BY <2>1, CompletionMoves
  <2> QED
    BY <2>2 DEF Moved
<1>2. CASE Project(w)
  <2>1. PICK n \in Mutation, x \in Store :
           \/ StartLane(w, n, x) \/ ListAssertions(w, n, x) \/ CheckFence(w, n, x)
           \/ WriteArtifact(w, n, x) \/ RecordArtifact(w, n, x) \/ CommitGraph(w, n)
           \/ UndoWrite(w, n, x) \/ SettleUndo(w, n, x) \/ FailLane(w, n, x)
           \/ SkipLane(w, n, x) \/ FinishLane(w, n, x)
           \/ DeleteProjected(w, n, x) \/ SettleFence(w, n, x)
    BY <1>2 DEF Project
  <2>2. CASE StartLane(w, n, x)
    <3>1. PICK phase \in {"skip", "failHard", "check", "list"} :
             Moved(w, phase, <<n, x>>, todo \ {<<n, x>>}, ok, bad)
      BY <2>2, LocalMoves DEF StartLane
    <3> QED
      BY <3>1 DEF Moved
  <2>3. CASE UndoWrite(w, n, x)
    <3>1. PICK failed : \E phase : /\ phase \in {"failSoft", "undone"}
                                  /\ Moved(w, phase, cur, todo, ok, failed)
      BY <2>3, LocalMoves DEF UndoWrite
    <3> QED
      BY <3>1 DEF Moved
  <2>4. CASE SettleUndo(w, n, x)
    <3>1. Moved(w, "failSoft", cur, todo, ok, {})
      BY <2>4, LocalMoves DEF SettleUndo
    <3> QED
      BY <3>1 DEF Moved
  <2>5. CASE FailLane(w, n, x) \/ SettleFence(w, n, x)
    <3>1. Moved(w, "next", None, todo, ok, {})
      BY <2>5, LocalMoves DEF FailLane, SettleFence
    <3> QED
      BY <3>1 DEF Moved
  <2>6. CASE \/ ListAssertions(w, n, x) \/ RecordArtifact(w, n, x) \/ CommitGraph(w, n)
             \/ CheckFence(w, n, x) \/ WriteArtifact(w, n, x)
    <3>1. \/ \E phase \in {"check", "write", "commit", "failSoft", "undo", "record"} :
                Moved(w, phase, cur, todo, ok, bad)
          \/ Moved(w, "next", None, todo, ok \cup {cur}, bad)
      BY <2>6, LocalMoves
         DEF ListAssertions, RecordArtifact, CommitGraph, CheckFence, WriteArtifact
    <3> QED
      BY <3>1 DEF Moved
  <2>7. CASE DeleteProjected(w, n, x)
    <3>1. PICK y : Moved(w, "fenced", cur, todo, ok, y)
      BY <2>7, LocalMoves DEF DeleteProjected
    <3> QED
      BY <3>1 DEF Moved
  <2> QED
    BY <1>1, <2>1, <2>2, <2>3, <2>4, <2>5, <2>6, <2>7
<1>3. CASE ClaimCleanup(w)
  <2>1. \/ Moved(w, "idle", None, {}, {}, {})
        \/ \E ready : Moved(w, "clean", cur, ready, ok, bad)
    BY <1>3, ClaimCleanupMoves
  <2> QED
    BY <2>1 DEF Moved
<1>4. ASSUME NEW n \in Mutation, NEW x \in Store, ApplyCleanup(w, n, x)
      PROVE  worker'[w].pc \notin {"extract", "judge"}
  <2>1. \E phase \in {"cleaned", "cleanFail"} : Moved(w, phase, <<n, x>>, todo \ {<<n, x>>}, ok, bad)
    BY <1>4, LocalMoves DEF ApplyCleanup
  <2> QED
    BY <2>1 DEF Moved
<1>5. ASSUME NEW n \in Mutation, NEW x \in Store, FinishCleanup(w, n, x)
      PROVE  worker'[w].pc \notin {"extract", "judge"}
  <2>1. Moved(w, "idle", None, {}, {}, {}) \/ Moved(w, "clean", None, todo, ok, bad)
    BY <1>5, FinishCleanupMoves
  <2> QED
    BY <2>1 DEF Moved
<1> QED
  BY <1>2, <1>3, <1>4, <1>5 DEF Clean

\* The cold path takes up only a mutation that is still to be judged, and nothing
\* but its own consumer could commit it meanwhile.
LEMMA ColdIsEarlyStep ==
  ASSUME LiveInv, ColdIsEarly, [Next]_vars, \A v, u \in Worker : v = u
  PROVE  ColdIsEarly'
<1> SUFFICES ASSUME NEW w \in Worker, NEW m \in Mutation,
                    worker'[w].pc \in {"extract", "judge"}, worker'[w].cur = <<m, "COLD">>,
                    ledger'[m].mut = "COMMITTED"
             PROVE  FALSE
  BY DEF ColdIsEarly
<1>1. TypeOK /\ ledger \in [Mutation -> LedgerRow] /\ <<m, "COLD">> # None
  BY NoneIsNoItem DEF LiveInv, RollbackInv, TypeOK, Item
<1>2. CASE UNCHANGED worker /\ (Request \/ Restart \/ UNCHANGED ledger)
  BY <1>1, <1>2, RequestsNeverCommit DEF ColdIsEarly
<1>3. CASE Restart
  BY <1>1, <1>3 DEF Restart, Idle
<1>4. ASSUME NEW n \in Mutation, ColdLoad(w, n) PROVE FALSE
  <2> DEFINE phase == IF ledger[n].mut \in {"VALIDATED", "PENDING", "SQL_APPLIED",
                                            "VECTOR_APPLIED", "GRAPH_APPLIED",
                                            "COMMITTED", "REJECTED"} THEN "verified"
                      ELSE IF ledger[n].mut \in {"RECEIVED", "EXTRACTED", "RETRY_PENDING"}
                      THEN "extract" ELSE "unverified"
  <2>1. Begin(w, phase, <<n, "COLD">>) /\ ledger' = ledger
    BY <1>4 DEF ColdLoad
  <2>2. phase = "extract" => ledger[n].mut # "COMMITTED"
    OBVIOUS
  <2>3. phase # "judge"
    OBVIOUS
  <2> HIDE DEF phase
  <2>4. Moved(w, phase, <<n, "COLD">>, worker[w].todo \ {<<n, "COLD">>},
              worker[w].ok, worker[w].bad)
    BY <1>1, <2>1, LocalMoves
  <2>5. n = m /\ phase \in {"extract", "judge"}
    BY <2>4 DEF Moved
  <2> QED
    BY <2>1, <2>2, <2>3, <2>5
<1>5. ASSUME NEW n \in Mutation, ColdExtract(w, n) PROVE FALSE
  <2>1. \/ /\ ledger[n].mut \in {"RECEIVED", "EXTRACTED", "RETRY_PENDING"}
           /\ ledger' = [ledger EXCEPT ![n] = MoveMutation(ledger[n], "EXTRACTED")]
           /\ Moved(w, "judge", worker[w].cur, worker[w].todo, worker[w].ok, worker[w].bad)
        \/ Moved(w, "unverified", worker[w].cur, worker[w].todo, worker[w].ok, worker[w].bad)
    BY <1>1, <1>5, LocalMoves DEF ColdExtract
  <2>2. /\ ledger[n].mut \in {"RECEIVED", "EXTRACTED", "RETRY_PENDING"}
        /\ ledger' = [ledger EXCEPT ![n] = MoveMutation(ledger[n], "EXTRACTED")]
        /\ worker'[w].cur = worker[w].cur
    BY <2>1 DEF Moved
  <2>3. n = m
    <3>1. worker[w].cur = <<n, "COLD">>
      BY <1>5 DEF ColdExtract, At
    <3> QED
      BY <2>2, <3>1
  <2>4. ledger[m] \in LedgerRow /\ ledger'[m] = MoveMutation(ledger[m], "EXTRACTED")
    BY <1>1, <2>2, <2>3
  <2>5. ledger[m].mut # "COMMITTED"
    BY <2>2, <2>3
  <2> QED
    BY <2>4, <2>5, MovesWhere
<1>6. ASSUME NEW n \in Mutation, ColdJudge(w, n) \/ ColdVerified(w, n) \/ ColdUnverified(w, n)
      PROVE  FALSE
  <2>1. \/ Moved(w, "verified", worker[w].cur, worker[w].todo, worker[w].ok, worker[w].bad)
        \/ Moved(w, "unverified", worker[w].cur, worker[w].todo, worker[w].ok, worker[w].bad)
        \/ Moved(w, "idle", None, {}, {}, {})
    BY <1>1, <1>6, LocalMoves DEF ColdJudge, ColdVerified, ColdUnverified
  <2> QED
    BY <2>1 DEF Moved
<1>7. ~ClaimLanes(w)
  <2> SUFFICES ASSUME ClaimLanes(w) PROVE FALSE
    OBVIOUS
  <2>1. PICK b : worker' = [worker EXCEPT ![w].pc = "next", ![w].todo = b]
    BY DEF ClaimLanes
  <2>2. Moved(w, "next", worker[w].cur, b, worker[w].ok, worker[w].bad)
    BY <1>1, <2>1, LocalMoves
  <2> QED
    BY <2>2 DEF Moved
<1>8. ~Project(w) /\ ~ClaimCleanup(w) /\ ~Clean(w)
  BY <1>1, OnlyColdIsCold
<1>9. Request => UNCHANGED worker
  BY DEF Request, Admit, RequestRollback, RollBack, Replay, PurgeRollback, PurgeDocument
<1>10. ASSUME NEW v \in Worker, Consume(v) PROVE FALSE
  <2>1. v = w
    OBVIOUS
  <2> QED
    BY <1>4, <1>5, <1>6, <1>7, <1>8, <1>10, <2>1 DEF Consume, ColdPath
<1> QED
  BY <1>2, <1>3, <1>9, <1>10 DEF Next, vars

-----------------------------------------------------------------------------
(* How an assertion moves                                                  *)

\* A row of v4_assertions in a step: it stays, a canonical lane inserts it, an
\* activation supersedes it, a rollback puts it back or retracts it, a purge
\* retracts it, a compensation or a cleanup deletes it.
FactInserted(r) == \E w \in Worker, n \in Mutation :
    /\ WriteArtifact(w, n, "SQL") /\ RevisionOf[n] = r
    /\ fact[r].st = "NONE" /\ fact'[r] = [st |-> "ACTIVE", by |-> n]
FactSuperseded(r) == \E q \in Revision :
    /\ Supersedes[q] = r /\ revision' = ActivatedRevisions(q)
    /\ fact[r].st = "ACTIVE" /\ fact'[r] = [st |-> "SUPERSEDED", by |-> fact[r].by]
FactRestored(r) == \E n \in Mutation :
    /\ RollBack(n) /\ Restores(n) /\ Supersedes[RevisionOf[n]] = r
    /\ fact[r].st = "SUPERSEDED" /\ fact'[r] = [st |-> "ACTIVE", by |-> fact[r].by]
FactRetracted(r) ==
    /\ \/ \E n \in Mutation : RollBack(n) /\ RevisionOf[n] = r /\ "SQL" \in Orphans(n)
       \/ \E d \in Document : PurgeDocument(d) /\ DocumentOf[r] = d
    /\ fact[r].st # "NONE" /\ fact'[r] = [st |-> "RETRACTED", by |-> fact[r].by]
FactErased(r) == \E w \in Worker, n \in Mutation :
    /\ RevisionOf[n] = r
    /\ \/ UndoWrite(w, n, "GRAPH") /\ RowTerminal(ledger[n]) /\ fact[r].by = n
       \/ ApplyCleanup(w, n, "SQL")
    /\ fact'[r] = [st |-> "NONE", by |-> None]
FactMoved(r) ==
    \/ fact'[r] = fact[r]
    \/ FactInserted(r) \/ FactSuperseded(r) \/ FactRestored(r) \/ FactRetracted(r)
    \/ FactErased(r)

\* The assertions an activation supersedes (_reconcile_revision_activation_in_tx).
LEMMA ActivationSupersedes ==
  ASSUME TypeOK, NEW q \in Revision, NEW r \in Revision,
         revision' = ActivatedRevisions(q), fact' = ActivatedFacts(q)
  PROVE  fact'[r] = fact[r] \/ FactSuperseded(r)
<1>1. fact \in [Revision -> FactRow] /\ fact[r] \in FactRow
  BY DEF TypeOK
<1>2. fact'[r] = IF r = Supersedes[q] /\ fact[r].st = "ACTIVE"
                 THEN [fact[r] EXCEPT !.st = "SUPERSEDED"] ELSE fact[r]
  BY DEF ActivatedFacts
<1>3. [fact[r] EXCEPT !.st = "SUPERSEDED"] = [st |-> "SUPERSEDED", by |-> fact[r].by]
  BY <1>1 DEF FactRow
<1> QED
  BY <1>2, <1>3 DEF FactSuperseded

\* An assertion changes for one of few reasons.
LEMMA FactMoves ==
  ASSUME TypeOK, [Next]_vars, NEW r \in Revision
  PROVE  FactMoved(r)
<1>1. fact \in [Revision -> FactRow] /\ fact[r] \in FactRow
      /\ \A st : [fact[r] EXCEPT !.st = st] = [st |-> st, by |-> fact[r].by]
      /\ RevisionOf \in [Mutation -> Revision]
  BY PipelineAssumption DEF TypeOK, FactRow
<1>2. ASSUME NEW w \in Worker, NEW n \in Mutation, NEW x \in Store, WriteArtifact(w, n, x)
      PROVE  FactMoved(r)
  <2>1. fact' = fact \/ (x = "SQL" /\ fact' = InsertFact(n))
    BY <1>2 DEF WriteArtifact
  <2>2. CASE x = "SQL" /\ fact' = InsertFact(n)
    <3>1. \/ fact'[r] = fact[r]
          \/ /\ RevisionOf[n] = r /\ fact[r].st = "NONE"
             /\ fact'[r] = [st |-> "ACTIVE", by |-> n]
      BY <1>1, <2>2 DEF InsertFact
    <3> QED
      BY <1>2, <2>2, <3>1 DEF FactMoved, FactInserted
  <2> QED
    BY <2>1, <2>2 DEF FactMoved
<1>3. ASSUME NEW w \in Worker, NEW n \in Mutation, NEW x \in Store, UndoWrite(w, n, x)
      PROVE  FactMoved(r)
  <2>1. \/ fact' = fact
        \/ /\ x = "GRAPH" /\ RowTerminal(ledger[n]) /\ fact[RevisionOf[n]].by = n
           /\ fact' = [fact EXCEPT ![RevisionOf[n]] = [st |-> "NONE", by |-> None]]
    BY <1>3 DEF UndoWrite
  <2>2. \/ fact'[r] = fact[r]
        \/ /\ x = "GRAPH" /\ RowTerminal(ledger[n]) /\ fact[r].by = n /\ RevisionOf[n] = r
           /\ fact'[r] = [st |-> "NONE", by |-> None]
    BY <1>1, <2>1
  <2> QED
    BY <1>3, <2>2 DEF FactMoved, FactErased
<1>4. ASSUME NEW w \in Worker, NEW n \in Mutation, NEW x \in Store, ApplyCleanup(w, n, x)
      PROVE  FactMoved(r)
  <2>1. \/ fact' = fact
        \/ /\ x = "SQL"
           /\ fact' = [fact EXCEPT ![RevisionOf[n]] = [st |-> "NONE", by |-> None]]
    BY <1>4 DEF ApplyCleanup
  <2>2. \/ fact'[r] = fact[r]
        \/ /\ x = "SQL" /\ RevisionOf[n] = r
           /\ fact'[r] = [st |-> "NONE", by |-> None]
    BY <1>1, <2>1
  <2> QED
    BY <1>4, <2>2 DEF FactMoved, FactErased
<1>5. ASSUME NEW w \in Worker, NEW n \in Mutation, NEW x \in Store,
             SkipLane(w, n, x) \/ FinishLane(w, n, x)
      PROVE  FactMoved(r)
  <2>1. PICK outcome : CompleteLane(w, n, x, outcome)
    BY <1>5 DEF SkipLane, FinishLane
  <2>2. \/ fact' = fact
        \/ /\ revision' = ActivatedRevisions(RevisionOf[n])
           /\ fact' = ActivatedFacts(RevisionOf[n])
    BY <2>1 DEF CompleteLane
  <2> QED
    BY <1>1, <2>2, ActivationSupersedes DEF FactMoved
<1>6. ASSUME NEW n \in Mutation, Admit(n) PROVE FactMoved(r)
  <2>1. \/ fact' = fact
        \/ /\ revision' = ActivatedRevisions(RevisionOf[n])
           /\ fact' = ActivatedFacts(RevisionOf[n])
    BY <1>6 DEF Admit
  <2> QED
    BY <1>1, <2>1, ActivationSupersedes DEF FactMoved
<1>7. ASSUME NEW n \in Mutation, RollBack(n) PROVE FactMoved(r)
  <2> DEFINE gone == "SQL" \in Orphans(n) /\ fact[RevisionOf[n]].st # "NONE"
             retracted == IF gone THEN [fact EXCEPT ![RevisionOf[n]].st = "RETRACTED"] ELSE fact
  <2>1. fact' = RestoredFacts(n, retracted)
    BY <1>7 DEF RollBack
  <2>2. retracted[r] = IF gone /\ r = RevisionOf[n]
                       THEN [st |-> "RETRACTED", by |-> fact[r].by] ELSE fact[r]
    BY <1>1
  <2>3. fact'[r] = IF Restores(n) /\ r = Supersedes[RevisionOf[n]] /\ retracted[r].st = "SUPERSEDED"
                   THEN [retracted[r] EXCEPT !.st = "ACTIVE"] ELSE retracted[r]
    BY <2>1 DEF RestoredFacts
  <2>4. gone => "SQL" \in Orphans(n) /\ fact[RevisionOf[n]].st # "NONE"
    OBVIOUS
  <2> HIDE DEF gone, retracted
  <2>5. CASE gone /\ r = RevisionOf[n]
    BY <1>7, <2>2, <2>3, <2>4, <2>5 DEF FactMoved, FactRetracted
  <2>6. CASE ~(gone /\ r = RevisionOf[n])
    <3>1. \/ fact'[r] = fact[r]
          \/ /\ Restores(n) /\ r = Supersedes[RevisionOf[n]] /\ fact[r].st = "SUPERSEDED"
             /\ fact'[r] = [st |-> "ACTIVE", by |-> fact[r].by]
      BY <1>1, <2>2, <2>3, <2>6
    <3> QED
      BY <1>7, <3>1 DEF FactMoved, FactRestored
  <2> QED
    BY <2>5, <2>6
<1>8. ASSUME NEW d \in Document, PurgeDocument(d) PROVE FactMoved(r)
  <2>1. fact' = [q \in Revision |-> IF DocumentOf[q] = d /\ fact[q].st # "NONE"
                                    THEN [fact[q] EXCEPT !.st = "RETRACTED"] ELSE fact[q]]
    BY <1>8 DEF PurgeDocument
  <2>2. \/ fact'[r] = fact[r]
        \/ /\ DocumentOf[r] = d /\ fact[r].st # "NONE"
           /\ fact'[r] = [st |-> "RETRACTED", by |-> fact[r].by]
    BY <1>1, <2>1
  <2> QED
    BY <1>8, <2>2 DEF FactMoved, FactRetracted
<1>9. CASE UNCHANGED fact
  BY <1>9 DEF FactMoved
<1> QED
  BY <1>2, <1>3, <1>4, <1>5, <1>6, <1>7, <1>8, <1>9, FactActions

-----------------------------------------------------------------------------
(* How a derived artifact moves                                            *)

\* An artifact leaves LanceDB or Kuzu in a compensation, in the deletion after a
\* fenced completion, or in a cleanup that found its assertion gone.
Removes(w, n, s) ==
    \/ s = "VECTOR" /\ UndoWrite(w, n, s)
    \/ \E x \in Store : DeleteProjected(w, n, x)
    \/ ApplyCleanup(w, n, s) /\ fact[RevisionOf[n]].st \in {"NONE", "RETRACTED"}

\* An artifact leaves its store for one of few reasons.
LEMMA PhysicalMoves ==
  ASSUME TypeOK, [Next]_vars, NEW s \in Optional, NEW r \in physical[s], r \notin physical'[s]
  PROVE  \E w \in Worker, n \in Mutation : RevisionOf[n] = r /\ Removes(w, n, s)
<1>1. physical \in [Optional -> SUBSET Revision] /\ "VECTOR" \in Optional /\ "GRAPH" \in Optional
  BY DEF TypeOK, Optional
<1>2. ASSUME NEW w \in Worker, NEW n \in Mutation, NEW x \in Store, WriteArtifact(w, n, x)
      PROVE  FALSE
  <2>1. physical' = physical
        \/ physical' = [physical EXCEPT !["VECTOR"] = @ \cup {RevisionOf[n]}]
    BY <1>2 DEF WriteArtifact
  <2> QED
    BY <1>1, <2>1
<1>3. ASSUME NEW w \in Worker, NEW n \in Mutation, CommitGraph(w, n) PROVE FALSE
  <2>1. physical' = physical
        \/ physical' = [physical EXCEPT !["GRAPH"] = @ \cup {RevisionOf[n]}]
    BY <1>3 DEF CommitGraph
  <2> QED
    BY <1>1, <2>1
<1>4. ASSUME NEW w \in Worker, NEW n \in Mutation, NEW x \in Store, UndoWrite(w, n, x)
      PROVE  RevisionOf[n] = r /\ Removes(w, n, s)
  <2>1. physical' = physical
        \/ (x = "VECTOR" /\ physical' = [physical EXCEPT !["VECTOR"] = @ \ {RevisionOf[n]}])
    BY <1>4 DEF UndoWrite
  <2>2. x = "VECTOR" /\ s = "VECTOR" /\ RevisionOf[n] = r
    BY <1>1, <2>1
  <2> QED
    BY <1>4, <2>2 DEF Removes
<1>5. ASSUME NEW w \in Worker, NEW n \in Mutation, NEW x \in Store, DeleteProjected(w, n, x)
      PROVE  RevisionOf[n] = r /\ Removes(w, n, s)
  <2>1. PICK gone : physical' = [y \in Optional |-> IF y \in gone THEN physical[y] \ {RevisionOf[n]}
                                                    ELSE physical[y]]
    BY <1>5 DEF DeleteProjected
  <2> QED
    BY <1>1, <1>5, <2>1 DEF Removes
<1>6. ASSUME NEW w \in Worker, NEW n \in Mutation, NEW x \in Store, ApplyCleanup(w, n, x)
      PROVE  RevisionOf[n] = r /\ Removes(w, n, s)
  <2>1. \/ physical' = physical
        \/ /\ x \in Optional /\ fact[RevisionOf[n]].st \in {"NONE", "RETRACTED"}
           /\ physical' = [physical EXCEPT ![x] = @ \ {RevisionOf[n]}]
    BY <1>6 DEF ApplyCleanup, Optional
  <2>2. x = s /\ RevisionOf[n] = r /\ fact[RevisionOf[n]].st \in {"NONE", "RETRACTED"}
    BY <1>1, <2>1
  <2> QED
    BY <1>6, <2>2 DEF Removes
<1>7. ~UNCHANGED physical
  OBVIOUS
<1> QED
  BY <1>2, <1>3, <1>4, <1>5, <1>6, <1>7, PhysicalActions

-----------------------------------------------------------------------------
(* What a live mutation has stored                                         *)

\* How a consumer comes to record what it wrote, to commit a graph write it
\* recorded, and to hold a lane as finished.
Arrived(w) ==
    /\ worker'[w].pc = "record" => \/ worker'[w] = worker[w]
                                   \/ \E n \in Mutation, x \in Store :
                                         WriteArtifact(w, n, x) /\ worker'[w].cur = <<n, x>>
    /\ worker'[w].pc = "commit" => \/ worker'[w] = worker[w]
                                   \/ \E n \in Mutation : /\ RecordArtifact(w, n, "GRAPH")
                                                          /\ worker'[w].cur = <<n, "GRAPH">>
    /\ \A n \in Mutation, x \in Store : <<n, x>> \in worker'[w].ok =>
          \/ <<n, x>> \in worker[w].ok
          \/ /\ Applied(w) /\ worker[w].cur = <<n, x>>
             /\ ListAssertions(w, n, x) \/ RecordArtifact(w, n, x) \/ CommitGraph(w, n)

\* What a consumer has recorded, committed or finished it did itself.
LEMMA Arrivals ==
  ASSUME TypeOK, Shape, [Next]_vars, \A v, u \in Worker : v = u, NEW w \in Worker
  PROVE  Arrived(w)
<1> DEFINE cur == worker[w].cur
           todo == worker[w].todo
           ok == worker[w].ok
           bad == worker[w].bad
           Plain == {"idle", "extract", "judge", "verified", "unverified", "next", "list",
                     "check", "write", "undo", "undone", "failSoft", "failHard", "skip",
                     "fence", "fenced", "clean", "cleaned", "cleanFail"}
<1>1. ASSUME NEW phase \in Plain, NEW c, NEW t, NEW o \in SUBSET ok, NEW b,
             Moved(w, phase, c, t, o, b)
      PROVE  Arrived(w)
  BY <1>1 DEF Moved, Arrived
<1>2. CASE UNCHANGED worker
  BY <1>2 DEF Arrived
<1>3. CASE Restart
  BY <1>3 DEF Restart, Idle, Arrived
<1>4. CASE ColdPath(w)
  <2>1. PICK n \in Mutation : \/ ColdLoad(w, n) \/ ColdExtract(w, n) \/ ColdJudge(w, n)
                              \/ ColdVerified(w, n) \/ ColdUnverified(w, n)
    BY <1>4 DEF ColdPath
  <2>2. \/ \E phase \in ColdPhases : Moved(w, phase, <<n, "COLD">>, todo \ {<<n, "COLD">>}, ok, bad)
        \/ \E phase \in ColdPhases : Moved(w, phase, cur, todo, ok, bad)
        \/ Moved(w, "idle", None, {}, {}, {})
    BY <2>1, LocalMoves
       DEF ColdLoad, ColdExtract, ColdJudge, ColdVerified, ColdUnverified, ColdPhases
  <2>3. ColdPhases \subseteq Plain /\ "idle" \in Plain /\ ok \in SUBSET ok /\ {} \in SUBSET ok
    BY DEF ColdPhases
  <2> HIDE DEF Plain
  <2> QED
    BY <1>1, <2>2, <2>3
<1>5. CASE ClaimLanes(w)
  <2>1. PICK b : worker' = [worker EXCEPT ![w].pc = "next", ![w].todo = b]
    BY <1>5 DEF ClaimLanes
  <2>2. Moved(w, "next", cur, b, ok, bad)
    BY <2>1, LocalMoves
  <2> QED
    BY <1>1, <2>2
<1>6. CASE ClaimCleanup(w)
  <2>1. \/ Moved(w, "idle", None, {}, {}, {})
        \/ \E ready : Moved(w, "clean", cur, ready, ok, bad)
    BY <1>6, ClaimCleanupMoves
  <2> QED
    BY <1>1, <2>1
<1>7. ASSUME NEW n \in Mutation, NEW x \in Store, ApplyCleanup(w, n, x) PROVE Arrived(w)
  <2>1. \E phase \in {"cleaned", "cleanFail"} :
           Moved(w, phase, <<n, x>>, todo \ {<<n, x>>}, ok, bad)
    BY <1>7, LocalMoves DEF ApplyCleanup
  <2> QED
    BY <1>1, <2>1
<1>8. ASSUME NEW n \in Mutation, NEW x \in Store, FinishCleanup(w, n, x) PROVE Arrived(w)
  <2>1. Moved(w, "idle", None, {}, {}, {}) \/ Moved(w, "clean", None, todo, ok, bad)
    BY <1>8, FinishCleanupMoves
  <2> QED
    BY <1>1, <2>1
<1>9. ASSUME NEW n \in Mutation, NEW x \in Store, cur = <<n, x>>, Applied(w),
             ListAssertions(w, n, x) \/ RecordArtifact(w, n, x) \/ (CommitGraph(w, n) /\ x = "GRAPH")
      PROVE  Arrived(w)
  <2>1. Moved(w, "next", None, todo, ok \cup {cur}, bad)
    BY <1>9, LocalMoves
  <2> QED
    BY <1>9, <2>1 DEF Moved, Arrived
<1>10. CASE Project(w)
  <2>1. PICK n \in Mutation, x \in Store :
           \/ StartLane(w, n, x) \/ ListAssertions(w, n, x) \/ CheckFence(w, n, x)
           \/ WriteArtifact(w, n, x) \/ RecordArtifact(w, n, x) \/ CommitGraph(w, n)
           \/ UndoWrite(w, n, x) \/ SettleUndo(w, n, x) \/ FailLane(w, n, x)
           \/ SkipLane(w, n, x) \/ FinishLane(w, n, x)
           \/ DeleteProjected(w, n, x) \/ SettleFence(w, n, x)
    BY <1>10 DEF Project
  <2>2. CASE StartLane(w, n, x)
    <3>1. PICK phase \in {"skip", "failHard", "check", "list"} :
             Moved(w, phase, <<n, x>>, todo \ {<<n, x>>}, ok, bad)
      BY <2>2, LocalMoves DEF StartLane
    <3> QED
      BY <1>1, <3>1
  <2>3. CASE ListAssertions(w, n, x)
    <3>1. cur = <<n, x>>
      BY <2>3 DEF ListAssertions, At
    <3>2. Moved(w, "check", cur, todo, ok, bad) \/ Moved(w, "write", cur, todo, ok, bad)
          \/ Applied(w)
      BY <2>3, LocalMoves DEF ListAssertions
    <3> QED
      BY <1>1, <1>9, <2>3, <3>1, <3>2
  <2>4. CASE CheckFence(w, n, x)
    <3>1. Moved(w, "failSoft", cur, todo, ok, bad) \/ Moved(w, "write", cur, todo, ok, bad)
      BY <2>4, LocalMoves DEF CheckFence
    <3> QED
      BY <1>1, <3>1
  <2>5. CASE WriteArtifact(w, n, x)
    <3>1. cur = <<n, x>>
      BY <2>5 DEF WriteArtifact, At
    <3>2. \/ Moved(w, "undo", cur, todo, ok, bad) \/ Moved(w, "failSoft", cur, todo, ok, bad)
          \/ Moved(w, "record", cur, todo, ok, bad)
      BY <2>5, LocalMoves DEF WriteArtifact
    <3>3. Moved(w, "record", cur, todo, ok, bad) => Arrived(w)
      BY <2>5, <3>1 DEF Moved, Arrived
    <3> QED
      BY <1>1, <3>2, <3>3
  <2>6. CASE RecordArtifact(w, n, x)
    <3>1. cur = <<n, x>>
      BY <2>6 DEF RecordArtifact, At
    <3>2. \/ Moved(w, "undo", cur, todo, ok, bad) \/ Moved(w, "failSoft", cur, todo, ok, bad)
          \/ Applied(w)
          \/ x = "GRAPH" /\ Moved(w, "commit", cur, todo, ok, bad)
      BY <2>6, LocalMoves DEF RecordArtifact
    <3>3. x = "GRAPH" /\ Moved(w, "commit", cur, todo, ok, bad) => Arrived(w)
      BY <2>6, <3>1 DEF Moved, Arrived
    <3> QED
      BY <1>1, <1>9, <2>6, <3>1, <3>2, <3>3
  <2>7. CASE CommitGraph(w, n)
    <3>1. cur = <<n, "GRAPH">> /\ "GRAPH" \in Store
      BY <2>7 DEF CommitGraph, At, Store
    <3>2. Moved(w, "failSoft", cur, todo, ok, bad) \/ Applied(w)
      BY <2>7, LocalMoves DEF CommitGraph
    <3> QED
      BY <1>1, <1>9, <2>7, <3>1, <3>2
  <2>8. CASE UndoWrite(w, n, x)
    <3>1. PICK failed : \E phase : /\ phase \in {"failSoft", "undone"}
                                  /\ Moved(w, phase, cur, todo, ok, failed)
      BY <2>8, LocalMoves DEF UndoWrite
    <3> QED
      BY <1>1, <3>1
  <2>9. CASE SettleUndo(w, n, x)
    <3>1. Moved(w, "failSoft", cur, todo, ok, {})
      BY <2>9, LocalMoves DEF SettleUndo
    <3> QED
      BY <1>1, <3>1
  <2>10. CASE FailLane(w, n, x) \/ SettleFence(w, n, x)
    <3>1. Moved(w, "next", None, todo, ok, {})
      BY <2>10, LocalMoves DEF FailLane, SettleFence
    <3> QED
      BY <1>1, <3>1
  <2>11. CASE SkipLane(w, n, x) \/ FinishLane(w, n, x)
    <3>1. PICK outcome : CompleteLane(w, n, x, outcome)
      BY <2>11 DEF SkipLane, FinishLane
    <3>2. \/ \E y : Moved(w, "fence", <<n, x>>, todo, ok \ {<<n, x>>}, y)
          \/ Moved(w, "failSoft", cur, todo, ok, bad)
          \/ Moved(w, "idle", None, {}, {}, {})
          \/ Moved(w, "next", None, todo, ok \ {<<n, x>>}, bad)
      BY <3>1, CompletionMoves
    <3> QED
      BY <1>1, <3>2
  <2>12. CASE DeleteProjected(w, n, x)
    <3>1. PICK y : Moved(w, "fenced", cur, todo, ok, y)
      BY <2>12, LocalMoves DEF DeleteProjected
    <3> QED
      BY <1>1, <3>1
  <2> QED
    BY <2>1, <2>2, <2>3, <2>4, <2>5, <2>6, <2>7, <2>8, <2>9, <2>10, <2>11, <2>12
<1>11. Request => UNCHANGED worker
  BY DEF Request, Admit, RequestRollback, RollBack, Replay, PurgeRollback, PurgeDocument
<1> QED
  BY <1>2, <1>3, <1>4, <1>5, <1>6, <1>7, <1>8, <1>10, <1>11 DEF Next, Consume, Clean, vars

\* One mutation to a revision: no artifact is shared.
OneEach == \A m, n \in Mutation : RevisionOf[m] = RevisionOf[n] => m = n

\* The assertion of a mutation's revision is its own, and stays while the
\* mutation is live and has recorded it, or is about to.
FactIsKept == \A m \in Mutation :
    LET f == fact[RevisionOf[m]]
    IN  /\ f.by \in {None, m}
        /\ f.st = "NONE" <=> f.by = None
        /\ f.st # "NONE" => Admitted(m)
        /\ Live(m) => f.st # "RETRACTED"
        /\ Live(m) /\ (m \in Recorded \/ \E w \in Worker : At(w, "record", m, "SQL"))
              => f.st # "NONE"

\* A row of v4_assertions, of its own mutation m, as m may find it.
Kept(m, row, admitted, live, written) ==
    /\ row.by \in {None, m}
    /\ row.st = "NONE" <=> row.by = None
    /\ row.st # "NONE" => admitted
    /\ live => row.st # "RETRACTED"
    /\ live /\ written => row.st # "NONE"
Written(m) == m \in Recorded \/ \E w \in Worker : At(w, "record", m, "SQL")

\* A consumer comes to record a canonical assertion only after it wrote it.
LEMMA WrittenFirst ==
  ASSUME LiveInv, FactIsKept, OneEach, [Next]_vars, \A v, u \in Worker : v = u,
         NEW m \in Mutation, Live(m), Written(m)', ~Written(m)
  PROVE  fact'[RevisionOf[m]].st # "NONE"
<1>1. TypeOK /\ Shape /\ owner \in [Mutation -> [Store -> OwnerStates]] /\ "SQL" \in Store
      /\ fact \in [Revision -> FactRow] /\ RevisionOf[m] \in Revision
  BY PipelineAssumption DEF LiveInv, RollbackInv, TypeOK, Store
<1>2. CASE m \in Recorded'
  <2>1. owner[m]["SQL"] = "NONE" /\ owner'[m]["SQL"] # "NONE"
    BY <1>2 DEF Written, Recorded
  <2>2. ASSUME NEW n \in Mutation, RollBack(n) PROVE FALSE
    BY <1>1, <2>1, <2>2 DEF RollBack
  <2>3. PICK w \in Worker, n \in Mutation, x \in Store : RecordArtifact(w, n, x)
    BY <2>1, <2>2, OwnerActions
  <2>4. owner' = owner \/ owner' = [owner EXCEPT ![n][x] = IF @ = "NONE" THEN "ACTIVE" ELSE @]
    BY <2>3 DEF RecordArtifact
  <2>5. n = m /\ x = "SQL"
    BY <1>1, <2>1, <2>4
  <2>6. At(w, "record", m, "SQL")
    BY <2>3, <2>5 DEF RecordArtifact
  <2>7. \A v \in Worker : ~At(v, "record", m, "SQL")
    BY DEF Written
  <2> QED
    BY <2>6, <2>7
<1>3. ASSUME NEW w \in Worker, At(w, "record", m, "SQL")' PROVE fact'[RevisionOf[m]].st # "NONE"
  <2>1. worker'[w].pc = "record" /\ worker'[w].cur = <<m, "SQL">> /\ <<m, "SQL">> # None
        /\ ~(worker[w].pc = "record" /\ worker[w].cur = <<m, "SQL">>)
    BY <1>1, <1>3, NoneIsNoItem DEF At, Written, Item
  <2>2. PICK n \in Mutation, x \in Store : WriteArtifact(w, n, x) /\ worker'[w].cur = <<n, x>>
    BY <1>1, <2>1, Arrivals DEF Arrived
  <2>3. x = "SQL" /\ n = m
    BY <2>1, <2>2
  <2>4. fact' = InsertFact(m)
    <3>1. ~Goto(w, "failSoft")
      BY <1>1, <2>1, LocalMoves DEF Moved
    <3> QED
      BY <2>1, <2>2, <2>3, <3>1 DEF WriteArtifact
  <2> QED
    BY <1>1, <2>4 DEF InsertFact
<1> QED
  BY <1>2, <1>3 DEF Written

\* An assertion is inserted, superseded, restored, retracted or deleted without
\* a live mutation losing what it recorded.
LEMMA FactIsKeptStep ==
  ASSUME LiveInv, FactIsKept, OneEach, [Next]_vars, \A v, u \in Worker : v = u
  PROVE  FactIsKept'
<1>1. TypeOK /\ Shape /\ LedgerMatches /\ RevisionOf \in [Mutation -> Revision]
      /\ fact \in [Revision -> FactRow]
  BY PipelineAssumption DEF LiveInv, RollbackInv, TypeOK
<1> SUFFICES ASSUME NEW m \in Mutation
             PROVE  Kept(m, fact'[RevisionOf[m]], Admitted(m)', Live(m)', Written(m)')
  BY DEF FactIsKept, Kept, Written
<1> DEFINE r == RevisionOf[m]
           new == fact'[r]
<1>2. Kept(m, fact[r], Admitted(m), Live(m), Written(m)) /\ r \in Revision
  BY <1>1 DEF FactIsKept, Kept, Written
<1>3. Live(m)' => Live(m)
  BY LiveBefore
<1>4. Admitted(m) => Admitted(m)'
  BY <1>1, AdmittedStays
<1>5. Live(m) /\ Written(m)' /\ ~Written(m) => new.st # "NONE"
  BY WrittenFirst
<1>6. None # m
  BY PipelineAssumption
<1>7. CASE new = fact[r]
  BY <1>2, <1>3, <1>4, <1>5, <1>7 DEF Kept
<1>8. CASE FactInserted(r)
  <2>1. PICK w \in Worker, n \in Mutation :
           WriteArtifact(w, n, "SQL") /\ RevisionOf[n] = r /\ new = [st |-> "ACTIVE", by |-> n]
    BY <1>8 DEF FactInserted
  <2>2. n = m /\ "SQL" \in Store
    BY <2>1 DEF OneEach, Store
  <2>3. <<m, "SQL">> \in Claims(worker[w])
    BY <2>1, <2>2 DEF WriteArtifact, At, Claims, CleanPhases
  <2>4. Admitted(m)
    <3>1. CASE Live(m)
      BY <2>2, <2>3, <3>1 DEF LiveInv, ClaimsKept, Unadmitted, Holds
    <3>2. CASE ~Live(m)
      BY <3>2 DEF Live, Held, Admitted, Terminal, Absent
    <3> QED
      BY <3>1, <3>2
  <2> QED
    BY <1>4, <1>6, <2>1, <2>2, <2>4 DEF Kept
<1>9. CASE FactSuperseded(r) \/ FactRestored(r)
  <2>1. /\ fact[r].st \in {"ACTIVE", "SUPERSEDED"} /\ new.st \in {"ACTIVE", "SUPERSEDED"}
        /\ new.by = fact[r].by
    BY <1>9 DEF FactSuperseded, FactRestored
  <2> QED
    BY <1>2, <1>4, <2>1 DEF Kept
<1>10. CASE FactRetracted(r)
  <2>1. fact[r].st # "NONE" /\ new.st = "RETRACTED" /\ new.by = fact[r].by
    BY <1>10 DEF FactRetracted
  <2>2. Admitted(m)
    BY <1>2, <2>1 DEF Kept
  <2>3. ~Live(m)'
    <3>1. ASSUME NEW n \in Mutation, RollBack(n), RevisionOf[n] = r PROVE ~Live(m)'
      <4>1. n = m
        BY <3>1 DEF OneEach
      <4> QED
        BY <1>1, <3>1, <4>1, RollBackHeld DEF Live
    <3>2. ASSUME NEW d \in Document, PurgeDocument(d), DocumentOf[r] = d PROVE ~Live(m)'
      BY <1>1, <2>2, <3>2, PurgeHeld DEF Live, DocOf
    <3> QED
      BY <1>10, <3>1, <3>2 DEF FactRetracted
  <2> QED
    BY <1>2, <1>4, <2>1, <2>2, <2>3 DEF Kept
<1>11. CASE FactErased(r)
  <2>1. PICK w \in Worker, n \in Mutation :
           /\ RevisionOf[n] = r
           /\ \/ UndoWrite(w, n, "GRAPH") /\ RowTerminal(ledger[n]) /\ fact[r].by = n
              \/ ApplyCleanup(w, n, "SQL")
           /\ new = [st |-> "NONE", by |-> None]
    BY <1>11 DEF FactErased
  <2>2. n = m /\ "SQL" \in Store /\ <<m, "SQL">> # None
    BY <2>1, NoneIsNoItem DEF OneEach, Store, Item
  <2>3. CASE UndoWrite(w, n, "GRAPH") /\ RowTerminal(ledger[n]) /\ fact[r].by = n
    <3>1. Admitted(m) /\ Fenced(m)
      BY <1>2, <1>6, <2>2, <2>3 DEF Kept, Fenced
    <3>2. ~Live(m)
      BY <3>1, FencedHeld
    <3> QED
      BY <1>3, <2>1, <3>2 DEF Kept
  <2>4. CASE ApplyCleanup(w, n, "SQL")
    <3>1. <<m, "SQL">> \in Cleanups(worker[w])
      BY <2>2, <2>4 DEF ApplyCleanup, Cleanups, CleanPhases
    <3>2. cleanup[m]["SQL"].st # "NONE"
      BY <2>2, <3>1 DEF LiveInv, ClaimsKept
    <3>3. ~Live(m)
      BY <2>2, <3>2 DEF LiveInv, ReleasedIsHeld
    <3> QED
      BY <1>3, <2>1, <3>3 DEF Kept
  <2> QED
    BY <2>1, <2>3, <2>4
<1>12. FactMoved(r)
  BY <1>1, <1>2, FactMoves
<1> QED
  BY <1>7, <1>8, <1>9, <1>10, <1>11, <1>12 DEF FactMoved

\* No assertion is there at first.
LEMMA FactIsKeptInit == Init => FactIsKept
<1> SUFFICES ASSUME Init, NEW m \in Mutation
             PROVE  LET f == fact[RevisionOf[m]]
                    IN  /\ f = [st |-> "NONE", by |-> None]
                        /\ m \notin Recorded
                        /\ \A w \in Worker : ~At(w, "record", m, "SQL")
  BY DEF FactIsKept
<1>1. RevisionOf[m] \in Revision
  BY PipelineAssumption
<1> QED
  BY <1>1 DEF Init, Recorded, Store, At, Idle

\* What a consumer finished or a lane completed for a live mutation is in its
\* store and owned; so is, each in its own half, what it is about to record or to
\* commit.
ProjectedIsThere(m, s) ==
    lane[m][s].st = "COMPLETED" \/ (\E w \in Worker : <<m, s>> \in worker[w].ok)
        => owner[m][s] # "NONE" /\ RevisionOf[m] \in physical[s]
WrittenIsThere(m) ==
    (\E w \in Worker : At(w, "record", m, "VECTOR")) => RevisionOf[m] \in physical["VECTOR"]
StagedIsOwned(m) ==
    (\E w \in Worker : At(w, "commit", m, "GRAPH")) => owner[m]["GRAPH"] # "NONE"
DerivedIsKept == \A m \in Mutation : Live(m) =>
    /\ \A s \in Optional : ProjectedIsThere(m, s)
    /\ WrittenIsThere(m) /\ StagedIsOwned(m)

\* Nothing deletes an artifact that a live mutation relies on: a compensation
\* holds its lane, a fenced completion and a cleanup that finds no assertion are
\* of a held mutation.
LEMMA PhysicalStays ==
  ASSUME LiveInv, FactIsKept, OneEach, [Next]_vars, \A v, u \in Worker : v = u,
         NEW m \in Mutation, Live(m), NEW s \in Optional, RevisionOf[m] \in physical[s],
         \/ lane[m][s].st = "COMPLETED"
         \/ \E v \in Worker : <<m, s>> \in worker[v].ok
         \/ \E v \in Worker : worker[v].pc = "record" /\ worker[v].cur = <<m, s>>
  PROVE  RevisionOf[m] \in physical'[s]
<1>1. TypeOK /\ Shape /\ s \in Store
  BY DEF LiveInv, RollbackInv, Optional, Store
<1> SUFFICES ASSUME RevisionOf[m] \notin physical'[s] PROVE FALSE
  OBVIOUS
<1>2. PICK w \in Worker, n \in Mutation : RevisionOf[n] = RevisionOf[m] /\ Removes(w, n, s)
  BY <1>1, PhysicalMoves
<1>3. n = m
  BY <1>2 DEF OneEach
<1>4. ASSUME UndoWrite(w, m, s) PROVE FALSE
  <2>1. worker[w].pc = "undo" /\ worker[w].cur = <<m, s>>
    BY <1>4 DEF UndoWrite, At
  <2>2. <<m, s>> \in Claims(worker[w])
    BY <2>1 DEF Claims, CleanPhases
  <2>3. lane[m][s].st # "COMPLETED"
    BY <1>1, <2>2 DEF LiveInv, ClaimsKept, Holds
  <2>4. <<m, s>> \notin worker[w].ok
    BY <1>1, <2>1 DEF Shape, Shaped
  <2> QED
    BY <2>1, <2>3, <2>4
<1>5. ASSUME NEW x \in Store, DeleteProjected(w, m, x) PROVE FALSE
  BY <1>5 DEF DeleteProjected, At, LiveInv, FencedIsHeld
<1>6. ASSUME ApplyCleanup(w, m, s), fact[RevisionOf[m]].st \in {"NONE", "RETRACTED"} PROVE FALSE
  <2>1. <<m, s>> \in Cleanups(worker[w])
    BY <1>6 DEF ApplyCleanup, Cleanups, CleanPhases
  <2>2. cleanup[m][s].st # "NONE"
    BY <1>1, <2>1 DEF LiveInv, ClaimsKept
  <2>3. m \in Recorded
    BY <1>1, <2>2 DEF LiveInv, SqlFirst
  <2> QED
    BY <1>6, <2>3 DEF FactIsKept
<1> QED
  BY <1>2, <1>3, <1>4, <1>5, <1>6 DEF Removes

\* A lane a consumer finishes for a live mutation has been projected
\* (list_v4_assertions_for_mutation finds its assertion).
LEMMA FinishedIsThere ==
  ASSUME LiveInv, FactIsKept, DerivedIsKept, OneEach, [Next]_vars, \A v, u \in Worker : v = u,
         NEW m \in Mutation, Live(m), NEW s \in Optional,
         NEW w \in Worker, <<m, s>> \in worker'[w].ok, <<m, s>> \notin worker[w].ok
  PROVE  owner'[m][s] # "NONE" /\ RevisionOf[m] \in physical'[s]
<1>1. TypeOK /\ Shape /\ s \in Store
      /\ owner \in [Mutation -> [Store -> OwnerStates]] /\ physical \in [Optional -> SUBSET Revision]
  BY DEF LiveInv, RollbackInv, TypeOK, Optional, Store
<1>2. /\ Applied(w) /\ worker[w].cur = <<m, s>>
      /\ ListAssertions(w, m, s) \/ RecordArtifact(w, m, s) \/ CommitGraph(w, m)
  BY <1>1, Arrivals DEF Arrived
<1>3. worker'[w].pc = "next"
  BY <1>1, <1>2, LocalMoves DEF Moved
<1>4. \A phase : Goto(w, phase) => phase = "next"
  BY <1>1, <1>3, LocalMoves DEF Moved
<1>5. m \in Recorded
  <2>1. Backed(worker[w], Recorded) /\ worker[w].cur = <<m, s>>
    BY <1>2 DEF LiveInv, SqlFirst
  <2> QED
    BY <1>1, <2>1 DEF Backed
<1>6. ASSUME ListAssertions(w, m, s) PROVE FALSE
  <2>1. /\ fact[RevisionOf[m]].by = m /\ fact[RevisionOf[m]] \in FactRow
        /\ fact[RevisionOf[m]].st \notin {"NONE", "RETRACTED"}
    BY <1>1, <1>5, PipelineAssumption DEF FactIsKept, TypeOK
  <2>2. fact[RevisionOf[m]].st \in {"ACTIVE", "SUPERSEDED"}
    BY <2>1 DEF FactRow, FactStates
  <2>3. Goto(w, "check") \/ Goto(w, "write")
    BY <1>6, <2>1, <2>2 DEF ListAssertions
  <2> QED
    BY <1>4, <2>3
<1>7. CASE RecordArtifact(w, m, s)
  <2>1. At(w, "record", m, s) /\ physical' = physical
    BY <1>7 DEF RecordArtifact
  <2>2. /\ owner' = [owner EXCEPT ![m][s] = IF @ = "NONE" THEN "ACTIVE" ELSE @]
        /\ s # "GRAPH"
    BY <1>4, <1>7 DEF RecordArtifact
  <2>3. s = "VECTOR"
    BY <2>2 DEF Optional
  <2>4. RevisionOf[m] \in physical["VECTOR"]
    BY <2>1, <2>3 DEF DerivedIsKept, WrittenIsThere
  <2> QED
    BY <1>1, <2>1, <2>2, <2>3, <2>4
<1>8. CASE CommitGraph(w, m)
  <2>1. worker[w].cur = <<m, "GRAPH">> /\ worker[w].pc = "commit" /\ owner' = owner
    BY <1>8 DEF CommitGraph, At
  <2>6. s = "GRAPH" /\ At(w, "commit", m, "GRAPH")
    BY <1>2, <2>1 DEF At
  <2>2. owner[m]["GRAPH"] # "NONE"
    BY <2>6 DEF DerivedIsKept, StagedIsOwned
  <2>3. physical' = [physical EXCEPT !["GRAPH"] = @ \cup {RevisionOf[m]}]
    BY <1>4, <1>8 DEF CommitGraph
  <2> QED
    BY <1>1, <2>1, <2>6, <2>2, <2>3
<1> QED
  BY <1>2, <1>6, <1>7, <1>8

\* What is projected for a live mutation stays in its store and owned.
LEMMA DerivedIsKeptStep ==
  ASSUME LiveInv, FactIsKept, DerivedIsKept, OneEach, [Next]_vars, \A v, u \in Worker : v = u
  PROVE  DerivedIsKept'
<1>1. TypeOK /\ Shape
      /\ owner \in [Mutation -> [Store -> OwnerStates]] /\ physical \in [Optional -> SUBSET Revision]
  BY DEF LiveInv, RollbackInv, TypeOK
<1>2. \A m \in Mutation, s \in Store : owner[m][s] # "NONE" => owner'[m][s] # "NONE"
  BY <1>1, OwnerStays
<1> SUFFICES ASSUME NEW m \in Mutation, Live(m)'
             PROVE  /\ \A s \in Optional : ProjectedIsThere(m, s)'
                    /\ WrittenIsThere(m)' /\ StagedIsOwned(m)'
  BY DEF DerivedIsKept
<1>3. /\ Live(m)
      /\ \A s \in Optional : s \in Store /\ <<m, s>> # None
      /\ "VECTOR" \in Optional /\ "GRAPH" \in Store /\ <<m, "GRAPH">> # None
  BY LiveBefore, NoneIsNoItem DEF Optional, Store, Item
<1>4. ASSUME NEW s \in Optional,
             lane'[m][s].st = "COMPLETED" \/ (\E w \in Worker : <<m, s>> \in worker'[w].ok)
      PROVE  owner'[m][s] # "NONE" /\ RevisionOf[m] \in physical'[s]
  <2>1. CASE lane[m][s].st = "COMPLETED" \/ \E w \in Worker : <<m, s>> \in worker[w].ok
    <3>1. owner[m][s] # "NONE" /\ RevisionOf[m] \in physical[s]
      BY <1>3, <2>1 DEF DerivedIsKept, ProjectedIsThere
    <3> QED
      BY <1>2, <1>3, <2>1, <3>1, PhysicalStays
  <2>2. CASE \E w \in Worker : <<m, s>> \in worker'[w].ok /\ <<m, s>> \notin worker[w].ok
    BY <1>3, <2>2, FinishedIsThere
  <2>3. CASE lane'[m][s].st = "COMPLETED" /\ lane[m][s].st # "COMPLETED"
    <3>1. LaneFinished(m, s)
      <4>3. LaneMoved(m, s) /\ lane'[m][s] # lane[m][s]
        BY <1>1, <1>3, <2>3, LaneMoves
      <4>1. ~LaneDropped(m, s)
        BY <2>3 DEF LaneDropped
      <4>2. ~LaneClaimed(m, s)
        <5> SUFFICES ASSUME NEW v, lane'[m][s] = Claim(lane[m][s], v) PROVE FALSE
          BY DEF LaneClaimed
        <5> QED
          BY <2>3 DEF Claim
      <4> QED
        BY <4>1, <4>2, <4>3 DEF LaneMoved
    <3>2. PICK w \in Worker : FinishLane(w, m, s)
      BY <2>3, <3>1 DEF LaneFinished, Row
    <3>3. <<m, s>> \in worker[w].ok
      BY <3>2 DEF FinishLane, First
    <3> QED
      BY <2>1, <3>3
  <2> QED
    BY <1>4, <2>1, <2>2, <2>3
<1>5. ASSUME NEW w \in Worker, worker'[w].pc = "record", worker'[w].cur = <<m, "VECTOR">>
      PROVE  RevisionOf[m] \in physical'["VECTOR"]
  <2>1. CASE worker'[w] = worker[w]
    <3>1. RevisionOf[m] \in physical["VECTOR"]
      BY <1>3, <1>5, <2>1 DEF DerivedIsKept, WrittenIsThere, At
    <3>2. worker[w].pc = "record" /\ worker[w].cur = <<m, "VECTOR">>
      BY <1>5, <2>1
    <3> QED
      BY <1>3, <3>1, <3>2, PhysicalStays
  <2>2. CASE worker'[w] # worker[w]
    <3>4. Arrived(w)
      BY <1>1, Arrivals
    <3>5. PICK n \in Mutation, x \in Store : WriteArtifact(w, n, x) /\ worker'[w].cur = <<n, x>>
      BY <1>5, <2>2, <3>4 DEF Arrived
    <3>1. WriteArtifact(w, m, "VECTOR")
      <4>1. n = m /\ x = "VECTOR"
        BY <1>5, <3>5
      <4> QED
        BY <3>5, <4>1
    <3>2. ~Goto(w, "failSoft")
      <4> SUFFICES ASSUME Goto(w, "failSoft") PROVE FALSE
        OBVIOUS
      <4>1. Moved(w, "failSoft", worker[w].cur, worker[w].todo, worker[w].ok, worker[w].bad)
        BY <1>1, LocalMoves
      <4> QED
        BY <1>5, <4>1 DEF Moved
    <3>3. physical' = [physical EXCEPT !["VECTOR"] = @ \cup {RevisionOf[m]}]
      BY <3>1, <3>2 DEF WriteArtifact
    <3> QED
      BY <1>1, <1>3, <3>3, PipelineAssumption
  <2> QED
    BY <2>1, <2>2
<1>6. ASSUME NEW w \in Worker, worker'[w].pc = "commit", worker'[w].cur = <<m, "GRAPH">>
      PROVE  owner'[m]["GRAPH"] # "NONE"
  <2>1. CASE worker'[w] = worker[w]
    <3>1. At(w, "commit", m, "GRAPH")
      BY <1>6, <2>1 DEF At
    <3>2. owner[m]["GRAPH"] # "NONE"
      BY <1>3, <3>1 DEF DerivedIsKept, StagedIsOwned
    <3> QED
      BY <1>2, <1>3, <3>2
  <2>2. CASE worker'[w] # worker[w]
    <3>4. Arrived(w)
      BY <1>1, Arrivals
    <3>5. PICK n \in Mutation : RecordArtifact(w, n, "GRAPH") /\ worker'[w].cur = <<n, "GRAPH">>
      BY <1>6, <2>2, <3>4 DEF Arrived
    <3>1. RecordArtifact(w, m, "GRAPH")
      <4>1. n = m
        BY <1>6, <3>5
      <4> QED
        BY <3>5, <4>1
    <3>2. ~Goto(w, "undo")
      <4> SUFFICES ASSUME Goto(w, "undo") PROVE FALSE
        OBVIOUS
      <4>1. Moved(w, "undo", worker[w].cur, worker[w].todo, worker[w].ok, worker[w].bad)
        BY <1>1, LocalMoves
      <4> QED
        BY <1>6, <4>1 DEF Moved
    <3>3. owner' = [owner EXCEPT ![m]["GRAPH"] = IF @ = "NONE" THEN "ACTIVE" ELSE @]
      BY <3>1, <3>2 DEF RecordArtifact
    <3> QED
      BY <1>1, <1>3, <3>3
  <2> QED
    BY <2>1, <2>2
<1> QED
  BY <1>4, <1>5, <1>6 DEF ProjectedIsThere, WrittenIsThere, StagedIsOwned, At

\* Nothing is projected at first.
LEMMA DerivedIsKeptInit == Init => DerivedIsKept
<1> SUFFICES ASSUME Init PROVE DerivedIsKept
  OBVIOUS
<1>1. /\ \A m \in Mutation, s \in Store : lane[m][s] = Row("NONE", 0)
      /\ \A w \in Worker : worker[w] = Idle
      /\ Optional \subseteq Store
  BY DEF Init, Optional, Store
<1> QED
  BY <1>1 DEF DerivedIsKept, ProjectedIsThere, WrittenIsThere, StagedIsOwned, At, Row, Idle

\* With one consumer, and no artifact shared by two mutations: a committed
\* mutation is in every store a completed lane projected it to, and owns what it
\* recorded there, through failing stores, rollbacks, purges, replays and
\* restarts.
THEOREM CommittedStoredHolds ==
  ASSUME \A v, u \in Worker : v = u, OneEach
  PROVE  Spec => []CommittedIsStored
<1> DEFINE Inv == LiveInv /\ FactIsKept /\ DerivedIsKept
<1>1. Init => Inv
  BY LiveInvInit, FactIsKeptInit, DerivedIsKeptInit
<1>2. Inv /\ [Next]_vars => Inv'
  BY LiveInvStep, FactIsKeptStep, DerivedIsKeptStep
<1>3. Inv => CommittedIsStored
  <2> SUFFICES ASSUME Inv, NEW m \in Mutation, ledger[m].mut = "COMMITTED",
                      NEW s \in Store, lane[m][s].st = "COMPLETED"
               PROVE  /\ owner[m][s] = "ACTIVE"
                      /\ s \in Optional => RevisionOf[m] \in physical[s]
    BY DEF CommittedIsStored
  <2>1. Live(m)
    BY DEF Live, Held, Terminal
  <2>2. owner[m][s] # "NONE" /\ (s \in Optional => RevisionOf[m] \in physical[s])
    <3>1. CASE s = "SQL"
      BY <3>1 DEF LiveInv, SqlFirst, Recorded, Optional
    <3>2. CASE s \in Optional
      BY <2>1, <3>2 DEF DerivedIsKept, ProjectedIsThere
    <3> QED
      BY <3>1, <3>2 DEF Store, Optional
  <2>3. owner[m][s] # "RELEASED"
    BY <2>1 DEF LiveInv, ReleasedIsHeld
  <2>4. owner[m][s] \in OwnerStates
    BY DEF LiveInv, RollbackInv, TypeOK
  <2> QED
    BY <2>2, <2>3, <2>4 DEF OwnerStates
<1> QED
  BY <1>1, <1>2, <1>3, PTL DEF Spec

-----------------------------------------------------------------------------
(* A committed mutation stays committed                                    *)

\* The states a committed mutation may be left in.
StaysPut == {"COMMITTED", "ROLLING_BACK", "ROLLED_BACK", "PURGED"}

\* A failing backfill, a completed lane, a settled compensation, a rollback and
\* a purge take a committed mutation nowhere else.
LEMMA CommittedMoves ==
  ASSUME NEW row \in LedgerRow, row.mut = "COMMITTED"
  PROVE  /\ row.mut \in StaysPut /\ Reopened(row).mut \in StaysPut
         /\ \A to \in {"ROLLED_BACK", "BLOCKED", "ROLLING_BACK"} : MoveBoth(row, to).mut \in StaysPut
         /\ MoveBoth(MoveBoth(row, "ROLLING_BACK"), "ROLLED_BACK").mut \in StaysPut
         /\ MoveMutation(row, "PURGED").mut \in StaysPut
         /\ \A dead : Failed(row, dead).mut \in StaysPut
         /\ \A done : Advance(row, done).mut \in StaysPut
<1>1. \A to \in {"ROLLED_BACK", "ROLLING_BACK"} : MoveBoth(row, to).mut \in StaysPut
  BY MovesWhere DEF StaysPut
<1>2. MoveBoth(row, "BLOCKED").mut = "COMMITTED"
  <2>1. MoveRun(row, "BLOCKED").mut = "COMMITTED"
    BY BothMoves
  <2>2. "BLOCKED" \notin MutationNext("COMMITTED")
    BY DEF MutationNext
  <2> QED
    BY <2>1, <2>2 DEF MoveBoth, MoveMutation
<1>3. MoveBoth(MoveBoth(row, "ROLLING_BACK"), "ROLLED_BACK").mut \in StaysPut
  <2>1. MoveBoth(row, "ROLLING_BACK") \in LedgerRow
    BY MoveType
  <2> QED
    BY <1>1, <2>1, MovesWhere DEF StaysPut
<1>4. MoveMutation(row, "PURGED").mut \in StaysPut /\ Reopened(row).mut = "COMMITTED"
  BY MovesWhere DEF StaysPut, Reopened
<1>5. ASSUME NEW done PROVE Advance(row, done).mut = "COMMITTED"
  <2>1. Ahead("COMMITTED") = {}
    BY DEF Ahead, Reached
  <2>2. Walk("COMMITTED", done) = "COMMITTED"
    BY <2>1 DEF Walk
  <2> QED
    BY <2>2 DEF Advance
<1> QED
  BY <1>1, <1>2, <1>3, <1>4, <1>5 DEF StaysPut, Failed

\* Restarts do not revive a committed mutation whose stores show it and whose
\* assertion is the head's (reconcile_v4_projection_parity).
LEMMA RestartKeepsCommitted ==
  ASSUME LiveInv, FactIsKept, \A r \in Revision : fact[r].st # "SUPERSEDED",
         Restart, NEW m \in Mutation, ledger[m].mut = "COMMITTED", Stored(m)
  PROVE  ledger'[m] = ledger[m]
<1>1. /\ fact \in [Revision -> FactRow] /\ RevisionOf[m] \in Revision
      /\ Live(m) /\ "SQL" \in Store
  BY PipelineAssumption DEF LiveInv, RollbackInv, TypeOK, Live, Held, Terminal, Store
<1>2. ASSUME owner[m]["SQL"] # "NONE" PROVE fact[RevisionOf[m]].st = "ACTIVE"
  <2>1. fact[RevisionOf[m]].st \notin {"NONE", "RETRACTED"}
    BY <1>1, <1>2 DEF FactIsKept, Recorded
  <2> QED
    BY <1>1, <2>1 DEF FactRow, FactStates
<1>3. ASSUME NEW stores PROVE Missing(m, stores) = {}
  <2> SUFFICES ASSUME NEW s \in Store, owner[m][s] # "NONE", lane[m][s].st = "COMPLETED",
                      \/ s = "SQL" /\ fact[RevisionOf[m]].st # "ACTIVE"
                      \/ s \in {"VECTOR", "GRAPH"} /\ RevisionOf[m] \notin physical[s]
               PROVE  FALSE
    BY DEF Missing
  <2> QED
    BY <1>2 DEF Stored
<1>4. \A stores : Unparity(m, stores) = {}
  BY <1>3 DEF Unparity
<1> QED
  BY <1>4 DEF Restart

\* A committed mutation stays where it is, or is rolled back or purged.
LEMMA CommittedStep ==
  ASSUME LiveInv, ColdIsEarly, [Next]_vars,
         "restart" \in Events => FactIsKept /\ \A r \in Revision : fact[r].st # "SUPERSEDED",
         NEW m \in Mutation, ledger[m].mut = "COMMITTED", Stored(m)
  PROVE  ledger'[m].mut \in StaysPut
<1> DEFINE row == ledger[m]
<1>1. /\ ledger \in [Mutation -> LedgerRow] /\ row \in LedgerRow
      /\ row.run = "COMMITTED" /\ row.mut \in StaysPut
  BY CommittedMoves DEF LiveInv, RollbackInv, TypeOK, LedgerMatches, Matched
<1>2. ASSUME NEW n \in Mutation, NEW new,
             ledger' = [ledger EXCEPT ![n] = new], n = m => new.mut \in StaysPut
      PROVE  ledger'[m].mut \in StaysPut
  BY <1>1, <1>2
<1>3. ASSUME NEW w \in Worker, NEW n \in Mutation, ColdExtract(w, n) \/ ColdJudge(w, n)
      PROVE  ledger'[m].mut \in StaysPut
  <2>1. worker[w].pc \in {"extract", "judge"} /\ worker[w].cur = <<n, "COLD">>
    BY <1>3 DEF ColdExtract, ColdJudge, At
  <2>2. n # m
    BY <2>1 DEF ColdIsEarly
  <2>3. \A to : Judged(n, to)[m] = ledger[m]
    BY <1>1, <2>2 DEF Judged
  <2>4. ledger'[m] = ledger[m]
    BY <1>1, <1>3, <2>2, <2>3 DEF ColdExtract, ColdJudge
  <2> QED
    BY <1>1, <2>4
<1>4. ASSUME NEW w \in Worker, NEW n \in Mutation, ColdUnverified(w, n)
      PROVE  ledger'[m].mut \in StaysPut
  <2>1. \/ ledger' = ledger
        \/ /\ ledger[n].mut # "COMMITTED"
           /\ ledger' = [ledger EXCEPT ![n] = MoveMutation(ledger[n], "DEAD_LETTER")]
    BY <1>4 DEF ColdUnverified
  <2>2. ledger'[m] = ledger[m]
    BY <1>1, <2>1
  <2> QED
    BY <1>1, <2>2
<1>5. ASSUME NEW w \in Worker, NEW n \in Mutation, NEW s \in Store,
             SettleUndo(w, n, s) \/ SettleFence(w, n, s)
      PROVE  ledger'[m].mut \in StaysPut
  <2>1. \E new \in {ledger[n], Reopened(ledger[n]), MoveBoth(ledger[n], "ROLLED_BACK")} :
           ledger' = [ledger EXCEPT ![n] = new]
    BY <1>5 DEF SettleUndo, SettleFence, FinalizeCompensation, EnqueueUnowned
  <2> QED
    BY <1>1, <1>2, <2>1, CommittedMoves
<1>6. ASSUME NEW w \in Worker, NEW n \in Mutation, NEW s \in Store, FailLane(w, n, s)
      PROVE  ledger'[m].mut \in StaysPut
  <2>1. ledger' = ledger \/ \E dead : ledger' = [ledger EXCEPT ![n] = Failed(ledger[n], dead)]
    BY <1>6 DEF FailLane
  <2> QED
    BY <1>1, <1>2, <2>1, CommittedMoves
<1>7. ASSUME NEW w \in Worker, NEW n \in Mutation, NEW s \in Store,
             SkipLane(w, n, s) \/ FinishLane(w, n, s)
      PROVE  ledger'[m].mut \in StaysPut
  <2>1. PICK outcome : CompleteLane(w, n, s, outcome)
    BY <1>7 DEF SkipLane, FinishLane
  <2>2. ledger' = ledger \/ \E done : ledger' = [ledger EXCEPT ![n] = Advance(ledger[n], done)]
    BY <2>1 DEF CompleteLane
  <2> QED
    BY <1>1, <1>2, <2>2, CommittedMoves
<1>8. ASSUME NEW w \in Worker, NEW n \in Mutation, NEW s \in Store, FinishCleanup(w, n, s)
      PROVE  ledger'[m].mut \in StaysPut
  <2>1. \/ ledger' = ledger
        \/ \E new \in {ledger[n], MoveBoth(ledger[n], "BLOCKED"), MoveBoth(ledger[n], "ROLLED_BACK")} :
              ledger' = [ledger EXCEPT ![n] = new]
    BY <1>8 DEF FinishCleanup
  <2> QED
    BY <1>1, <1>2, <2>1, CommittedMoves
<1>9. ASSUME NEW n \in Mutation, Admit(n) PROVE ledger'[m].mut \in StaysPut
  <2>1. n # m
    BY <1>9 DEF Admit, Admitted, Absent
  <2>2. ledger'[m] = ledger[m]
    BY <1>1, <1>9, <2>1 DEF Admit
  <2> QED
    BY <1>1, <2>2
<1>10. ASSUME NEW n \in Mutation, RollBack(n) PROVE ledger'[m].mut \in StaysPut
  <2>1. \E new \in {MoveBoth(ledger[n], "ROLLING_BACK"),
                    MoveBoth(MoveBoth(ledger[n], "ROLLING_BACK"), "ROLLED_BACK")} :
           ledger' = [ledger EXCEPT ![n] = new]
    BY <1>10 DEF RollBack
  <2> QED
    BY <1>1, <1>2, <2>1, CommittedMoves
<1>11. ASSUME NEW n \in Mutation, Replay(n) PROVE ledger'[m].mut \in StaysPut
  <2>1. n # m
    BY <1>1, <1>11 DEF Replay
  <2>2. ledger'[m] = ledger[m]
    BY <1>1, <1>11, <2>1 DEF Replay
  <2> QED
    BY <1>1, <2>2
<1>12. ASSUME NEW d \in Document, PurgeDocument(d) PROVE ledger'[m].mut \in StaysPut
  <2>1. ledger'[m] \in {ledger[m], MoveMutation(ledger[m], "PURGED")}
    BY <1>12 DEF PurgeDocument
  <2> QED
    BY <1>1, <2>1, CommittedMoves
<1>13. CASE Restart
  <2>1. ledger'[m] = ledger[m]
    BY <1>13, RestartKeepsCommitted DEF Restart
  <2> QED
    BY <1>1, <2>1
<1>14. CASE UNCHANGED ledger
  BY <1>1, <1>14
<1>15. ASSUME NEW w \in Worker, NEW n \in Mutation, NEW s \in Store, ItemStep(w, n, s)
       PROVE  ledger'[m].mut \in StaysPut
  BY <1>3, <1>4, <1>5, <1>6, <1>7, <1>8, <1>14, <1>15, ConsumeFrames DEF ItemStep
<1>16. ASSUME NEW w \in Worker, ClaimLanes(w) \/ ClaimCleanup(w)
       PROVE  ledger'[m].mut \in StaysPut
  BY <1>14, <1>16 DEF ClaimLanes, ClaimCleanup
<1> QED
  BY <1>9, <1>10, <1>11, <1>12, <1>13, <1>14, <1>15, <1>16, Steps DEF vars

\* Without a chain of revisions no assertion is superseded.
LEMMA NeverSuperseded ==
  ASSUME TypeOK, [Next]_vars, \A r \in Revision : Supersedes[r] = None,
         \A r \in Revision : fact[r].st # "SUPERSEDED"
  PROVE  \A r \in Revision : fact'[r].st # "SUPERSEDED"
<1> SUFFICES ASSUME NEW r \in Revision PROVE fact'[r].st # "SUPERSEDED"
  OBVIOUS
<1>1. FactMoved(r) /\ ~FactSuperseded(r)
  BY FactMoves, PipelineAssumption DEF FactSuperseded
<1>2. fact'[r] = fact[r] => fact'[r].st # "SUPERSEDED"
  OBVIOUS
<1>3. FactInserted(r) => fact'[r].st # "SUPERSEDED"
  BY DEF FactInserted
<1>5. FactErased(r) => fact'[r].st # "SUPERSEDED"
  BY DEF FactErased
<1>4. FactRestored(r) => fact'[r].st # "SUPERSEDED"
  BY DEF FactRestored
<1>6. FactRetracted(r) => fact'[r].st # "SUPERSEDED"
  BY DEF FactRetracted
<1> QED
  BY <1>1, <1>2, <1>3, <1>4, <1>5, <1>6 DEF FactMoved

\* No cold path is under way at first, and no assertion is superseded.
LEMMA ColdIsEarlyInit == Init => ColdIsEarly /\ \A r \in Revision : fact[r].st # "SUPERSEDED"
  BY DEF Init, ColdIsEarly, Idle

\* With one consumer: a committed mutation that its stores show stays committed
\* until it is rolled back or purged, whatever fails and whatever is replayed.
\* A deployment that restarts is covered when no artifact is shared and no
\* revision superseded; the parity repair of a superseded revision does take its
\* committed mutation back to RETRY_PENDING.
THEOREM CommittedStays ==
  ASSUME \A v, u \in Worker : v = u,
         "restart" \in Events => OneEach /\ \A r \in Revision : Supersedes[r] = None
  PROVE  Spec => CommittedStaysCommitted
<1> DEFINE Heads == "restart" \in Events =>
                       FactIsKept /\ \A r \in Revision : fact[r].st # "SUPERSEDED"
           Inv == LiveInv /\ ColdIsEarly /\ Heads
<1>1. Init => Inv
  BY LiveInvInit, ColdIsEarlyInit, FactIsKeptInit
<1>2. Inv /\ [Next]_vars => Inv'
  <2> SUFFICES ASSUME Inv, [Next]_vars PROVE Inv'
    OBVIOUS
  <2>1. LiveInv' /\ ColdIsEarly'
    BY LiveInvStep, ColdIsEarlyStep
  <2>2. TypeOK
    BY DEF LiveInv, RollbackInv
  <2>3. ASSUME "restart" \in Events
        PROVE  FactIsKept' /\ \A r \in Revision : fact'[r].st # "SUPERSEDED"
    BY <2>2, <2>3, FactIsKeptStep, NeverSuperseded
  <2> QED
    BY <2>1, <2>3
<1>3. Inv /\ [Next]_vars =>
         [\A m \in Mutation : ledger[m].mut = "COMMITTED" /\ Stored(m) =>
                 ledger'[m].mut \in {"COMMITTED", "ROLLING_BACK", "ROLLED_BACK", "PURGED"}]_vars
  BY CommittedStep DEF StaysPut
<1> QED
  BY <1>1, <1>2, <1>3, PTL DEF Spec, CommittedStaysCommitted

-----------------------------------------------------------------------------
(***************************************************************************)
(* The chain of revisions of a document, for every chain: the revisions in *)
(* history form one line of descent that ends at the head, and assertions  *)
(* follow their revisions.  The place of each revision in its chain is a   *)
(* function depth, whose existence Chained states: no document has a cycle *)
(* of revisions, since admission refuses an unknown predecessor.           *)
(***************************************************************************)

-----------------------------------------------------------------------------
(* One line of revisions                                                   *)

\* The place of each revision in the chain of its document: a revision supersedes
\* an earlier one of the same document (admit_v4_memory refuses another).
Chained(depth) == \A r \in Revision :
    IF Supersedes[r] = None THEN depth[r] = 0
    ELSE /\ DocumentOf[Supersedes[r]] = DocumentOf[r]
         /\ depth[r] = depth[Supersedes[r]] + 1

\* The revisions a document has been through: one line of descent from its head.
InHistory(r) == revision[r] \in {"ACTIVE", "SUPERSEDED"}
HistoryLine(depth) ==
    /\ UniqueHeads(revision)
    /\ \A q \in Revision : revision[q] = "SUPERSEDED" =>
          /\ \E r \in Revision : revision[r] = "ACTIVE" /\ DocumentOf[q] = DocumentOf[r]
                                 /\ depth[q] < depth[r]
          /\ \E r \in Revision : Supersedes[r] = q /\ InHistory(r)
    /\ \A r \in Revision : InHistory(r) /\ Supersedes[r] # None
          => revision[Supersedes[r]] = "SUPERSEDED"
    /\ \A q, r \in Revision :
          InHistory(q) /\ InHistory(r) /\ DocumentOf[q] = DocumentOf[r] /\ depth[q] = depth[r]
          => q = r

\* An activation extends the line by the new head
\* (_reconcile_revision_activation_in_tx).
LEMMA ActivationExtends ==
  ASSUME TypeOK, NEW depth \in [Revision -> Nat], Chained(depth), HistoryLine(depth),
         NEW r \in Revision, revision[r] = "PENDING", ~HeadConflict(r),
         revision' = ActivatedRevisions(r)
  PROVE  HistoryLine(depth)'
<1> DEFINE p == Supersedes[r]
<1>1. /\ revision \in [Revision -> RevisionStates]
      /\ Supersedes \in [Revision -> Revision \cup {None}] /\ None \notin Revision
  BY PipelineAssumption DEF TypeOK
<1>2. \A q \in Revision : revision'[q] = IF q = r THEN "ACTIVE"
                                         ELSE IF q = p THEN "SUPERSEDED" ELSE revision[q]
  BY DEF ActivatedRevisions
<1>3. CASE p = None
  <2>1. \A q \in Revision : DocumentOf[q] = DocumentOf[r] => revision[q] # "ACTIVE"
    BY <1>3 DEF HeadConflict
  <2>2. \A q \in Revision : DocumentOf[q] = DocumentOf[r] => ~InHistory(q)
    BY <2>1 DEF HistoryLine, InHistory
  <2>3. \A q \in Revision : revision'[q] = IF q = r THEN "ACTIVE" ELSE revision[q]
    BY <1>1, <1>2, <1>3
  <2>4. \A q \in Revision : InHistory(q)' => q = r \/ InHistory(q)
    BY <2>3 DEF InHistory
  <2>5. \A q \in Revision : q # r => revision'[q] = revision[q]
    BY <2>3
  <2>6. UniqueHeads(revision)'
    BY <2>1, <2>3 DEF HistoryLine, UniqueHeads
  <2>7. ASSUME NEW q \in Revision, revision'[q] = "SUPERSEDED"
        PROVE  /\ \E x \in Revision : revision'[x] = "ACTIVE" /\ DocumentOf[q] = DocumentOf[x]
                                      /\ depth[q] < depth[x]
               /\ \E x \in Revision : Supersedes[x] = q /\ InHistory(x)'
    BY <2>2, <2>3, <2>7 DEF HistoryLine, InHistory
  <2>8. ASSUME NEW x \in Revision, InHistory(x)', Supersedes[x] # None
        PROVE  revision'[Supersedes[x]] = "SUPERSEDED"
    BY <1>1, <1>3, <2>3, <2>4, <2>8 DEF HistoryLine, InHistory
  <2>9. ASSUME NEW q \in Revision, NEW x \in Revision, InHistory(q)', InHistory(x)',
               DocumentOf[q] = DocumentOf[x], depth[q] = depth[x]
        PROVE  q = x
    BY <2>2, <2>4, <2>9 DEF HistoryLine
  <2> QED
    BY <2>6, <2>7, <2>8, <2>9 DEF HistoryLine
<1>4. CASE p # None
  <2>1. /\ p \in Revision /\ revision[p] = "ACTIVE" /\ p # r
        /\ DocumentOf[p] = DocumentOf[r] /\ depth[r] = depth[p] + 1
        /\ depth[r] \in Nat /\ depth[p] \in Nat
    BY <1>1, <1>4 DEF HeadConflict, Chained
  <2>2. \A q \in Revision : InHistory(q) /\ DocumentOf[q] = DocumentOf[r] => depth[q] <= depth[p]
    <3> SUFFICES ASSUME NEW q \in Revision, InHistory(q), DocumentOf[q] = DocumentOf[r], q # p
                 PROVE  depth[q] <= depth[p]
      BY <2>1
    <3>1. revision[q] = "SUPERSEDED"
      BY <2>1 DEF InHistory, HistoryLine, UniqueHeads
    <3>2. PICK x \in Revision : /\ revision[x] = "ACTIVE" /\ DocumentOf[q] = DocumentOf[x]
                                /\ depth[q] < depth[x]
      BY <3>1 DEF HistoryLine
    <3>3. x = p
      BY <2>1, <3>2 DEF HistoryLine, UniqueHeads
    <3> QED
      BY <2>1, <3>2, <3>3
  <2>3. \A q \in Revision : InHistory(q)' <=> q = r \/ InHistory(q)
    BY <1>2, <2>1 DEF InHistory
  <2>4. UniqueHeads(revision)'
    BY <1>2, <2>1 DEF HistoryLine, UniqueHeads
  <2>5. ASSUME NEW q \in Revision, revision'[q] = "SUPERSEDED"
        PROVE  /\ \E x \in Revision : revision'[x] = "ACTIVE" /\ DocumentOf[q] = DocumentOf[x]
                                      /\ depth[q] < depth[x]
               /\ \E x \in Revision : Supersedes[x] = q /\ InHistory(x)'
    <3>1. CASE q = p
      BY <1>2, <2>1, <2>3, <3>1
    <3>2. CASE q # p
      <4>1. revision[q] = "SUPERSEDED" /\ q # r
        BY <1>2, <2>5, <3>2
      <4>2. PICK x \in Revision : /\ revision[x] = "ACTIVE" /\ DocumentOf[q] = DocumentOf[x]
                                  /\ depth[q] < depth[x]
        BY <4>1 DEF HistoryLine
      <4>3. /\ revision'[IF x = p THEN r ELSE x] = "ACTIVE"
            /\ DocumentOf[IF x = p THEN r ELSE x] = DocumentOf[q]
            /\ depth[q] < depth[IF x = p THEN r ELSE x]
            /\ (IF x = p THEN r ELSE x) \in Revision
        BY <1>2, <2>1, <4>2
      <4>4. \E y \in Revision : Supersedes[y] = q /\ InHistory(y)'
        BY <2>3, <4>1 DEF HistoryLine
      <4> QED
        BY <4>3, <4>4
    <3> QED
      BY <3>1, <3>2
  <2>6. ASSUME NEW x \in Revision, InHistory(x)', Supersedes[x] # None
        PROVE  revision'[Supersedes[x]] = "SUPERSEDED"
    <3>1. CASE x = r
      BY <1>2, <2>1, <3>1
    <3>2. CASE x # r
      <4>1. revision[Supersedes[x]] = "SUPERSEDED" /\ Supersedes[x] \in Revision
        BY <1>1, <2>3, <2>6, <3>2 DEF HistoryLine
      <4> QED
        BY <1>2, <4>1
    <3> QED
      BY <3>1, <3>2
  <2>7. ASSUME NEW q \in Revision, NEW x \in Revision, InHistory(q)', InHistory(x)',
               DocumentOf[q] = DocumentOf[x], depth[q] = depth[x]
        PROVE  q = x
    BY <2>1, <2>2, <2>3, <2>7 DEF HistoryLine
  <2> QED
    BY <2>4, <2>5, <2>6, <2>7 DEF HistoryLine
<1> QED
  BY <1>3, <1>4

\* A rollback that takes the head back puts its predecessor there; one of an
\* earlier revision would make a second head, and is refused
\* (_restore_pipeline_supersession_in_tx).
LEMMA RestorationKeeps ==
  ASSUME TypeOK, NEW depth \in [Revision -> Nat], Chained(depth), HistoryLine(depth),
         NEW m \in Mutation, RollBack(m)
  PROVE  HistoryLine(depth)'
<1> DEFINE r == RevisionOf[m]
           p == Supersedes[r]
<1>1. /\ revision \in [Revision -> RevisionStates] /\ r \in Revision
      /\ Supersedes \in [Revision -> Revision \cup {None}] /\ None \notin Revision
      /\ revision' = RestoredRevisions(m) /\ UniqueHeads(revision') /\ revision[r] # "SUPERSEDED"
  BY PipelineAssumption DEF TypeOK, RollBack, MayRollBack
<1>2. CASE ~Restores(m)
  BY <1>1, <1>2 DEF RestoredRevisions, HistoryLine, InHistory
<1>3. CASE Restores(m)
  <2>1. \A q \in Revision : revision'[q] =
           IF q = r /\ revision[q] \in {"ACTIVE", "PENDING"} THEN "ROLLED_BACK"
           ELSE IF q = p /\ revision[q] = "SUPERSEDED" THEN "ACTIVE" ELSE revision[q]
    BY <1>1, <1>3 DEF RestoredRevisions
  <2>2. CASE revision[r] # "ACTIVE"
    <3>1. ~(p \in Revision /\ p # r /\ revision[p] = "SUPERSEDED")
      <4> SUFFICES ASSUME p \in Revision, p # r, revision[p] = "SUPERSEDED" PROVE FALSE
        OBVIOUS
      <4>1. PICK x \in Revision : revision[x] = "ACTIVE" /\ DocumentOf[p] = DocumentOf[x]
        BY DEF HistoryLine
      <4>2. revision'[p] = "ACTIVE" /\ revision'[x] = "ACTIVE" /\ x # p
        BY <2>1, <2>2, <4>1
      <4> QED
        BY <1>1, <4>1, <4>2 DEF UniqueHeads
    <3>2. \A q \in Revision : /\ revision'[q] = "ACTIVE" <=> revision[q] = "ACTIVE"
                              /\ revision'[q] = "SUPERSEDED" <=> revision[q] = "SUPERSEDED"
      BY <1>1, <2>1, <2>2, <3>1
    <3> QED
      BY <1>1, <3>2 DEF HistoryLine, InHistory
  <2>3. CASE revision[r] = "ACTIVE" /\ p = None
    <3>1. \A q \in Revision : revision'[q] = IF q = r THEN "ROLLED_BACK" ELSE revision[q]
      BY <1>1, <2>1, <2>3
    <3>2. \A q \in Revision : revision[q] = "SUPERSEDED" => DocumentOf[q] # DocumentOf[r]
      <4> SUFFICES ASSUME NEW q \in Revision, revision[q] = "SUPERSEDED",
                          DocumentOf[q] = DocumentOf[r]
                   PROVE  FALSE
        OBVIOUS
      <4>1. PICK x \in Revision : /\ revision[x] = "ACTIVE" /\ DocumentOf[q] = DocumentOf[x]
                                  /\ depth[q] < depth[x]
        BY DEF HistoryLine
      <4>4. UniqueHeads(revision)
        BY DEF HistoryLine
      <4>2. x = r
        BY <1>1, <2>3, <4>1, <4>4 DEF UniqueHeads
      <4>3. depth[r] = 0 /\ depth[q] \in Nat
        BY <1>1, <2>3 DEF Chained
      <4> QED
        BY <4>1, <4>2, <4>3
    <3>3. \A q \in Revision : InHistory(q)' <=> InHistory(q) /\ q # r
      BY <3>1 DEF InHistory
    <3>4. ASSUME NEW q \in Revision, revision'[q] = "SUPERSEDED"
          PROVE  /\ \E x \in Revision : revision'[x] = "ACTIVE" /\ DocumentOf[q] = DocumentOf[x]
                                        /\ depth[q] < depth[x]
                 /\ \E x \in Revision : Supersedes[x] = q /\ InHistory(x)'
      <4>1. revision[q] = "SUPERSEDED"
        BY <3>1, <3>4
      <4> QED
        BY <1>1, <2>3, <3>1, <3>2, <3>3, <4>1 DEF HistoryLine
    <3>5. ASSUME NEW x \in Revision, InHistory(x)', Supersedes[x] # None
          PROVE  revision'[Supersedes[x]] = "SUPERSEDED"
      <4>1. revision[Supersedes[x]] = "SUPERSEDED" /\ Supersedes[x] \in Revision
        BY <1>1, <3>3, <3>5 DEF HistoryLine
      <4> QED
        BY <2>3, <3>1, <4>1
    <3> QED
      BY <1>1, <3>3, <3>4, <3>5 DEF HistoryLine
  <2>4. CASE revision[r] = "ACTIVE" /\ p # None
    <3>1. /\ p \in Revision /\ revision[p] = "SUPERSEDED" /\ p # r
          /\ DocumentOf[p] = DocumentOf[r] /\ depth[r] = depth[p] + 1
          /\ depth[r] \in Nat /\ depth[p] \in Nat
      BY <1>1, <2>4 DEF HistoryLine, InHistory, Chained
    <3>2. \A q \in Revision : revision'[q] = IF q = r THEN "ROLLED_BACK"
                                             ELSE IF q = p THEN "ACTIVE" ELSE revision[q]
      BY <2>1, <2>4, <3>1
    <3>3. \A q \in Revision : InHistory(q)' <=> InHistory(q) /\ q # r
      BY <3>1, <3>2 DEF InHistory
    <3>4. ASSUME NEW q \in Revision, revision'[q] = "SUPERSEDED"
          PROVE  /\ \E x \in Revision : revision'[x] = "ACTIVE" /\ DocumentOf[q] = DocumentOf[x]
                                        /\ depth[q] < depth[x]
                 /\ \E x \in Revision : Supersedes[x] = q /\ InHistory(x)'
      <4>1. revision[q] = "SUPERSEDED" /\ q # p /\ q # r
        BY <3>2, <3>4
      <4>2. PICK x \in Revision : /\ revision[x] = "ACTIVE" /\ DocumentOf[q] = DocumentOf[x]
                                  /\ depth[q] < depth[x]
        BY <4>1 DEF HistoryLine
      <4>3. \E y \in Revision : /\ revision'[y] = "ACTIVE" /\ DocumentOf[q] = DocumentOf[y]
                                /\ depth[q] < depth[y]
        <5>1. CASE x = r
          <6>1. depth[q] # depth[p]
            BY <3>1, <4>1, <4>2, <5>1 DEF HistoryLine, InHistory
          <6>2. depth[q] < depth[p]
            BY <3>1, <4>2, <5>1, <6>1
          <6> QED
            BY <3>1, <3>2, <4>2, <5>1, <6>2
        <5>2. CASE x # r
          BY <3>2, <4>2, <5>2
        <5> QED
          BY <5>1, <5>2
      <4>4. PICK y \in Revision : Supersedes[y] = q /\ InHistory(y)
        BY <4>1 DEF HistoryLine
      <4> QED
        BY <3>3, <4>1, <4>3, <4>4
    <3>5. ASSUME NEW x \in Revision, InHistory(x)', Supersedes[x] # None
          PROVE  revision'[Supersedes[x]] = "SUPERSEDED"
      <4>1. /\ revision[Supersedes[x]] = "SUPERSEDED" /\ Supersedes[x] \in Revision
            /\ InHistory(x) /\ x # r
        BY <1>1, <3>3, <3>5 DEF HistoryLine
      <4>2. Supersedes[x] # p
        <5> SUFFICES ASSUME Supersedes[x] = p PROVE FALSE
          OBVIOUS
        <5>1. DocumentOf[x] = DocumentOf[r] /\ depth[x] = depth[r]
          BY <3>1, <3>5 DEF Chained
        <5> QED
          BY <1>1, <2>4, <4>1, <5>1 DEF HistoryLine, InHistory
      <4> QED
        BY <1>1, <3>2, <4>1, <4>2
    <3>6. ASSUME NEW q \in Revision, NEW x \in Revision, InHistory(q)', InHistory(x)',
                 DocumentOf[q] = DocumentOf[x], depth[q] = depth[x]
          PROVE  q = x
      BY <3>3, <3>6 DEF HistoryLine
    <3> QED
      BY <1>1, <3>4, <3>5, <3>6 DEF HistoryLine
  <2> QED
    BY <2>2, <2>3, <2>4
<1> QED
  BY <1>2, <1>3

\* The steps of the line: it is extended, its head is taken back, or a purge ends
\* it (purge_v4_document).
LEMMA HistoryStep ==
  ASSUME TypeOK, [Next]_vars, NEW depth \in [Revision -> Nat], Chained(depth), HistoryLine(depth)
  PROVE  HistoryLine(depth)'
<1>1. revision \in [Revision -> RevisionStates]
      /\ Supersedes \in [Revision -> Revision \cup {None}] /\ None \notin Revision
      /\ RevisionOf \in [Mutation -> Revision]
  BY PipelineAssumption DEF TypeOK
<1>2. CASE UNCHANGED revision
  BY <1>2 DEF HistoryLine, InHistory
<1>3. ASSUME NEW w \in Worker, NEW m \in Mutation, NEW s \in Store,
             SkipLane(w, m, s) \/ FinishLane(w, m, s)
      PROVE  HistoryLine(depth)'
  <2>1. PICK outcome : CompleteLane(w, m, s, outcome)
    BY SMTT(60), <1>3 DEF SkipLane, FinishLane
  <2>2. \/ UNCHANGED revision
        \/ /\ revision[RevisionOf[m]] = "PENDING" /\ ~HeadConflict(RevisionOf[m])
           /\ revision' = ActivatedRevisions(RevisionOf[m])
    BY <2>1 DEF CompleteLane, ReadyToActivate
  <2> QED
    BY <1>1, <1>2, <2>2, ActivationExtends
<1>4. ASSUME NEW m \in Mutation, Admit(m) PROVE HistoryLine(depth)'
  <2>1. \/ UNCHANGED revision
        \/ /\ revision[RevisionOf[m]] = "PENDING" /\ ~HeadConflict(RevisionOf[m])
           /\ revision' = ActivatedRevisions(RevisionOf[m])
        \/ /\ revision[RevisionOf[m]] = "NONE"
           /\ revision' = [revision EXCEPT ![RevisionOf[m]] = "PENDING"]
    BY <1>4 DEF Admit, ReadyToActivate
  <2>2. CASE /\ revision[RevisionOf[m]] = "NONE"
             /\ revision' = [revision EXCEPT ![RevisionOf[m]] = "PENDING"]
    <3>1. \A q \in Revision : /\ revision'[q] = "ACTIVE" <=> revision[q] = "ACTIVE"
                              /\ revision'[q] = "SUPERSEDED" <=> revision[q] = "SUPERSEDED"
      BY <1>1, <2>2
    <3> QED
      BY <1>1, <3>1 DEF HistoryLine, InHistory, UniqueHeads
  <2> QED
    BY <1>1, <1>2, <2>1, <2>2, ActivationExtends
<1>5. ASSUME NEW m \in Mutation, RollBack(m) PROVE HistoryLine(depth)'
  BY <1>5, RestorationKeeps
<1>6. ASSUME NEW d \in Document, PurgeDocument(d) PROVE HistoryLine(depth)'
  <2>1. \A q \in Revision : revision'[q] = IF DocumentOf[q] = d /\ revision[q] # "NONE"
                                           THEN "PURGED" ELSE revision[q]
    BY <1>6 DEF PurgeDocument
  <2>2. \A q \in Revision : InHistory(q)' <=> InHistory(q) /\ DocumentOf[q] # d
    BY <2>1 DEF InHistory
  <2>3. \A q \in Revision : InHistory(q)' => revision'[q] = revision[q]
    BY <2>1, <2>2
  <2>4. \A q \in Revision : Supersedes[q] # None =>
           Supersedes[q] \in Revision /\ DocumentOf[Supersedes[q]] = DocumentOf[q]
    BY <1>1 DEF Chained
  <2>5. UniqueHeads(revision)'
    BY <2>1 DEF HistoryLine, UniqueHeads
  <2>6. ASSUME NEW q \in Revision, revision'[q] = "SUPERSEDED"
        PROVE  /\ \E x \in Revision : revision'[x] = "ACTIVE" /\ DocumentOf[q] = DocumentOf[x]
                                      /\ depth[q] < depth[x]
               /\ \E x \in Revision : Supersedes[x] = q /\ InHistory(x)'
    <3>1. revision[q] = "SUPERSEDED" /\ DocumentOf[q] # d
      BY <2>1, <2>6
    <3>2. PICK x \in Revision : /\ revision[x] = "ACTIVE" /\ DocumentOf[q] = DocumentOf[x]
                                /\ depth[q] < depth[x]
      BY <3>1 DEF HistoryLine
    <3>3. PICK y \in Revision : Supersedes[y] = q /\ InHistory(y)
      BY <3>1 DEF HistoryLine
    <3>4. DocumentOf[y] = DocumentOf[q]
      BY <1>1, <2>4, <3>3
    <3> QED
      BY <2>1, <2>2, <3>1, <3>2, <3>3, <3>4
  <2>7. ASSUME NEW x \in Revision, InHistory(x)', Supersedes[x] # None
        PROVE  revision'[Supersedes[x]] = "SUPERSEDED"
    <3>1. revision[Supersedes[x]] = "SUPERSEDED" /\ DocumentOf[x] # d
      BY <2>2, <2>7 DEF HistoryLine
    <3> QED
      BY <2>1, <2>4, <2>7, <3>1
  <2>8. ASSUME NEW q \in Revision, NEW x \in Revision, InHistory(q)', InHistory(x)',
               DocumentOf[q] = DocumentOf[x], depth[q] = depth[x]
        PROVE  q = x
    BY <2>2, <2>8 DEF HistoryLine
  <2> QED
    BY <2>5, <2>6, <2>7, <2>8 DEF HistoryLine
<1> QED
  BY <1>2, <1>3, <1>4, <1>5, <1>6, RevisionActions

\* Whatever consumers, rollbacks, replays, purges and restarts interleave: a
\* superseded revision has a successor that was activated and its document a
\* head, for every chain of revisions a document may have.
THEOREM HistoryHolds ==
  ASSUME NEW depth \in [Revision -> Nat], Chained(depth)
  PROVE  Spec => []HistoryHasHead
<1> DEFINE Inv == TypeOK /\ HistoryLine(depth)
<1>1. Init => Inv
  <2>1. Init => \A r \in Revision : revision[r] = "NONE"
    BY DEF Init
  <2> QED
    BY <2>1, TypeInit DEF HistoryLine, InHistory, UniqueHeads
<1>2. Inv /\ [Next]_vars => Inv'
  BY HistoryStep, TypeStep
<1>3. Inv => HistoryHasHead
  BY DEF HistoryLine, InHistory, HistoryHasHead
<1> QED
  BY <1>1, <1>2, <1>3, PTL DEF Spec

-----------------------------------------------------------------------------
(* Assertions and heads                                                    *)

\* A walk reaches COMMITTED only when every lane is finished
\* (_advance_mutation_projection_state).
LEMMA AdvanceCommits ==
  ASSUME NEW row \in LedgerRow, NEW done, row.mut # "COMMITTED",
         Advance(row, done).mut = "COMMITTED"
  PROVE  done = Store
<1> DEFINE state == row.mut
           path == {j \in Ahead(state) : \A i \in Ahead(state) : i <= j => Met(done)[i]}
<1>1. state \in DOMAIN Reached /\ Walk(state, done) = "COMMITTED"
  BY DEF Advance
<1>2. Reached[state] \in 0 .. 3
  BY <1>1 DEF Reached
<1>3. path # {} /\ Milestone[Reached[state] + Cardinality(path)] = "COMMITTED"
  BY <1>1 DEF Walk
<1>4. IsFiniteSet(Ahead(state)) /\ Cardinality(Ahead(state)) = 4 - Reached[state]
  BY <1>2, FS_Interval DEF Ahead
<1>5. /\ IsFiniteSet(path) /\ Cardinality(path) \in Nat /\ Cardinality(path) # 0
      /\ Cardinality(path) <= Cardinality(Ahead(state))
      /\ Cardinality(path) = Cardinality(Ahead(state)) => path = Ahead(state)
  BY <1>3, <1>4, FS_Subset, FS_CardinalityType, FS_EmptySet
<1>6. Reached[state] + Cardinality(path) = 4
  <2>1. \A i \in 1 .. 4 : Milestone[i] = "COMMITTED" => i = 4
    BY DEF Milestone
  <2>2. Reached[state] + Cardinality(path) \in 1 .. 4
    BY <1>2, <1>4, <1>5
  <2> QED
    BY <1>3, <2>1, <2>2
<1>7. path = Ahead(state) /\ 4 \in Ahead(state)
  BY <1>2, <1>4, <1>5, <1>6 DEF Ahead
<1>8. Met(done)[4]
  BY <1>2, <1>7 DEF Ahead
<1> QED
  BY <1>8 DEF Met

\* A revision does not supersede itself.
LEMMA NotItself ==
  ASSUME NEW depth \in [Revision -> Nat], Chained(depth), NEW r \in Revision
  PROVE  Supersedes[r] # r
<1>1. None \notin Revision /\ depth[r] \in Nat
  BY PipelineAssumption
<1> QED
  BY <1>1 DEF Chained

\* A revision enters history when the last lane of its mutation completes
\* (complete_projection_outbox).
LEMMA HistoryBegins ==
  ASSUME TypeOK, [Next]_vars, OneEach, NEW m \in Mutation,
         InHistory(RevisionOf[m])', ~InHistory(RevisionOf[m])
  PROVE  \E w \in Worker, s \in Store, outcome \in {"COMPLETED", "SKIPPED"} :
            /\ CompleteLane(w, m, s, outcome)
            /\ Holds(w, lane[m][s]) /\ ~Fenced(m)
            /\ lane'[m]["SQL"].st = "COMPLETED"
<1> DEFINE r == RevisionOf[m]
<1>1. /\ revision \in [Revision -> RevisionStates] /\ r \in Revision
      /\ Supersedes \in [Revision -> Revision \cup {None}] /\ None \notin Revision
      /\ RevisionOf \in [Mutation -> Revision] /\ ledger \in [Mutation -> LedgerRow]
      /\ lane \in [Mutation -> [Store -> QueueRow(LaneStates)]] /\ "SQL" \in Store
  BY PipelineAssumption DEF TypeOK, Store
<1>2. revision' # revision
  BY DEF InHistory
<1>3. ASSUME NEW n \in Mutation, ~HeadConflict(RevisionOf[n]),
             revision' = ActivatedRevisions(RevisionOf[n])
      PROVE  n = m
  <2>1. RevisionOf[n] = r
    <3> SUFFICES ASSUME RevisionOf[n] # r PROVE FALSE
      OBVIOUS
    <3>1. r = Supersedes[RevisionOf[n]]
      BY <1>1, <1>3 DEF ActivatedRevisions, InHistory
    <3>2. revision[r] = "ACTIVE"
      BY <1>1, <1>3, <3>1 DEF HeadConflict
    <3> QED
      BY <3>2 DEF InHistory
  <2> QED
    BY <2>1 DEF OneEach
<1>4. ASSUME NEW n \in Mutation, Admit(n) PROVE FALSE
  <2>1. /\ ReadyToActivate(RevisionOf[n], ledger) /\ ~HeadConflict(RevisionOf[n])
        /\ revision' = ActivatedRevisions(RevisionOf[n]) /\ ~Admitted(n)
    <3>1. CASE revision' = [revision EXCEPT ![RevisionOf[n]] = "PENDING"]
      BY <1>1, <3>1 DEF InHistory
    <3> QED
      BY <1>2, <1>4, <3>1 DEF Admit
  <2>2. PICK k \in Mutation : RevisionOf[k] = RevisionOf[n] /\ ledger[k].mut # Absent
    BY <2>1 DEF ReadyToActivate
  <2>3. k = n
    BY <2>2 DEF OneEach
  <2> QED
    BY <2>1, <2>2, <2>3 DEF Admitted
<1>5. ASSUME NEW n \in Mutation, RollBack(n) PROVE FALSE
  <2>1. revision' = RestoredRevisions(n)
    BY <1>5 DEF RollBack
  <2> QED
    BY <1>1, <2>1 DEF RestoredRevisions, InHistory
<1>6. ASSUME NEW d \in Document, PurgeDocument(d) PROVE FALSE
  BY <1>1, <1>6 DEF PurgeDocument, InHistory
<1>7. ASSUME NEW w \in Worker, NEW n \in Mutation, NEW s \in Store,
             NEW outcome \in {"COMPLETED", "SKIPPED"}, CompleteLane(w, n, s, outcome)
      PROVE  /\ n = m /\ Holds(w, lane[m][s]) /\ ~Fenced(m)
             /\ lane'[m]["SQL"].st = "COMPLETED"
  <2> DEFINE rows == [lane[n] EXCEPT ![s] = Row(outcome, @.n)]
             row == Advance(ledger[n], Finished(rows))
  <2>1. /\ Holds(w, lane[n][s]) /\ ~Fenced(n) /\ ~HeadConflict(RevisionOf[n])
        /\ row.mut = "COMMITTED" /\ ledger[n].mut # "COMMITTED"
        /\ revision' = ActivatedRevisions(RevisionOf[n])
        /\ lane' = [lane EXCEPT ![n] = rows]
    BY <1>2, <1>7 DEF CompleteLane
  <2>2. n = m
    BY <1>3, <2>1
  <2>3. Finished(rows) = Store
    BY <1>1, <2>1, AdvanceCommits
  <2>4. rows["SQL"].st = "COMPLETED"
    BY <1>1, <2>3 DEF Finished
  <2>5. lane'[m] = rows
    BY <1>1, <2>1, <2>2
  <2> QED
    BY <2>1, <2>2, <2>4, <2>5
<1>8. ASSUME NEW w \in Worker, NEW n \in Mutation, NEW s \in Store,
             SkipLane(w, n, s) \/ FinishLane(w, n, s)
      PROVE  \E outcome \in {"COMPLETED", "SKIPPED"} : CompleteLane(w, n, s, outcome)
  BY <1>8 DEF SkipLane, FinishLane
<1> QED
  BY <1>2, <1>4, <1>5, <1>6, <1>7, <1>8, RevisionActions

\* What the heads of documents say of their mutations, assertions and consumers.
HeadFacts ==
    /\ \A r \in Revision : fact[r].st = "SUPERSEDED" => revision[r] = "SUPERSEDED"
    /\ \A r \in Revision : revision[r] = "SUPERSEDED" => fact[r].st # "ACTIVE"
    /\ \A m \in Mutation : InHistory(RevisionOf[m])
          => m \in Recorded /\ document[DocOf(m)] # "PURGED"
    /\ \A w \in Worker, m \in Mutation :
          At(w, "check", m, "SQL") \/ At(w, "write", m, "SQL")
             => ledger[m].mut \in Projectable \/ ~InHistory(RevisionOf[m])

\* A revision in history has recorded its assertion, and its document is not
\* purged.
LEMMA HistoryRecorded ==
  ASSUME LiveInv, LiveInv', HeadFacts, OneEach, [Next]_vars,
         NEW m \in Mutation, InHistory(RevisionOf[m])'
  PROVE  m \in Recorded' /\ document'[DocOf(m)] # "PURGED"
<1>1. /\ TypeOK /\ RevisionOf[m] \in Revision /\ DocOf(m) \in Document /\ "SQL" \in Store
      /\ revision \in [Revision -> RevisionStates] /\ document \in [Document -> {"ACTIVE", "PURGED"}]
  BY PipelineAssumption DEF LiveInv, RollbackInv, TypeOK, DocOf, Store
<1>2. CASE InHistory(RevisionOf[m])
  <2>1. m \in Recorded /\ document[DocOf(m)] # "PURGED"
    BY <1>2 DEF HeadFacts
  <2>2. m \in Recorded'
    BY <1>1, <2>1, OwnerStays
  <2>3. ASSUME NEW d \in Document, PurgeDocument(d), document'[DocOf(m)] = "PURGED" PROVE FALSE
    <3>1. DocOf(m) = d
      BY <1>1, <2>1, <2>3 DEF PurgeDocument
    <3>2. revision'[RevisionOf[m]] = "PURGED"
      BY <1>1, <1>2, <2>3, <3>1 DEF PurgeDocument, DocOf, InHistory
    <3> QED
      BY <3>2 DEF InHistory
  <2> QED
    BY <2>1, <2>2, <2>3, DocumentActions
<1>3. CASE ~InHistory(RevisionOf[m])
  <2>1. PICK w \in Worker, s \in Store, outcome \in {"COMPLETED", "SKIPPED"} :
           /\ CompleteLane(w, m, s, outcome) /\ ~Fenced(m)
           /\ lane'[m]["SQL"].st = "COMPLETED"
    BY <1>1, <1>3, HistoryBegins
  <2>2. document' = document /\ document[DocOf(m)] # "PURGED"
    BY <2>1 DEF CompleteLane, Fenced
  <2>3. m \in Recorded'
    BY <1>1, <2>1 DEF LiveInv, SqlFirst
  <2> QED
    BY <2>2, <2>3
<1> QED
  BY <1>2, <1>3

\* What leads a consumer to write a canonical assertion.
WritesSql(w) == \A m \in Mutation :
    /\ At(w, "write", m, "SQL")' => At(w, "write", m, "SQL") \/ At(w, "check", m, "SQL")
    /\ At(w, "check", m, "SQL")' => \/ At(w, "check", m, "SQL")
                                    \/ ledger[m].mut \in Projectable
    /\ At(w, "check", m, "SQL")' \/ At(w, "write", m, "SQL")'
          => UNCHANGED <<ledger, revision>> \/ (UNCHANGED worker /\ (Request \/ Restart))

\* Only the check of the lane itself leads a consumer to write a canonical
\* assertion, and it leaves the ledger alone.
LEMMA ChecksLead ==
  ASSUME TypeOK, Shape, [Next]_vars, \A v, u \in Worker : v = u, NEW w \in Worker
  PROVE  WritesSql(w)
<1> DEFINE cur == worker[w].cur
           todo == worker[w].todo
           ok == worker[w].ok
           bad == worker[w].bad
<1>0. \A m \in Mutation : <<m, "SQL">> # None
  BY NoneIsNoItem DEF Item, Store
<1>1. ASSUME NEW pc, NEW c, NEW t, NEW o, NEW b, Moved(w, pc, c, t, o, b),
             pc \notin {"check", "write"}
      PROVE  WritesSql(w)
  BY <1>1 DEF WritesSql, Moved, At
<1>2. CASE UNCHANGED worker /\ (Request \/ Restart \/ UNCHANGED <<ledger, revision>>)
  BY <1>2 DEF WritesSql, At
<1>3. CASE Restart
  BY <1>3 DEF Restart, Idle, WritesSql, At
<1>4. CASE Request
  <2>1. UNCHANGED worker
    BY <1>4 DEF Request, Admit, RequestRollback, RollBack, Replay, PurgeRollback, PurgeDocument
  <2> QED
    BY <1>2, <1>4, <2>1
<1>5. ASSUME NEW m \in Mutation, NEW s \in Store, StartLane(w, m, s) PROVE WritesSql(w)
  <2> DEFINE phase == IF s \in Optional \ profile THEN "skip"
                      ELSE IF ledger[m].mut \notin Projectable THEN "failHard"
                      ELSE IF s = "SQL" THEN "check" ELSE "list"
  <2>1. Begin(w, phase, <<m, s>>) /\ UNCHANGED <<ledger, revision>>
    BY <1>5 DEF StartLane, catalog
  <2>2. phase = "check" => ledger[m].mut \in Projectable
    OBVIOUS
  <2>3. phase # "write"
    OBVIOUS
  <2> HIDE DEF phase
  <2>4. Moved(w, phase, <<m, s>>, todo \ {<<m, s>>}, ok, bad)
    BY <2>1, LocalMoves
  <2>5. worker'[w].pc = phase /\ worker'[w].cur = <<m, s>>
    BY <2>4 DEF Moved
  <2> QED
    BY <2>1, <2>2, <2>3, <2>5 DEF WritesSql, At
<1>6. ASSUME NEW m \in Mutation, NEW s \in Store, CheckFence(w, m, s) PROVE WritesSql(w)
  <2>1. /\ worker[w].pc = "check" /\ UNCHANGED <<ledger, revision>>
        /\ \/ Moved(w, "failSoft", cur, todo, ok, bad)
           \/ Moved(w, "write", cur, todo, ok, bad)
    BY <1>6, LocalMoves DEF CheckFence, At, catalog
  <2>2. worker'[w].cur = worker[w].cur /\ worker'[w].pc # "check"
    BY <2>1 DEF Moved
  <2> QED
    BY <2>1, <2>2 DEF WritesSql, At
<1>7. ASSUME NEW m \in Mutation, NEW s \in Store, ListAssertions(w, m, s) PROVE WritesSql(w)
  <2>1. \/ \E phase \in {"check", "write"} : Moved(w, phase, cur, todo, ok, bad)
        \/ Moved(w, "next", None, todo, ok \cup {cur}, bad)
    BY <1>7, LocalMoves DEF ListAssertions
  <2>2. worker[w].cur \in Mutation \X Optional
    BY <1>7 DEF ListAssertions, At, Shape, Shaped
  <2>3. \A n \in Mutation : worker'[w].cur # <<n, "SQL">>
    BY <1>0, <2>1, <2>2 DEF Moved, Optional
  <2> QED
    BY <2>3 DEF WritesSql, At
<1>8. ASSUME NEW m \in Mutation, NEW s \in Store, WriteArtifact(w, m, s) PROVE WritesSql(w)
  <2>1. \/ Moved(w, "record", cur, todo, ok, bad) \/ Moved(w, "undo", cur, todo, ok, bad)
        \/ Moved(w, "failSoft", cur, todo, ok, bad)
    BY <1>8, LocalMoves DEF WriteArtifact
  <2> QED
    BY <1>1, <2>1
<1>9. ASSUME NEW m \in Mutation, NEW s \in Store, RecordArtifact(w, m, s) \/ CommitGraph(w, m)
      PROVE  WritesSql(w)
  <2>1. \/ Moved(w, "commit", cur, todo, ok, bad) \/ Moved(w, "undo", cur, todo, ok, bad)
        \/ Moved(w, "failSoft", cur, todo, ok, bad)
        \/ Moved(w, "next", None, todo, ok \cup {cur}, bad)
    BY <1>9, LocalMoves DEF RecordArtifact, CommitGraph
  <2> QED
    BY <1>1, <2>1
<1>10. ASSUME NEW m \in Mutation, NEW s \in Store, UndoWrite(w, m, s) PROVE WritesSql(w)
  <2>1. PICK failed : \E phase : phase \in {"failSoft", "undone"} /\ Moved(w, phase, cur, todo, ok, failed)
    BY <1>10, LocalMoves DEF UndoWrite
  <2> QED
    BY <1>1, <2>1
<1>11. ASSUME NEW m \in Mutation, NEW s \in Store,
              SettleUndo(w, m, s) \/ FailLane(w, m, s) \/ SettleFence(w, m, s)
       PROVE  WritesSql(w)
  <2>1. Moved(w, "failSoft", cur, todo, ok, {}) \/ Moved(w, "next", None, todo, ok, {})
    BY <1>11, LocalMoves DEF SettleUndo, FailLane, SettleFence
  <2> QED
    BY <1>1, <2>1
<1>12. ASSUME NEW m \in Mutation, NEW s \in Store, SkipLane(w, m, s) \/ FinishLane(w, m, s)
       PROVE  WritesSql(w)
  <2>1. PICK outcome : CompleteLane(w, m, s, outcome)
    BY <1>12 DEF SkipLane, FinishLane
  <2>2. \/ \E y : Moved(w, "fence", <<m, s>>, todo, ok \ {<<m, s>>}, y)
        \/ Moved(w, "failSoft", cur, todo, ok, bad)
        \/ Moved(w, "idle", None, {}, {}, {})
        \/ Moved(w, "next", None, todo, ok \ {<<m, s>>}, bad)
    BY <2>1, CompletionMoves
  <2> QED
    BY <1>1, <2>2
<1>13. ASSUME NEW m \in Mutation, NEW s \in Store, DeleteProjected(w, m, s) PROVE WritesSql(w)
  <2>1. PICK y : Moved(w, "fenced", cur, todo, ok, y)
    BY <1>13, LocalMoves DEF DeleteProjected
  <2> QED
    BY <1>1, <2>1
<1>14. ASSUME NEW m \in Mutation, NEW s \in Store, ApplyCleanup(w, m, s) PROVE WritesSql(w)
  <2>1. \/ Moved(w, "cleaned", <<m, s>>, todo \ {<<m, s>>}, ok, bad)
        \/ Moved(w, "cleanFail", <<m, s>>, todo \ {<<m, s>>}, ok, bad)
    BY <1>14, LocalMoves DEF ApplyCleanup
  <2> QED
    BY <1>1, <2>1
<1>15. ASSUME NEW m \in Mutation, NEW s \in Store, FinishCleanup(w, m, s) PROVE WritesSql(w)
  <2>1. worker'[w].pc \in {"idle", "clean"}
    BY <1>15, FinishCleanupMoves DEF Moved
  <2> QED
    BY <2>1 DEF WritesSql, At
<1>16. CASE ClaimLanes(w) \/ ClaimCleanup(w)
  <2>1. worker'[w].pc \in {"idle", "clean", "next"}
    <3>1. CASE ClaimLanes(w)
      <4>1. PICK b : worker' = [worker EXCEPT ![w].pc = "next", ![w].todo = b]
        BY ZenonT(60), <3>1 DEF ClaimLanes
      <4> QED
        BY ZenonT(60), <4>1, LocalMoves DEF Moved
    <3>2. CASE ClaimCleanup(w)
      BY <3>2, ClaimCleanupMoves DEF Moved
    <3> QED
      BY <1>16, <3>1, <3>2
  <2> QED
    BY <2>1 DEF WritesSql, At
<1>17. ASSUME NEW m \in Mutation,
              \/ ColdLoad(w, m) \/ ColdExtract(w, m) \/ ColdJudge(w, m)
              \/ ColdVerified(w, m) \/ ColdUnverified(w, m)
       PROVE  WritesSql(w)
  <2>1. \/ \E phase \in ColdPhases : Moved(w, phase, <<m, "COLD">>, todo \ {<<m, "COLD">>}, ok, bad)
        \/ \E phase \in ColdPhases : Moved(w, phase, cur, todo, ok, bad)
        \/ Moved(w, "idle", None, {}, {}, {})
    BY <1>17, LocalMoves
       DEF ColdLoad, ColdExtract, ColdJudge, ColdVerified, ColdUnverified, ColdPhases
  <2> QED
    BY <1>1, <2>1 DEF ColdPhases
<1>18. ASSUME NEW v \in Worker, NEW m \in Mutation, NEW s \in Store, ItemStep(v, m, s)
       PROVE  WritesSql(w)
  <2>1. v = w
    OBVIOUS
  <2> QED
    BY <1>5, <1>6, <1>7, <1>8, <1>9, <1>10, <1>11, <1>12, <1>13, <1>14, <1>15, <1>17, <1>18, <2>1
       DEF ItemStep
<1>19. ASSUME NEW v \in Worker, ClaimLanes(v) \/ ClaimCleanup(v) PROVE WritesSql(w)
  <2>1. v = w
    OBVIOUS
  <2> QED
    BY <1>16, <1>19, <2>1
<1>20. ASSUME NEW v \in Worker, Consume(v) PROVE WritesSql(w)
  <2>1. \/ \E m \in Mutation, s \in Store : ItemStep(v, m, s)
        \/ ClaimLanes(v) \/ ClaimCleanup(v)
    <3>1. "SQL" \in Store
      BY DEF Store
    <3> QED
      BY <1>20, <3>1 DEF Consume, ColdPath, Project, Clean, ItemStep
  <2> QED
    BY <1>18, <1>19, <2>1
<1> QED
  BY <1>2, <1>3, <1>4, <1>20 DEF Next, vars, catalog

\* Nothing is recorded, superseded or checked at first.
LEMMA HeadFactsInit == Init => HeadFacts
<1> SUFFICES ASSUME Init
             PROVE  /\ \A r \in Revision : revision[r] = "NONE" /\ fact[r].st = "NONE"
                    /\ \A w \in Worker : worker[w].pc = "idle"
  BY PipelineAssumption DEF HeadFacts, InHistory, At
<1> QED
  BY DEF Init, Idle

\* Of an assertion whose revision was superseded, a rollback restores both and a
\* purge retracts both.
LEMMA SupersededLeaves ==
  ASSUME TypeOK, [Next]_vars, NEW depth \in [Revision -> Nat], Chained(depth),
         NEW r \in Revision, revision[r] = "SUPERSEDED", fact[r].st = "SUPERSEDED",
         revision'[r] # "SUPERSEDED"
  PROVE  fact'[r].st # "SUPERSEDED"
<1>1. /\ revision \in [Revision -> RevisionStates] /\ fact \in [Revision -> FactRow]
      /\ fact[r] \in FactRow /\ RevisionOf \in [Mutation -> Revision]
      /\ \A st : [fact[r] EXCEPT !.st = st].st = st
  BY PipelineAssumption DEF TypeOK, FactRow
<1>2. revision' # revision
  OBVIOUS
<1>3. ASSUME NEW q \in Revision, revision[q] = "PENDING", revision' = ActivatedRevisions(q)
      PROVE  FALSE
  BY <1>1, <1>3 DEF ActivatedRevisions
<1>4. ASSUME NEW w \in Worker, NEW m \in Mutation, NEW s \in Store,
             SkipLane(w, m, s) \/ FinishLane(w, m, s)
      PROVE  FALSE
  <2>1. PICK outcome : CompleteLane(w, m, s, outcome)
    BY <1>4 DEF SkipLane, FinishLane
  <2>2. revision[RevisionOf[m]] = "PENDING" /\ revision' = ActivatedRevisions(RevisionOf[m])
    BY <1>2, <2>1 DEF CompleteLane, ReadyToActivate
  <2> QED
    BY <1>1, <1>3, <2>2
<1>5. ASSUME NEW m \in Mutation, Admit(m) PROVE FALSE
  <2>1. \/ revision[RevisionOf[m]] = "PENDING" /\ revision' = ActivatedRevisions(RevisionOf[m])
        \/ /\ revision[RevisionOf[m]] = "NONE"
           /\ revision' = [revision EXCEPT ![RevisionOf[m]] = "PENDING"]
    BY <1>2, <1>5 DEF Admit, ReadyToActivate
  <2>2. ~(/\ revision[RevisionOf[m]] = "NONE"
          /\ revision' = [revision EXCEPT ![RevisionOf[m]] = "PENDING"])
    BY <1>1
  <2> QED
    BY <1>1, <1>3, <2>1, <2>2
<1>6. ASSUME NEW m \in Mutation, RollBack(m) PROVE fact'[r].st # "SUPERSEDED"
  <2> DEFINE retracted == IF "SQL" \in Orphans(m) /\ fact[RevisionOf[m]].st # "NONE"
                          THEN [fact EXCEPT ![RevisionOf[m]].st = "RETRACTED"] ELSE fact
  <2>1. revision' = RestoredRevisions(m) /\ fact' = RestoredFacts(m, retracted)
    BY <1>6 DEF RollBack
  <2>2. RevisionOf[m] # r
    BY <1>6 DEF RollBack, MayRollBack
  <2>3. retracted[r] = fact[r]
    BY <1>1, <2>2
  <2> HIDE DEF retracted
  <2>4. Restores(m) /\ Supersedes[RevisionOf[m]] = r
    BY <1>1, <2>1, <2>2 DEF RestoredRevisions
  <2>5. fact'[r] = [fact[r] EXCEPT !.st = "ACTIVE"]
    BY <2>1, <2>3, <2>4 DEF RestoredFacts
  <2> QED
    BY <1>1, <2>5
<1>7. ASSUME NEW d \in Document, PurgeDocument(d) PROVE fact'[r].st # "SUPERSEDED"
  <2>1. DocumentOf[r] = d
    BY <1>1, <1>7 DEF PurgeDocument
  <2>2. fact'[r] = [fact[r] EXCEPT !.st = "RETRACTED"]
    BY <1>1, <1>7, <2>1 DEF PurgeDocument
  <2> QED
    BY <1>1, <2>2
<1> QED
  BY <1>2, <1>4, <1>5, <1>6, <1>7, RevisionActions

\* A revision is superseded by an activation, which supersedes its assertion.
LEMMA SupersededEnters ==
  ASSUME TypeOK, [Next]_vars, NEW r \in Revision,
         revision[r] # "SUPERSEDED", revision'[r] = "SUPERSEDED"
  PROVE  fact'[r].st # "ACTIVE"
<1>1. /\ revision \in [Revision -> RevisionStates] /\ fact \in [Revision -> FactRow]
      /\ fact[r] \in FactRow /\ RevisionOf \in [Mutation -> Revision]
      /\ \A st : [fact[r] EXCEPT !.st = st].st = st
  BY PipelineAssumption DEF TypeOK, FactRow
<1>2. revision' # revision
  OBVIOUS
<1>3. ASSUME NEW q \in Revision, revision' = ActivatedRevisions(q), fact' = ActivatedFacts(q)
      PROVE  fact'[r].st # "ACTIVE"
  <2>1. r = Supersedes[q]
    BY <1>1, <1>3 DEF ActivatedRevisions
  <2>2. fact'[r] = IF fact[r].st = "ACTIVE" THEN [fact[r] EXCEPT !.st = "SUPERSEDED"]
                   ELSE fact[r]
    BY <1>3, <2>1 DEF ActivatedFacts
  <2> QED
    BY <1>1, <2>2
<1>4. ASSUME NEW w \in Worker, NEW m \in Mutation, NEW s \in Store,
             SkipLane(w, m, s) \/ FinishLane(w, m, s)
      PROVE  fact'[r].st # "ACTIVE"
  <2>1. PICK outcome : CompleteLane(w, m, s, outcome)
    BY <1>4 DEF SkipLane, FinishLane
  <2>2. revision' = ActivatedRevisions(RevisionOf[m]) /\ fact' = ActivatedFacts(RevisionOf[m])
    BY <1>2, <2>1 DEF CompleteLane
  <2> QED
    BY <1>1, <1>3, <2>2
<1>5. ASSUME NEW m \in Mutation, Admit(m) PROVE fact'[r].st # "ACTIVE"
  <2>1. \/ revision' = ActivatedRevisions(RevisionOf[m]) /\ fact' = ActivatedFacts(RevisionOf[m])
        \/ revision' = [revision EXCEPT ![RevisionOf[m]] = "PENDING"]
    BY <1>2, <1>5 DEF Admit
  <2>2. revision' # [revision EXCEPT ![RevisionOf[m]] = "PENDING"]
    BY <1>1
  <2> QED
    BY <1>1, <1>3, <2>1, <2>2
<1>6. ASSUME NEW m \in Mutation, RollBack(m) PROVE FALSE
  <2>1. revision' = RestoredRevisions(m)
    BY <1>6 DEF RollBack
  <2> QED
    BY <1>1, <2>1 DEF RestoredRevisions
<1>7. ASSUME NEW d \in Document, PurgeDocument(d) PROVE FALSE
  BY <1>1, <1>7 DEF PurgeDocument
<1> QED
  BY <1>2, <1>4, <1>5, <1>6, <1>7, RevisionActions

\* While a consumer is about to check or to write a canonical assertion whose
\* revision is in history, its mutation stays projectable.
LEMMA ChecksKeep ==
  ASSUME LiveInv, HeadFacts, [Next]_vars, \A v, u \in Worker : v = u, OneEach,
         NEW w \in Worker, NEW m \in Mutation, InHistory(RevisionOf[m])',
         At(w, "check", m, "SQL")' \/ At(w, "write", m, "SQL")'
  PROVE  ledger'[m].mut \in Projectable
<1> DEFINE r == RevisionOf[m]
<1>1. /\ TypeOK /\ Shape /\ r \in Revision /\ ledger[m] \in LedgerRow /\ Matched(ledger[m])
      /\ ledger \in [Mutation -> LedgerRow] /\ revision \in [Revision -> RevisionStates]
  BY PipelineAssumption DEF LiveInv, RollbackInv, TypeOK, LedgerMatches
<1>2. WritesSql(w)
  BY <1>1, ChecksLead
<1>3. CASE UNCHANGED <<ledger, revision>>
  BY <1>2, <1>3 DEF HeadFacts, WritesSql, InHistory
<1>4. CASE UNCHANGED worker /\ (Request \/ Restart)
  <2>1. At(w, "check", m, "SQL") \/ At(w, "write", m, "SQL")
    BY <1>4 DEF At
  <2>2. InHistory(r)
    <3> SUFFICES ASSUME ~InHistory(r) PROVE FALSE
      OBVIOUS
    <3>1. PICK v \in Worker, s \in Store, outcome \in {"COMPLETED", "SKIPPED"} :
             CompleteLane(v, m, s, outcome)
      BY <1>1, HistoryBegins
    <3>2. worker'[v].pc \in {"fence", "failSoft", "idle", "next"}
      BY <1>1, <3>1, CompletionMoves DEF Moved
    <3>3. v = w
      OBVIOUS
    <3> QED
      BY <3>2, <3>3 DEF At
  <2>3. /\ ledger[m].mut \in Projectable /\ m \in Recorded
        /\ document[DocOf(m)] # "PURGED"
    BY <2>1, <2>2 DEF HeadFacts
  <2>4. ledger[m].mut \in Progress /\ Admitted(m)
    BY <2>3 DEF Projectable, Progress, Admitted, Absent
  <2>5. ASSUME NEW n \in Mutation, Admit(n) PROVE ledger'[m].mut \in Projectable
    <3>1. n # m
      BY <2>4, <2>5 DEF Admit
    <3> QED
      BY <1>1, <2>3, <2>5, <3>1 DEF Admit
  <2>6. ASSUME NEW n \in Mutation, RollBack(n) PROVE ledger'[m].mut \in Projectable
    <3>1. CASE n # m
      BY <1>1, <2>3, <2>6, <3>1 DEF RollBack
    <3>2. CASE n = m
      <4>1. revision[r] = "ACTIVE" /\ revision' = RestoredRevisions(m)
        BY <2>2, <2>6, <3>2 DEF RollBack, MayRollBack, InHistory
      <4>2. Siblings(m) \ {m} = {}
        BY DEF Siblings, OneEach
      <4>3. Restores(m)
        BY <2>3, <4>2 DEF Restores
      <4>4. revision'[r] = "ROLLED_BACK"
        BY <1>1, <4>1, <4>3 DEF RestoredRevisions
      <4> QED
        BY <4>4 DEF InHistory
    <3> QED
      BY <3>1, <3>2
  <2>7. ASSUME NEW n \in Mutation, Replay(n) PROVE ledger'[m].mut \in Projectable
    <3>1. n # m
      BY <1>1, <2>4, <2>7 DEF Replay, Matched
    <3> QED
      BY <1>1, <2>3, <2>7, <3>1 DEF Replay
  <2>8. ASSUME NEW d \in Document, PurgeDocument(d) PROVE ledger'[m].mut \in Projectable
    <3>1. CASE DocOf(m) = d
      <4>1. revision'[r] = "PURGED"
        BY <1>1, <2>2, <2>8, <3>1 DEF PurgeDocument, DocOf, InHistory
      <4> QED
        BY <4>1 DEF InHistory
    <3>2. CASE DocOf(m) # d
      BY <1>1, <2>3, <2>8, <3>2 DEF PurgeDocument
    <3> QED
      BY <3>1, <3>2
  <2>9. CASE Restart
    BY <2>9 DEF Restart, Idle, At
  <2>10. CASE Request
    BY <1>3, <2>5, <2>6, <2>7, <2>8, <2>10, <2>3 DEF Request, RequestRollback, PurgeRollback, catalog
  <2> QED
    BY <1>4, <2>9, <2>10
<1> QED
  BY <1>2, <1>3, <1>4 DEF WritesSql

\* Heads and assertions move together.
LEMMA HeadFactsStep ==
  ASSUME LiveInv, LiveInv', FactIsKept, HeadFacts, [Next]_vars,
         \A v, u \in Worker : v = u, OneEach,
         NEW depth \in [Revision -> Nat], Chained(depth)
  PROVE  HeadFacts'
<1>1. TypeOK
  BY DEF LiveInv, RollbackInv
<1>2. ASSUME NEW r \in Revision, fact'[r].st = "SUPERSEDED" PROVE revision'[r] = "SUPERSEDED"
  <2>1. /\ FactInserted(r) => fact'[r].st # "SUPERSEDED"
        /\ FactRestored(r) => fact'[r].st # "SUPERSEDED"
        /\ FactRetracted(r) => fact'[r].st # "SUPERSEDED"
        /\ FactErased(r) => fact'[r].st # "SUPERSEDED"
    <3>1. FactInserted(r) => fact'[r].st # "SUPERSEDED"
      BY DEF FactInserted
    <3>2. FactRestored(r) => fact'[r].st # "SUPERSEDED"
      BY DEF FactRestored
    <3>3. FactRetracted(r) => fact'[r].st # "SUPERSEDED"
      BY DEF FactRetracted
    <3>4. FactErased(r) => fact'[r].st # "SUPERSEDED"
      BY DEF FactErased
    <3> QED
      BY <3>1, <3>2, <3>3, <3>4
  <2>2. CASE fact'[r] = fact[r]
    BY <1>1, <1>2, <2>2, SupersededLeaves DEF HeadFacts
  <2>3. CASE FactSuperseded(r)
    <3>1. PICK q \in Revision : Supersedes[q] = r /\ revision' = ActivatedRevisions(q)
      BY <2>3 DEF FactSuperseded
    <3>2. r # q
      BY <3>1, NotItself
    <3> QED
      BY <3>1, <3>2 DEF ActivatedRevisions
  <2>4. FactMoved(r)
    BY <1>1, FactMoves
  <2> QED
    BY <1>2, <2>1, <2>2, <2>3, <2>4 DEF FactMoved
<1>3. ASSUME NEW r \in Revision, revision'[r] = "SUPERSEDED" PROVE fact'[r].st # "ACTIVE"
  <2>1. CASE revision[r] # "SUPERSEDED"
    BY <1>1, <1>3, <2>1, SupersededEnters
  <2>2. CASE revision[r] = "SUPERSEDED"
    <3>1. fact[r].st # "ACTIVE" /\ InHistory(r)
      BY <2>2 DEF HeadFacts, InHistory
    <3>2. ~FactInserted(r)
      <4> SUFFICES ASSUME NEW w \in Worker, NEW n \in Mutation,
                          WriteArtifact(w, n, "SQL"), RevisionOf[n] = r, fact[r].st = "NONE"
                   PROVE  FALSE
        BY DEF FactInserted
      <4>1. At(w, "write", n, "SQL")
        BY DEF WriteArtifact
      <4>2. ledger[n].mut \in Projectable /\ n \in Recorded
        BY <3>1, <4>1 DEF HeadFacts
      <4>3. Live(n)
        BY <4>2 DEF Live, Held, Terminal, Projectable
      <4> QED
        BY <4>2, <4>3 DEF FactIsKept
    <3>3. ~FactRestored(r)
      <4> SUFFICES ASSUME NEW n \in Mutation, RollBack(n), Restores(n),
                          Supersedes[RevisionOf[n]] = r
                   PROVE  FALSE
        BY DEF FactRestored
      <4>1. RevisionOf[n] \in Revision /\ r # RevisionOf[n] /\ revision' = RestoredRevisions(n)
        BY PipelineAssumption, NotItself DEF RollBack
      <4> QED
        BY <1>3, <2>2, <4>1 DEF RestoredRevisions
    <3>4. FactMoved(r)
      BY <1>1, FactMoves
    <3>5. FactSuperseded(r) \/ FactRetracted(r) \/ FactErased(r) => fact'[r].st # "ACTIVE"
      BY DEF FactSuperseded, FactRetracted, FactErased
    <3> QED
      BY <3>1, <3>2, <3>3, <3>4, <3>5 DEF FactMoved
  <2> QED
    BY <2>1, <2>2
<1>4. ASSUME NEW m \in Mutation, InHistory(RevisionOf[m])'
      PROVE  m \in Recorded' /\ document'[DocOf(m)] # "PURGED"
  BY <1>4, HistoryRecorded
<1>5. ASSUME NEW w \in Worker, NEW m \in Mutation,
             At(w, "check", m, "SQL")' \/ At(w, "write", m, "SQL")', InHistory(RevisionOf[m])'
      PROVE  ledger'[m].mut \in Projectable
  BY <1>5, ChecksKeep
<1> QED
  <2>1. \A m \in Mutation : DocOf(m)' = DocOf(m)
    BY DEF DocOf
  <2> QED
    BY <1>2, <1>3, <1>4, <1>5, <2>1 DEF HeadFacts

\* With one consumer, and no artifact shared by two mutations: the assertions of
\* a superseded revision are superseded with it and return with it, for every
\* chain of revisions a document may have, through failing stores, late
\* backfills, rollbacks, purges, replays and restarts.
THEOREM FactsFollow ==
  ASSUME \A v, u \in Worker : v = u, OneEach,
         NEW depth \in [Revision -> Nat], Chained(depth)
  PROVE  Spec => []FactsFollowHead
<1> DEFINE Inv == LiveInv /\ FactIsKept /\ HeadFacts
<1>1. Init => Inv
  BY LiveInvInit, FactIsKeptInit, HeadFactsInit
<1>2. Inv /\ [Next]_vars => Inv'
  BY LiveInvStep, FactIsKeptStep, HeadFactsStep
<1>3. Inv => FactsFollowHead
  BY DEF HeadFacts, FactsFollowHead
<1> QED
  BY <1>1, <1>2, <1>3, PTL DEF Spec
=============================================================================
