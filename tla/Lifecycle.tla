------------------------------ MODULE Lifecycle ------------------------------
(***************************************************************************)
(* The two lifecycle tables of mesa_storage/dao.py and the rule that ties  *)
(* them together: a memory mutation moves along MutationNext, every change *)
(* of a mutation recomputes the state of its pipeline run, and a run moves *)
(* along RunNext.  A transition the table refuses changes nothing and is   *)
(* not an error: callers ignore the Boolean it returns unless they say so. *)
(*                                                                         *)
(* Production admission (admit_v4_memory) creates one run per mutation, so *)
(* the two states live in one "ledger row".  AggregateState is stated for  *)
(* any set of children, as the code has it.                                *)
(***************************************************************************)

\* Marker of a row that has not been admitted yet.
Absent == "NONE"

MutationStates ==
    {Absent, "RECEIVED", "EXTRACTED", "VALIDATED", "PENDING", "SQL_APPLIED",
     "VECTOR_APPLIED", "GRAPH_APPLIED", "COMMITTED", "RETRY_PENDING",
     "DEAD_LETTER", "BLOCKED", "REJECTED", "ROLLING_BACK", "ROLLED_BACK",
     "PURGING", "PURGED", "CANCELLED"}

RunStates ==
    {Absent, "QUEUED", "RUNNING", "EXTRACTED", "VALIDATED", "PROJECTING",
     "COMMITTED", "RETRY_PENDING", "DLQ", "BLOCKED", "ROLLING_BACK",
     "ROLLED_BACK", "PURGED", "CANCELLED"}

\* States in which the code refuses to project, record or complete anything.
Terminal == {"ROLLING_BACK", "ROLLED_BACK", "PURGING", "PURGED", "CANCELLED",
             "REJECTED"}

\* Exits open to every state of the forward path except COMMITTED.
Interruptions == {"RETRY_PENDING", "DEAD_LETTER", "BLOCKED", "REJECTED",
                  "ROLLING_BACK", "PURGING", "PURGED", "CANCELLED"}

MutationNext(state) ==
    CASE state = "RECEIVED"       -> Interruptions \cup {"EXTRACTED"}
      [] state = "EXTRACTED"      -> Interruptions \cup {"VALIDATED"}
      [] state = "VALIDATED"      -> Interruptions \cup {"SQL_APPLIED"}
      [] state = "PENDING"        -> Interruptions \cup {"SQL_APPLIED"}
      [] state = "SQL_APPLIED"    -> Interruptions \cup {"VECTOR_APPLIED"}
      [] state = "VECTOR_APPLIED" -> Interruptions \cup {"GRAPH_APPLIED"}
      [] state = "GRAPH_APPLIED"  -> Interruptions \cup {"COMMITTED"}
      [] state = "COMMITTED"      -> {"RETRY_PENDING", "ROLLING_BACK",
                                      "PURGING", "PURGED"}
      [] state = "RETRY_PENDING"  -> {"PENDING", "EXTRACTED"}
                                     \cup (Interruptions \ {"RETRY_PENDING"})
      [] state = "DEAD_LETTER"    -> {"RETRY_PENDING", "ROLLING_BACK", "PURGED"}
      [] state = "BLOCKED"        -> {"RETRY_PENDING", "ROLLING_BACK", "PURGED"}
      [] state = "ROLLING_BACK"   -> {"ROLLED_BACK", "BLOCKED", "CANCELLED"}
      [] state = "PURGING"        -> {"PURGED"}
      [] OTHER                    -> {}

\* Exits open to every state of a run that has not committed or failed.
RunInterruptions == {"DLQ", "ROLLING_BACK", "BLOCKED", "PURGED", "CANCELLED"}

RunNext(state) ==
    CASE state = "QUEUED"        -> RunInterruptions \cup {"RUNNING", "RETRY_PENDING"}
      [] state = "RUNNING"       -> RunInterruptions \cup
                                    {"EXTRACTED", "VALIDATED", "PROJECTING",
                                     "COMMITTED", "RETRY_PENDING"}
      [] state = "EXTRACTED"     -> RunInterruptions \cup
                                    {"VALIDATED", "PROJECTING", "COMMITTED",
                                     "RETRY_PENDING"}
      [] state = "VALIDATED"     -> RunInterruptions \cup
                                    {"PROJECTING", "COMMITTED", "RETRY_PENDING"}
      [] state = "PROJECTING"    -> RunInterruptions \cup
                                    {"COMMITTED", "RETRY_PENDING"}
      [] state = "RETRY_PENDING" -> RunInterruptions \cup
                                    {"RUNNING", "PROJECTING", "COMMITTED"}
      [] state = "DLQ"           -> {"RETRY_PENDING", "ROLLING_BACK", "BLOCKED",
                                     "PURGED", "CANCELLED"}
      [] state = "ROLLING_BACK"  -> {"ROLLED_BACK", "BLOCKED", "PURGED", "CANCELLED"}
      [] state = "BLOCKED"       -> {"RETRY_PENDING", "ROLLING_BACK", "PURGED",
                                     "CANCELLED"}
      [] state = "COMMITTED"     -> {"RETRY_PENDING", "ROLLING_BACK", "PURGED",
                                     "CANCELLED"}
      [] OTHER                   -> {}

\* The run state a set of child mutation states asks for.
AggregateState(children) ==
    IF children = {"COMMITTED"} THEN "COMMITTED"
    ELSE IF children \cap {"DEAD_LETTER", "BLOCKED", "REJECTED"} # {} THEN "DLQ"
    ELSE IF "RETRY_PENDING" \in children THEN "RETRY_PENDING"
    ELSE IF children \cap {"SQL_APPLIED", "VECTOR_APPLIED", "GRAPH_APPLIED"} # {}
         THEN "PROJECTING"
    ELSE IF "VALIDATED" \in children THEN "VALIDATED"
    ELSE IF "EXTRACTED" \in children THEN "EXTRACTED"
    ELSE "RUNNING"

\* One compare-and-swap of a run: a refused transition leaves it alone.
RunStep(run, to) == IF to \in RunNext(run) THEN to ELSE run

\* Recompute a run from its children; a QUEUED run is started first.
Recompute(run, children) ==
    LET target == AggregateState(children)
        started == IF run = "QUEUED"
                      /\ target \in {"EXTRACTED", "VALIDATED", "PROJECTING",
                                     "COMMITTED"}
                   THEN "RUNNING" ELSE run
    IN  RunStep(started, target)

-----------------------------------------------------------------------------
(* Ledger rows: a mutation and the run that owns it.                       *)

LedgerRow == [mut : MutationStates, run : RunStates]

MoveRun(row, to) == [row EXCEPT !.run = RunStep(@, to)]

Refreshed(row) == [row EXCEPT !.run = Recompute(@, {row.mut})]

MoveMutation(row, to) ==
    IF to \in MutationNext(row.mut)
    THEN [mut |-> to, run |-> Recompute(row.run, {to})]
    ELSE row

\* Both halves of a lifecycle change, in the order the callers make them.
MoveBoth(row, to) == MoveMutation(MoveRun(row, to), to)

\* transition_memory_mutation's answer: already there, or allowed.
MutationMayBe(row, to) == row.mut = to \/ to \in MutationNext(row.mut)

RowTerminal(row) == row.mut \in Terminal \/ row.run \in Terminal
=============================================================================
