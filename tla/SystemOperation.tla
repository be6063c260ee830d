-------------------------- MODULE SystemOperation --------------------------
(***************************************************************************)
(* The repository of durable system operations (projection rebuilds): a    *)
(* row per operation with a lease and a fencing token.                     *)
(*                                                                         *)
(* A claim token is a fresh identifier per claim, and the fencing token    *)
(* counts claims, so the pair (runner, fence) stands for the credential of *)
(* a claim.  The clock is one action: the lease of a row may run out at    *)
(* any time.  Every call runs in one transaction; a refused call changes   *)
(* nothing and is no step.  The append-only event table is not modelled.   *)
(***************************************************************************)
EXTENDS Naturals, FiniteSets

CONSTANTS
    Operation, Runner, Key, Digest, None,
    Link,           \* values of the columns a transition may carry along
    FirstLink,
    RetryLimit,     \* retry_limit
    ClaimLimit,     \* bound on claims of one operation; not in the code
    Rows            \* largest progress_total; a rebuild without rows is not modelled

ASSUME OperationAssumption ==
    /\ RetryLimit \in Nat \ {0}
    /\ ClaimLimit \in Nat
    /\ Rows \in Nat \ {0}
    /\ FirstLink \in Link
    /\ None \notin Runner \cup Key \cup Digest

VARIABLE op

Executing == {"CLAIMED", "RUNNING", "VERIFYING", "READY_TO_CUTOVER"}
Maintenance == {"PENDING", "RETRYABLE_FAILED"} \cup Executing
Final == {"COMPLETED", "RETRYABLE_FAILED", "FINAL_FAILED", "CANCELLED"}
OperationState == {"NONE", "PENDING"} \cup Executing \cup Final

OperationRow ==
    [st: OperationState, key: Key \cup {None}, digest: Digest \cup {None},
     by: Runner \cup {None}, fence: Nat, live: BOOLEAN, tries: Nat,
     done: 0..Rows, total: 0..Rows, link: Link]

OpTypeOK == op \in [Operation -> OperationRow]

OpInit == op = [o \in Operation |->
    [st |-> "NONE", key |-> None, digest |-> None, by |-> None, fence |-> 0,
     live |-> FALSE, tries |-> 0, done |-> 0, total |-> 0, link |-> FirstLink]]

PendingUntilReady == \E o \in Operation : op[o].st \in Maintenance \ {"READY_TO_CUTOVER"}
\* RebuildAdmissionReader.is_pending: maintenance blocks new mutations.
Pending == \E o \in Operation : op[o].st \in Maintenance

\* _assert_fence
Fenced(o, r, f) == op[o].by = r /\ op[o].fence = f /\ op[o].live

\* _ALLOWED_TRANSITIONS
Failing == {"RETRYABLE_FAILED", "FINAL_FAILED"}
AllowedFrom(st) ==
    CASE st = "CLAIMED" -> {"RUNNING"} \cup Failing
      [] st = "RUNNING" -> {"RUNNING", "VERIFYING"} \cup Failing
      [] st = "VERIFYING" -> {"VERIFYING", "READY_TO_CUTOVER"} \cup Failing
      [] st = "READY_TO_CUTOVER" -> {"READY_TO_CUTOVER", "COMPLETED"} \cup Failing
      [] OTHER -> {}

\* A key seen before answers with its operation, or refuses another payload;
\* the partial unique index refuses a second rebuild of the storage root.
Indexed == Maintenance
Submit(o, k, d) ==
    /\ op[o].st = "NONE"
    /\ \A q \in Operation : op[q].key # k
    /\ \A q \in Operation : op[q].st \notin Indexed
    /\ op' = [op EXCEPT ![o].st = "PENDING", ![o].key = k, ![o].digest = d]

ClaimableAnytime(row) == row.st \in {"PENDING"} \cup Executing
Claimable(row) == row.st = "PENDING" \/ (row.st \in Executing /\ ~row.live)
Claim(o, r) ==
    /\ Claimable(op[o])
    /\ op[o].fence < ClaimLimit
    /\ op' = [op EXCEPT ![o].st = IF @ = "PENDING" THEN "CLAIMED" ELSE @,
                        ![o].by = r, ![o].live = TRUE,
                        ![o].fence = @ + 1, ![o].tries = @ + 1]

\* A renewal moves the deadline of a lease that has not run out.
Renewable(o, r, f) == op[o].st \in Executing /\ Fenced(o, r, f)

Progresses(row, to, done, total) ==
    /\ done >= row.done /\ total >= done
    /\ row.total = 0 \/ total = row.total
    /\ to \in {"VERIFYING", "READY_TO_CUTOVER", "COMPLETED"} => done = total

\* A failure to be retried needs attempts left.
MayTransition(row, to) ==
    to \in AllowedFrom(row.st) /\ (to = "RETRYABLE_FAILED" => row.tries < RetryLimit)

Moved(row, to, done, total, link) ==
    [row EXCEPT !.st = to, !.done = done, !.total = total, !.link = link,
                !.by = IF to \in Final THEN None ELSE @,
                !.live = IF to \in Final THEN FALSE ELSE @]

\* Every caller passes a checkpoint, so a transition to the same state is never empty.
Transition(o, r, f, to, done, total, link) ==
    /\ Fenced(o, r, f)
    /\ MayTransition(op[o], to)
    /\ Progresses(op[o], to, done, total)
    /\ op' = [op EXCEPT ![o] = Moved(op[o], to, done, total, link)]

Cancel(o) ==
    /\ op[o].st \in {"PENDING", "RETRYABLE_FAILED"}
    /\ op' = [op EXCEPT ![o].st = "CANCELLED", ![o].by = None, ![o].live = FALSE]

Retry(o) ==
    /\ op[o].st = "RETRYABLE_FAILED"
    /\ op[o].tries < RetryLimit
    /\ op' = [op EXCEPT ![o].st = "PENDING", ![o].by = None, ![o].live = FALSE]

Expire(o) == op[o].live /\ op' = [op EXCEPT ![o].live = FALSE]

OpNext == \E o \in Operation :
    \/ \E k \in Key, d \in Digest : Submit(o, k, d)
    \/ \E r \in Runner : Claim(o, r)
    \/ \E r \in Runner, f \in 1..ClaimLimit, to \in OperationState,
          done, total \in 0..Rows, link \in Link :
          Transition(o, r, f, to, done, total, link)
    \/ Cancel(o) \/ Retry(o) \/ Expire(o)

OpSpec == OpInit /\ [][OpNext]_op

-----------------------------------------------------------------------------
\* At most one rebuild of the storage root is under way, whatever is retried,
\* reclaimed or submitted beside it.
OneRebuild == \A o, q \in Operation :
    op[o].st \in Maintenance /\ op[q].st \in Maintenance => o = q

\* A failure reported as retryable can be retried: the retry that the operator
\* is told to send is not refused for an exhausted budget.
RetryableHasBudget == \A o \in Operation :
    op[o].st = "RETRYABLE_FAILED" => op[o].tries < RetryLimit

\* The rows implement a fenced lease: a runner whose lease ran out or whose
\* operation was reclaimed changes nothing, and progress never goes back.
Lease == INSTANCE FencedLease WITH
    Item <- Operation,
    token <- [o \in Operation |-> op[o].fence],
    open <- [o \in Operation |-> op[o].live],
    work <- [o \in Operation |-> op[o].done]
ImplementsLease == Lease!Spec
=============================================================================
