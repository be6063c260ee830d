----------------------------- MODULE DeadLetters -----------------------------
(***************************************************************************)
(* The file of dead letters of the consolidation loop (PersistentQueue):   *)
(* one line per record whose validation or extraction failed, claimed and  *)
(* replayed by a worker, receipted in a second file before it is removed.  *)
(*                                                                         *)
(* An operation holds the file lock and replaces the whole file, so it     *)
(* takes effect at once or not at all; only a completion, which writes     *)
(* both files, has two steps.  One worker runs in the process that owns    *)
(* the storage root; a claim dies with the process, and its line waits for *)
(* the lease to run out.                                                   *)
(***************************************************************************)
EXTENDS Naturals, FiniteSets

CONSTANTS Memory,        \* records a letter may be about
          MaxAttempts,   \* _MAX_ATTEMPTS
          Batch,         \* batch_size
          MaxLetters, FaultLimit     \* bounds

Letter == 1..MaxLetters          \* queue identifiers, in the order of the file
VARIABLES line,        \* the lines of the file
          about,       \* the record each letter was written for
          receipt,     \* letters with a receipt
          torn,        \* the file of receipts ends in half a line
          quarantined, \* letters whose line was damaged
          node,        \* nodes: the memory, and its is_consolidated flag
          worker,      \* start_dlq_worker
          deferred,    \* start_tier3_deferred_worker
          faults

vars == <<line, about, receipt, torn, quarantined, node, worker, deferred, faults>>

NoLine == [st |-> "none", tries |-> 0, leased |-> FALSE]
Idle == [step |-> "idle", todo |-> {}, batch |-> {}]

\* A candidate of a V4 mutation has no row in nodes; a legacy memory has one,
\* which may be waiting for validation.
Init == /\ line = [l \in Letter |-> NoLine]
        /\ about = << >>
        /\ receipt = {} /\ torn = FALSE /\ quarantined = {}
        /\ node \in [Memory -> [st : {"absent", "active"}, waits : BOOLEAN, done : {FALSE}]]
        /\ worker = Idle
        /\ deferred = [step |-> "idle", batch |-> {}]
        /\ faults = 0

First(S) == CHOOSE l \in S : \A n \in S : l <= n
Lines == {l \in Letter : line[l].st # "none"}
Damaged == {l \in Letter : line[l].st = "damaged"}
Locked == worker.step = "remove"
Fault == faults < FaultLimit /\ faults' = faults + 1

\* Every operation first moves the damaged lines out of the file.
Read(file) == [l \in Letter |-> IF l \in Damaged THEN NoLine ELSE file[l]]
Quarantine == quarantined' = quarantined \cup Damaged
Room == Cardinality(DOMAIN about) < MaxLetters
Rewrite(file) == line' = Read(file) /\ Quarantine

-----------------------------------------------------------------------------
(* run_batch on one record: it passes, is discarded, or becomes a letter.  *)

Append(m) ==
    /\ ~Locked /\ Room
    /\ LET l == Cardinality(DOMAIN about) + 1
       IN  /\ Rewrite([line EXCEPT ![l] = [NoLine EXCEPT !.st = "PENDING"]])
           /\ about' = [n \in 1..l |-> IF n = l THEN m ELSE about[n]]
\* invalidate_node; a failure of it is logged and forgotten.
Discard(m) ==
    /\ node' \in {node, [node EXCEPT ![m].st = IF @ = "active" THEN "invalid" ELSE @]}
    /\ UNCHANGED <<line, about, quarantined>>
Outcome(m) ==
    \/ UNCHANGED <<line, about, quarantined, node>>
    \/ node[m].waits /\ Discard(m)
    \/ node[m].waits /\ Append(m) /\ UNCHANGED node

\* The cold path and the consolidation loop; a candidate is not a node, so
\* rejecting it invalidates nothing.
Consolidate(m) ==
    /\ node[m].st = "absent" \/ (node[m].st = "active" /\ ~node[m].done /\ node[m].waits)
    /\ \/ Append(m) /\ UNCHANGED node
       \/ node[m].st = "active" /\ Discard(m)
    /\ UNCHANGED <<receipt, torn, worker, deferred, faults>>

\* The deferred worker marks what it read, whatever became of it.
Waiting == {m \in Memory : node[m].st = "active" /\ node[m].waits /\ ~node[m].done}
DeferredRead == /\ deferred.step = "idle" /\ Waiting # {}
                /\ deferred' = [step |-> "run", batch |-> Waiting]
                /\ UNCHANGED <<line, about, receipt, torn, quarantined, node, worker, faults>>
DeferredRun(m) == /\ deferred.step = "run" /\ m \in deferred.batch
                  /\ Outcome(m)
                  /\ deferred' = [step |-> "mark", batch |-> {m}]
                  /\ UNCHANGED <<receipt, torn, worker, faults>>
DeferredMark == /\ deferred.step = "mark"
                /\ node' = [m \in Memory |->
                      IF m \in deferred.batch /\ node[m].st = "active"
                      THEN [node[m] EXCEPT !.done = TRUE] ELSE node[m]]
                /\ deferred' = [step |-> "idle", batch |-> {}]
                /\ UNCHANGED <<line, about, receipt, torn, quarantined, worker, faults>>

-----------------------------------------------------------------------------
(* The worker that replays letters.                                        *)

Eligible == {l \in Lines : line[l].st = "PENDING" \/ (line[l].st = "PROCESSING" /\ ~line[l].leased)}
Claimed == {l \in Eligible : Cardinality({n \in Eligible : n < l}) < Batch}
Claim ==
    /\ worker = Idle /\ Claimed # {}
    /\ Rewrite([l \in Letter |-> IF l \notin Claimed THEN line[l]
          ELSE [st |-> "PROCESSING", leased |-> TRUE,
                tries |-> IF line[l].tries < MaxAttempts THEN line[l].tries + 1 ELSE MaxAttempts]])
    /\ worker' = [step |-> "triage", todo |-> Claimed, batch |-> {}]
    /\ UNCHANGED <<about, receipt, torn, node, deferred, faults>>

\* _nack: back to the queue, or blocked for good.
Held(l) == line[l].st = "PROCESSING"
Returned(l) ==
    IF ~Held(l) THEN line
    ELSE [line EXCEPT ![l].leased = FALSE,
                      ![l].st = IF line[l].tries >= MaxAttempts THEN "BLOCKED" ELSE "PENDING"]
Removed(l) == [line EXCEPT ![l] = NoLine]

\* A receipt from before the crash acknowledges the claim; a memory that is
\* gone sends the letter back.  Half a receipt stops the whole iteration.
Triage ==
    /\ worker.step = "triage" /\ worker.todo # {}
    /\ LET l == First(worker.todo)
           next == [worker EXCEPT !.todo = @ \ {l}]
       IN  IF torn THEN worker' = Idle /\ UNCHANGED <<line, quarantined>>
           ELSE IF l \in receipt /\ Held(l) THEN Rewrite(Removed(l)) /\ worker' = next
           ELSE IF node[about[l]].st # "active" THEN Rewrite(Returned(l)) /\ worker' = next
           ELSE worker' = [next EXCEPT !.batch = @ \cup {l}] /\ UNCHANGED <<line, quarantined>>
    /\ UNCHANGED <<about, receipt, torn, node, deferred, faults>>

Replay ==
    /\ worker.step = "triage" /\ worker.todo = {} /\ worker.batch # {}
    /\ Outcome(about[First(worker.batch)])
    /\ worker' = [worker EXCEPT !.step = "verify"]
    /\ UNCHANGED <<receipt, torn, deferred, faults>>
Done == /\ worker.step = "triage" /\ worker.todo = {} /\ worker.batch = {}
        /\ worker' = Idle
        /\ UNCHANGED <<line, about, receipt, torn, quarantined, node, deferred, faults>>

\* Mutant: a replay that returns is a success.
VerifiedByReturn(m) == TRUE

\* The memory as it is after the replay.
Verified(m) == node[m].st = "active" /\ node[m].done
NextLetter == [worker EXCEPT !.step = "triage", !.batch = @ \ {First(@)}]
Verify ==
    /\ worker.step = "verify"
    /\ LET l == First(worker.batch)
       IN  IF Verified(about[l]) /\ Held(l) /\ ~torn
           THEN worker' = [worker EXCEPT !.step = "receipt"] /\ UNCHANGED <<line, quarantined>>
           ELSE Rewrite(Returned(l)) /\ worker' = NextLetter
    /\ UNCHANGED <<about, receipt, torn, node, deferred, faults>>

\* The receipt is on disk before the line is removed.
Complete ==
    /\ worker.step = "receipt"
    /\ receipt' = receipt \cup {First(worker.batch)}
    /\ worker' = [worker EXCEPT !.step = "remove"]
    /\ UNCHANGED <<line, about, torn, quarantined, node, deferred, faults>>
Remove ==
    /\ worker.step = "remove"
    /\ Rewrite(Removed(First(worker.batch)))
    /\ worker' = NextLetter
    /\ UNCHANGED <<about, receipt, torn, node, deferred, faults>>

-----------------------------------------------------------------------------
Expire(l) == /\ line[l].leased /\ worker = Idle
             /\ line' = [line EXCEPT ![l].leased = FALSE]
             /\ UNCHANGED <<about, receipt, torn, quarantined, node, worker, deferred, faults>>

\* The process dies; half a receipt may be all that reached the disk.
Crash == /\ Fault
         /\ worker' = Idle /\ deferred' = [step |-> "idle", batch |-> {}]
         /\ torn' \in IF worker.step = "receipt" THEN {torn, TRUE} ELSE {torn}
         /\ UNCHANGED <<line, about, receipt, quarantined, node>>

\* A line is damaged on disk.
Damage(l) == /\ Fault /\ l \in Lines \ Damaged /\ worker = Idle
             /\ line' = [line EXCEPT ![l] = [NoLine EXCEPT !.st = "damaged"]]
             /\ UNCHANGED <<about, receipt, torn, quarantined, node, worker, deferred>>

Next == \/ \E m \in Memory : Consolidate(m) \/ DeferredRun(m)
        \/ DeferredRead \/ DeferredMark \/ Claim \/ Triage \/ Replay \/ Done
        \/ Verify \/ Complete \/ Remove \/ Crash
        \/ \E l \in Letter : Expire(l) \/ Damage(l)

Spec == Init /\ [][Next]_vars

-----------------------------------------------------------------------------
\* Lines, receipts and the workers are well typed, and a letter the worker
\* holds is about a record (loop.py:48-548).
TypeOK ==
    /\ line \in [Letter -> [st : {"none", "PENDING", "PROCESSING", "BLOCKED", "damaged"},
                            tries : 0..MaxAttempts, leased : BOOLEAN]]
    /\ DOMAIN about \subseteq Letter /\ receipt \subseteq DOMAIN about
    /\ \A l \in DOMAIN about : about[l] \in Memory
    /\ worker.step \in {"idle", "triage", "verify", "receipt", "remove"}
    /\ worker.todo \cup worker.batch \subseteq DOMAIN about
    /\ torn \in BOOLEAN /\ faults \in 0..FaultLimit
    /\ node \in [Memory -> [st : {"absent", "active", "invalid"}, waits : BOOLEAN, done : BOOLEAN]]

\* No letter disappears: it is in the file, or its receipt is on disk and the
\* memory it was about is consolidated, or its damaged line is in quarantine;
\* a crash between the receipt and the rewrite changes nothing
\* (loop.py:138-177, 415-452).
LettersAreKept == \A l \in DOMAIN about :
    \/ line[l].st # "none"
    \/ l \in receipt /\ node[about[l]].done
    \/ l \in quarantined
=============================================================================
