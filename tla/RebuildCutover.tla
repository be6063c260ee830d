--------------------------- MODULE RebuildCutover ---------------------------
(***************************************************************************)
(* The offline rebuild of the derived stores: the runner process, the      *)
(* system operations it claims, the projection generations it stages and   *)
(* the pointer to the generation that is served.                           *)
(*                                                                         *)
(* The API server and the runner exclude each other by the storage writer  *)
(* lock.  The runner may crash, be interrupted or meet an exception at     *)
(* every step, and its lease may run out.  The generation an operation     *)
(* stages bears the operation's name.  Canonical data is a version number  *)
(* that an admission raises; the worker has drained the queues when the    *)
(* server stops (a backlog only makes the preflight raise).                *)
(***************************************************************************)
EXTENDS Naturals, FiniteSets, SystemOperation

CONSTANTS
    BatchSize,      \* rows per replay batch
    MaxVersion,     \* bound on admissions; not in the code
    GraphSettings   \* values of MESA_GRAPH_ENABLED a runner may be started with

Legacy == "legacy"
Generation == Operation \cup {Legacy}
NoLink == [hash |-> None, source |-> None, target |-> None]

ASSUME RebuildAssumption ==
    /\ BatchSize \in Nat \ {0}
    /\ MaxVersion \in Nat
    /\ GraphSettings \subseteq BOOLEAN
    /\ Legacy \notin Operation
    /\ None \notin Generation /\ None \notin 0..MaxVersion /\ None \notin {"server", "runner"}
    /\ Link = [hash: 0..MaxVersion \cup {None}, source: Generation \cup {None},
               target: Operation \cup {None}]
    /\ FirstLink = NoLink

VARIABLES
    writer,     \* who holds the storage writer lock
    passed,     \* a request is past the admission check, and not yet admitted
    source,     \* version of the canonical data
    gen,        \* lifecycle state of each projection generation
    graph,      \* graph setting in a generation's provider manifest
    pointer,    \* projection_runtime: active and previous generation, fence
    store,      \* rows in a generation's vector and graph stores
    ver,        \* version of the canonical data a generation's stores reflect
    backup,     \* version in an operation's backup, or None
    run         \* the runner: step, identity, operation, fence, graph setting

vars == <<op, writer, passed, source, gen, graph, pointer, store, ver, backup, run>>

Lifecycle == {"NONE", "STAGING", "ACTIVE", "RETAINED", "FAILED"}
Steps == {"idle", "claimed", "backed", "running", "staged", "replay", "applied",
          "verify", "ready", "switch", "activated", "publish", "complete", "rolledback"}
Idle == [pc |-> "idle", id |-> None, o |-> None, fence |-> 0, graph |-> TRUE]

TypeOK ==
    /\ OpTypeOK
    /\ writer \in {None, "server", "runner"}
    /\ passed \in BOOLEAN
    /\ source \in 0..MaxVersion
    /\ gen \in [Generation -> Lifecycle]
    /\ graph \in [Generation -> BOOLEAN]
    /\ pointer \in [active: Generation, previous: Generation \cup {None}, fence: Nat]
    /\ store \in [Generation -> SUBSET (1..Rows)]
    /\ ver \in [Generation -> 0..MaxVersion]
    /\ backup \in [Operation -> 0..MaxVersion \cup {None}]
    /\ run \in [pc: Steps, id: Runner \cup {None}, o: Operation \cup {None},
                fence: Nat, graph: BOOLEAN]

Init ==
    /\ OpInit
    /\ writer = None
    /\ passed = FALSE
    /\ source = 0
    /\ gen = [g \in Generation |-> IF g = Legacy THEN "ACTIVE" ELSE "NONE"]
    /\ graph = [g \in Generation |-> TRUE]
    /\ pointer = [active |-> Legacy, previous |-> None, fence |-> 0]
    /\ store = [g \in Generation |-> IF g = Legacy THEN 1..Rows ELSE {}]
    /\ ver = [g \in Generation |-> 0]
    /\ backup = [o \in Operation |-> None]
    /\ run = Idle

-----------------------------------------------------------------------------
(* The server                                                              *)

stores == <<gen, graph, pointer, store, ver, backup>>

ServerStart ==
    /\ writer = None
    /\ writer' = "server"
    /\ UNCHANGED <<op, passed, source, stores, run>>
ServerStop ==
    /\ writer = "server"
    /\ writer' = None
    /\ passed' = FALSE
    /\ UNCHANGED <<op, source, stores, run>>
Operate ==
    /\ writer = "server"
    /\ \E o \in Operation : \/ \E k \in Key, d \in Digest : Submit(o, k, d)
                            \/ Cancel(o) \/ Retry(o)
    /\ UNCHANGED <<writer, passed, source, stores, run>>
\* An admission is refused while maintenance is pending.  The check comes before
\* the transaction, so a rebuild may be submitted between the two.
CheckAdmission ==
    /\ writer = "server"
    /\ ~Pending
    /\ ~passed
    /\ passed' = TRUE
    /\ UNCHANGED <<op, writer, source, stores, run>>
\* What is admitted is projected into the active generation.
Admit ==
    /\ passed
    /\ source < MaxVersion
    /\ source' = source + 1
    /\ ver' = [ver EXCEPT ![pointer.active] = source + 1]
    /\ passed' = FALSE
    /\ UNCHANGED <<op, writer, gen, graph, pointer, store, backup, run>>

-----------------------------------------------------------------------------
(* The runner: claim, preparation                                          *)

At(pc) == run.pc = pc
Holds == Fenced(run.o, run.id, run.fence)
To(pc) == run' = [run EXCEPT !.pc = pc]
Exit == run' = Idle /\ writer' = None
Move(to, done, total, link) ==
    Transition(run.o, run.id, run.fence, to, done, total, link)

Launch(r, o) ==
    /\ writer = None
    /\ Claim(o, r)
    /\ writer' = "runner"
    /\ \E g \in GraphSettings :
          run' = [pc |-> "claimed", id |-> r, o |-> o, fence |-> op[o].fence + 1, graph |-> g]
    /\ UNCHANGED <<passed, source, stores>>

\* _mark_operation_failure: the operation is read again, and failed with its
\* own token if this runner still holds it; _record_failure comes to the same.
FailedRetryable(row) == "RETRYABLE_FAILED"
FailedAs(row) == IF row.tries >= RetryLimit THEN "FINAL_FAILED" ELSE "RETRYABLE_FAILED"
Marked(o, id) ==
    IF op[o].st \in Executing /\ op[o].by = id /\ op[o].live
    THEN [op EXCEPT ![o] = Moved(@, FailedAs(@), @.done, @.total, @.link)]
    ELSE op
Fail ==
    /\ ~At("idle")
    /\ op' = Marked(run.o, run.id)
    /\ Exit
    /\ UNCHANGED <<passed, source, stores>>
\* A process that has the process number of a crashed one cannot claim the
\* operation before its lease ends, yet fails it.
LaunchRefused(r, o) ==
    /\ writer = None
    /\ op[o].by = r /\ op[o].live
    /\ op' = Marked(o, r)
    /\ UNCHANGED <<writer, passed, source, stores, run>>
Crash == ~At("idle") /\ Exit /\ UNCHANGED <<op, passed, source, stores>>

Preflight == op[run.o].st \in {"CLAIMED", "RUNNING"} /\ Holds
\* The hash of the canonical manifest is the one the operation recorded.
SourceUnchanged(o) == op[o].link.hash \in {None, source}
\* An existing backup is validated and used again.
BackupUsable(o) == backup[o] \in {None, source}
BackUp ==
    /\ At("claimed")
    /\ Preflight
    /\ SourceUnchanged(run.o) /\ BackupUsable(run.o)
    /\ backup' = [backup EXCEPT ![run.o] = source]
    /\ To("backed")
    /\ UNCHANGED <<op, writer, passed, source, gen, graph, pointer, store, ver>>
MarkRunning ==
    /\ At("backed")
    /\ Move("RUNNING", op[run.o].done, op[run.o].total,
            [op[run.o].link EXCEPT !.hash = source, !.source = pointer.active])
    /\ To("running")
    /\ UNCHANGED <<writer, passed, source, stores>>
StageableAgain(o) == gen[o] \in {"NONE", "STAGING", "ACTIVE"}
\* create_staging: a new generation, one already staged by the same operation
\* from the same manifest, or a failed one that nothing points to.
Stageable(o) ==
    \/ gen[o] = "NONE"
    \/ gen[o] = "STAGING" /\ graph[o] = run.graph
    \/ gen[o] = "FAILED" /\ graph[o] = run.graph /\ o \notin {pointer.active, pointer.previous}
Stage ==
    /\ At("running")
    /\ op[run.o].st = "RUNNING" /\ Holds
    /\ Stageable(run.o)
    /\ gen' = [gen EXCEPT ![run.o] = "STAGING"]
    /\ graph' = [graph EXCEPT ![run.o] = run.graph]
    /\ To("staged")
    /\ UNCHANGED <<op, writer, passed, source, pointer, store, ver, backup>>
MarkPrepared ==
    /\ At("staged")
    /\ Move("RUNNING", op[run.o].done, op[run.o].total,
            [op[run.o].link EXCEPT !.target = run.o])
    /\ To("replay")
    /\ UNCHANGED <<writer, passed, source, stores>>

-----------------------------------------------------------------------------
(* The runner: replay                                                      *)

\* Rows are ordered by lane: vectors, entities, assertions, links.
Snapshot == 1..Rows
PageFromLast(o) == {i \in 1..Rows : op[o].done <= i /\ i < op[o].done + BatchSize}
PageUnbounded(o) == op[o].done + 1 .. op[o].done + BatchSize
Page(o) == {i \in Snapshot : op[o].done < i /\ i <= op[o].done + BatchSize}
\* The offsets of the lanes agree with the recorded progress and total.
Resumable(o) == op[o].total \in {0, Rows} /\ backup[o] = op[o].link.hash
\* _apply_batch writes the page into the staged stores; upserts, so that a page
\* may be applied again.
Applied(o) == /\ store' = [store EXCEPT ![o] = @ \cup Page(o)]
              /\ ver' = [ver EXCEPT ![o] = backup[o]]
ApplyBatch ==
    /\ At("replay")
    /\ Resumable(run.o)
    /\ Renewable(run.o, run.id, run.fence)
    /\ Page(run.o) # {}
    /\ Applied(run.o)
    /\ To("applied")
    /\ UNCHANGED <<op, writer, passed, source, gen, graph, pointer, backup>>
Checkpoint ==
    /\ At("applied")
    /\ Move("RUNNING", op[run.o].done + Cardinality(Page(run.o)), Rows, op[run.o].link)
    /\ To("replay")
    /\ UNCHANGED <<writer, passed, source, stores>>
FinishReplay ==
    /\ At("replay")
    /\ Page(run.o) = {}
    /\ Move("VERIFYING", Rows, Rows, op[run.o].link)
    /\ To("verify")
    /\ UNCHANGED <<writer, passed, source, stores>>

-----------------------------------------------------------------------------
(* The runner: verification and cutover                                    *)

\* After a crash in READY_TO_CUTOVER.  The rebuilt record of the generation has
\* no provider manifest, so its graph setting counts as enabled.
Recoverable(o) ==
    /\ op[o].link.target = o
    /\ \/ pointer.active = o /\ pointer.previous = op[o].link.source
       \/ pointer.active = op[o].link.source
    /\ backup[o] # None /\ backup[o] = op[o].link.hash
    /\ op[o].done = op[o].total
ResumeCutover ==
    /\ At("claimed")
    /\ op[run.o].st = "READY_TO_CUTOVER"
    /\ Recoverable(run.o)
    /\ run.graph
    /\ To("verify")
    /\ UNCHANGED <<op, writer, passed, source, stores>>

\* Counts and identities agree with the snapshot; health and search probes may
\* still fail, which is Fail.
Parity(g) == store[g] = Snapshot
Verify ==
    /\ At("verify")
    /\ Renewable(run.o, run.id, run.fence)
    /\ Parity(run.o)
    /\ To("ready")
    /\ UNCHANGED <<op, writer, passed, source, stores>>
MarkReady ==
    /\ At("ready")
    /\ Move("READY_TO_CUTOVER", Rows, Rows, op[run.o].link)
    /\ To("switch")
    /\ UNCHANGED <<writer, passed, source, stores>>

Activatable(o, src) ==
    /\ op[o].st = "READY_TO_CUTOVER" /\ op[o].link.target = o
    /\ gen[src] = "ACTIVE" /\ gen[o] = "STAGING"
\* The transaction of ProjectionGenerationRepository.activate.
Switched(o, src) ==
    /\ Holds /\ Activatable(o, src)
    /\ gen' = [gen EXCEPT ![src] = "RETAINED", ![o] = "ACTIVE"]
    /\ pointer' = [active |-> o, previous |-> src, fence |-> pointer.fence + 1]
Activate ==
    LET src == op[run.o].link.source IN
    /\ At("switch")
    /\ pointer.active = src
    /\ Switched(run.o, src)
    /\ To("activated")
    /\ UNCHANGED <<op, writer, passed, source, graph, store, ver, backup>>
\* The pointer was switched before a crash.
AlreadyActive ==
    /\ At("switch")
    /\ pointer.active = run.o /\ pointer.previous = op[run.o].link.source
    /\ To("activated")
    /\ UNCHANGED <<op, writer, passed, source, stores>>

PostVerify ==
    /\ At("activated")
    /\ Parity(run.o)
    /\ To("publish")
    /\ UNCHANGED <<op, writer, passed, source, stores>>
\* The transaction of ProjectionGenerationRepository.rollback.
SwitchedBack(o, old) ==
    /\ Holds /\ op[o].st = "READY_TO_CUTOVER"
    /\ pointer.active = o /\ old # None
    /\ gen[o] = "ACTIVE" /\ gen[old] = "RETAINED"
    /\ gen' = [gen EXCEPT ![o] = "FAILED", ![old] = "ACTIVE"]
    /\ pointer' = [active |-> old, previous |-> None, fence |-> pointer.fence + 1]
\* The verification after the cutover failed: back to the retained generation,
\* and then the operation fails whether or not that generation verifies.
RollBack ==
    /\ At("activated")
    /\ SwitchedBack(run.o, pointer.previous)
    /\ To("rolledback")
    /\ UNCHANGED <<op, writer, passed, source, graph, store, ver, backup>>
\* mark_assertion_vector_representation: only for the generation in service.
\* The registry marker it writes is not read by the rebuild.
Publish ==
    /\ At("publish")
    /\ pointer.active = run.o /\ gen[run.o] = "ACTIVE"
    /\ To("complete")
    /\ UNCHANGED <<op, writer, passed, source, stores>>
Complete ==
    /\ At("complete")
    /\ Move("COMPLETED", Rows, Rows, op[run.o].link)
    /\ Exit
    /\ UNCHANGED <<passed, source, stores>>

-----------------------------------------------------------------------------
Lapse == \E o \in Operation : Expire(o) /\ UNCHANGED <<writer, passed, source, stores, run>>
Prepare == BackUp \/ MarkRunning \/ Stage \/ MarkPrepared
Replay == ApplyBatch \/ Checkpoint \/ FinishReplay
Cutover == \/ ResumeCutover \/ Verify \/ MarkReady \/ Activate \/ AlreadyActive
           \/ PostVerify \/ RollBack \/ Publish \/ Complete
Next ==
    \/ ServerStart \/ ServerStop \/ Operate \/ CheckAdmission \/ Admit
    \/ \E r \in Runner, o \in Operation : Launch(r, o) \/ LaunchRefused(r, o)
    \/ Prepare \/ Replay \/ Cutover \/ Fail \/ Crash \/ Lapse
Spec == Init /\ [][Next]_vars

-----------------------------------------------------------------------------
(* Properties                                                              *)

\* One generation is in service and the pointer names it; what the pointer
\* keeps for a rollback is retained.
PointerConsistent ==
    /\ \A g \in Generation : gen[g] = "ACTIVE" <=> g = pointer.active
    /\ pointer.previous # None => gen[pointer.previous] = "RETAINED"

\* A replay that was interrupted, resumed, repeated or retried has skipped no
\* row once it counts as done, nor has the generation in service.
ReplayIsComplete == \A o \in Operation :
    op[o].st \in {"VERIFYING", "READY_TO_CUTOVER", "COMPLETED"} \/ pointer.active = o
        => store[o] = Snapshot

\* No admitted data is missing from the generation in service: nothing was
\* admitted between the backup and the cutover, by whatever path that came.
ServedIsCurrent == ver[pointer.active] = source

\* While a cutover can still fail, the generation it replaced can be restored.
CanRollBack == \A o \in Operation :
    op[o].st = "READY_TO_CUTOVER" /\ pointer.active = o =>
        pointer.previous = op[o].link.source /\ pointer.previous # o

\* Giving up an operation leaves the generation it would have replaced in
\* service (docs/v4-rebuild-runbook.md: CANCELLED reopens admission with the
\* old active generation).
CancelledKeepsSource == \A o \in Operation :
    op[o].st = "CANCELLED" => pointer.active # o
=============================================================================
