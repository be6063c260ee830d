----------------------------- MODULE GraphStore -----------------------------
(***************************************************************************)
(* KuzuGraphProvider: one connection, the caches of what it is known to    *)
(* hold, projections in a transaction and deletions of several statements. *)
(*                                                                         *)
(* The worker writes one thing at a time.  An assertion has a subject and  *)
(* an object, or a literal (None).  Searches read the same connection      *)
(* (module GraphWalk); what they leave here is whether the graph works.    *)
(***************************************************************************)
EXTENDS Naturals, SequencesExt

CONSTANTS Entity, Assertion, SubjectOf, ObjectOf, None,
          FaultLimit              \* bound

VARIABLES disk, work,             \* the database, and what the connection sees
          open,                   \* a transaction of the connection
          knownN, knownA,         \* _known_nodes, _known_assertions
          stagedN, stagedA,       \* _tx_staged_nodes, _tx_staged_assertions
          up, operational,
          task,                   \* what the worker does
          faults
caches == <<knownN, knownA, stagedN, stagedA>>
vars == <<disk, work, open, caches, up, operational, task, faults>>

Empty == [nodes |-> {}, facts |-> {}]
NoTask == [step |-> "idle", a |-> None, tx |-> FALSE, todo |-> << >>, e |-> None, found |-> {}]
Init == /\ disk = Empty /\ work = Empty /\ open = FALSE
        /\ knownN = {} /\ knownA = {} /\ stagedN = {} /\ stagedA = {}
        /\ up = TRUE /\ operational = TRUE
        /\ task = NoTask /\ faults = 0

Fault == faults < FaultLimit /\ faults' = faults + 1
At(step) == task.step = step
Ends(a) == {SubjectOf[a], ObjectOf[a]} \ {None}

-----------------------------------------------------------------------------
(* Statements on the shared connection                                     *)

\* A write outside a transaction commits by itself.
Write(g) == /\ up
            /\ work' = g
            /\ disk' = IF open THEN disk ELSE g
            /\ UNCHANGED <<open, faults, up, operational>>
\* The engine fails the statement, and may end the transaction with it; after
\* the start of close() every statement is refused.
Broken == /\ \/ up /\ Fault /\ \E end \in BOOLEAN :
                   /\ open' = (open /\ ~end)
                   /\ work' = IF end THEN disk ELSE work
             \/ ~up /\ UNCHANGED <<open, work, faults>>
          /\ UNCHANGED <<disk, up, operational>>
Silent == UNCHANGED <<disk, work, open, faults, up, operational>>
Go(step) == task' = [task EXCEPT !.step = step]

-----------------------------------------------------------------------------
(* A projection: project_v4_graph_assertion in a transaction               *)

\* Without a usable graph there is no transaction: every statement stands alone.
Begin(a) == /\ At("idle") /\ up
            /\ open' = operational
            /\ task' = [NoTask EXCEPT !.step = "nodes", !.a = a, !.tx = operational,
                          !.todo = SetToSeq(Ends(a))]
            /\ UNCHANGED <<disk, work, caches, up, operational, faults>>

RememberAtOnce(e) == knownN' = knownN \cup {e} /\ UNCHANGED stagedN
\* In a transaction a key is staged until the commit.
Remember(e) == /\ stagedN' = IF task.tx THEN stagedN \cup {e} ELSE stagedN
               /\ knownN' = IF task.tx THEN knownN ELSE knownN \cup {e}
\* insert_node: nothing to do for a node known or staged.
InsertNode ==
    /\ At("nodes") /\ task.todo # << >>
    /\ LET e == Head(task.todo)
       IN  /\ IF e \in knownN \cup stagedN
              THEN Silent /\ UNCHANGED <<knownN, stagedN>>
              ELSE Write([work EXCEPT !.nodes = @ \cup {e}]) /\ Remember(e)
           /\ task' = [task EXCEPT !.todo = Tail(@)]
    /\ UNCHANGED <<knownA, stagedA>>
\* insert_assertion: the entities are matched; without one nothing is written,
\* and nobody is told.
InsertAssertion ==
    /\ At("nodes") /\ task.todo = << >>
    /\ IF task.a \in knownA \cup stagedA
       THEN Silent /\ UNCHANGED <<knownA, stagedA>>
       ELSE /\ Write(IF Ends(task.a) \subseteq work.nodes
                     THEN [work EXCEPT !.facts = @ \cup {task.a}] ELSE work)
            /\ stagedA' = IF task.tx THEN stagedA \cup {task.a} ELSE stagedA
            /\ knownA' = IF task.tx THEN knownA ELSE knownA \cup {task.a}
    /\ Go("record")
    /\ UNCHANGED <<knownN, stagedN>>
InsertFails == /\ At("nodes") /\ Broken
               /\ Go("compensate")
               /\ UNCHANGED caches
\* record_mutation_artifact: refused when the mutation has left the pipeline.
RecordArtifact == /\ At("record") /\ Silent
                  /\ \E fenced \in BOOLEAN : Go(IF fenced THEN "compensate" ELSE "commit")
                  /\ UNCHANGED caches

\* COMMIT; the staged keys become known.
Commit == /\ At("commit") /\ (task.tx => up)
          /\ disk' = work /\ open' = FALSE
          /\ knownN' = knownN \cup stagedN /\ knownA' = knownA \cup stagedA
          /\ stagedN' = {} /\ stagedA' = {}
          /\ task' = NoTask
          /\ UNCHANGED <<work, up, operational, faults>>
CommitFails == /\ At("commit") /\ task.tx /\ Broken
               /\ Go("rollback")
               /\ UNCHANGED caches

\* _compensate_v4_graph_projection: the assertion, then each of its entities
\* that no live source owns; what fails is queued for cleanup.
Compensate ==
    /\ At("compensate")
    /\ \/ /\ Write([work EXCEPT !.facts = @ \ {task.a}])
          /\ knownA' = knownA \ {task.a} /\ stagedA' = stagedA \ {task.a}
       \/ Broken /\ UNCHANGED <<knownA, stagedA>>
    /\ \E orphans \in SUBSET Ends(task.a) :
          task' = [task EXCEPT !.step = "drop", !.todo = SetToSeq(orphans)]
    /\ UNCHANGED <<knownN, stagedN>>

\* ROLLBACK, after the staged keys are forgotten.
RollBack == /\ At("rollback")
            /\ IF up THEN work' = disk /\ open' = FALSE ELSE UNCHANGED <<work, open>>
            /\ stagedN' = {} /\ stagedA' = {}
            /\ task' = NoTask
            /\ UNCHANGED <<disk, knownN, knownA, up, operational, faults>>

-----------------------------------------------------------------------------
(* Deletions                                                               *)

\* apply_artifact_cleanup, or a purge: an assertion, or an entity.
Forget(a) == /\ At("idle")
             /\ Write([work EXCEPT !.facts = @ \ {a}])
             /\ knownA' = knownA \ {a} /\ stagedA' = stagedA \ {a}
             /\ UNCHANGED <<knownN, stagedN, task>>
Clean(e) == /\ At("idle") /\ up /\ e \in work.nodes
            /\ task' = [NoTask EXCEPT !.step = "drop", !.todo = <<e>>]
            /\ Silent /\ UNCHANGED caches

\* delete_nodes: the assertions attached, remembered for the cache; a failure of
\* that query is only logged.
Attached == /\ At("drop") /\ task.todo # << >>
            /\ \/ /\ Silent /\ up
                  /\ task' = [task EXCEPT !.step = "subjects", !.e = Head(task.todo),
                       !.todo = Tail(@),
                       !.found = {a \in work.facts : Head(task.todo) \in Ends(a)}]
               \/ /\ Broken
                  /\ task' = [task EXCEPT !.step = "subjects", !.e = Head(task.todo),
                       !.todo = Tail(@), !.found = {}]
            /\ UNCHANGED caches
\* Assertions go before their entity, those about it first.
DeleteAttached ==
    \/ /\ At("subjects")
       /\ Write([work EXCEPT !.facts = {a \in @ : SubjectOf[a] # task.e}])
       /\ Go("objects") /\ UNCHANGED caches
    \/ /\ At("objects")
       /\ Write([work EXCEPT !.facts = {a \in @ : ObjectOf[a] # task.e}])
       /\ Go("node") /\ UNCHANGED caches
DeleteNode ==
    /\ At("node")
    /\ Write([work EXCEPT !.nodes = @ \ {task.e}])
    /\ knownN' = knownN \ {task.e} /\ stagedN' = stagedN \ {task.e}
    /\ knownA' = knownA \ task.found /\ stagedA' = stagedA \ task.found
    /\ Go("drop")
\* A cleanup stops and is retried later; a compensation goes on.
DeleteFails == /\ At("subjects") \/ At("objects") \/ At("node")
               /\ Broken
               /\ IF task.a = None THEN task' = NoTask ELSE Go("drop")
               /\ UNCHANGED caches
DropDone == /\ At("drop") /\ task.todo = << >>
            /\ Silent
            /\ IF task.tx THEN Go("rollback") ELSE task' = NoTask
            /\ UNCHANGED caches

-----------------------------------------------------------------------------
(* The life of the provider                                                *)

\* A search that failed for lack of memory or an unavailable engine is remembered;
\* one that succeeds, or health_check, takes that back.
Judge == /\ up /\ operational' = ~operational
         /\ UNCHANGED <<disk, work, open, caches, up, task, faults>>

\* close: no new statement; what is not committed goes with the connection.
Close == /\ up /\ Fault /\ up' = FALSE
         /\ UNCHANGED <<disk, work, open, caches, operational, task>>
SyncClose == /\ ~up
             /\ work' = disk /\ open' = FALSE
             /\ knownN' = {} /\ knownA' = {} /\ stagedN' = {} /\ stagedA' = {}
             /\ operational' = FALSE
             /\ UNCHANGED <<disk, up, task, faults>>
\* A new process, after a close or a crash: caches are empty, the database is
\* what was committed.
Start == /\ \/ ~up /\ UNCHANGED faults
            \/ up /\ Fault
         /\ up' = TRUE /\ operational' = TRUE
         /\ work' = disk /\ open' = FALSE
         /\ knownN' = {} /\ knownA' = {} /\ stagedN' = {} /\ stagedA' = {}
         /\ task' = NoTask
         /\ UNCHANGED <<disk>>

Next == \/ \E a \in Assertion : Begin(a) \/ Forget(a)
        \/ \E e \in Entity : Clean(e)
        \/ InsertNode \/ InsertAssertion \/ InsertFails \/ RecordArtifact \/ Commit \/ CommitFails
        \/ Compensate \/ RollBack
        \/ Attached \/ DeleteAttached \/ DeleteNode \/ DeleteFails \/ DropDone
        \/ Judge
        \/ Close \/ SyncClose \/ Start
Spec == Init /\ [][Next]_vars

-----------------------------------------------------------------------------
Graph == [nodes: SUBSET Entity, facts: SUBSET Assertion]
TypeOK == /\ disk \in Graph /\ work \in Graph
          /\ knownN \subseteq Entity /\ stagedN \subseteq Entity
          /\ knownA \subseteq Assertion /\ stagedA \subseteq Assertion
          /\ ~open => work = disk

\* Whichever statement of a projection, a compensation or a cleanup fails, and
\* whenever the process ends: every assertion of the graph has its entities, on
\* disk too, and a node the cache vouches for exists.
GraphIsWhole ==
    /\ \A a \in disk.facts : Ends(a) \subseteq disk.nodes
    /\ \A a \in work.facts : Ends(a) \subseteq work.nodes
    /\ up => knownN \subseteq work.nodes
=============================================================================
