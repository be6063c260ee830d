--------------------------- MODULE GraphMigration ---------------------------
(***************************************************************************)
(* The offline migration of the graph artifact: a copy in the current      *)
(* schema is built beside the live one, validated, and swapped in by two   *)
(* renames under a process lock and a journal; the server serves a graph   *)
(* only when the journal says it was promoted, and creates one only where  *)
(* there is none.                                                          *)
(*                                                                         *)
(* A graph is its schema and the facts in it.  There is one target         *)
(* version, and so one row of the journal.  The fingerprint of an artifact *)
(* is the artifact.  Tools run while the server may be starting; the       *)
(* rollback is called while it is stopped.                                 *)
(***************************************************************************)
EXTENDS Naturals, FiniteSets

CONSTANTS Fact,
          Unsafe,       \* facts in the tables a failing read takes for absent
          Tool,         \* processes of migrate_kuzu_schema.py
          Server,       \* the process that starts with the graph enabled
          None,
          FaultLimit    \* bound on crashes and errors

Migrator == Tool \cup {Server}
Path == {"live", "staging", "backup", "displaced"}
Graph == [schema : {"old", "current"}, whole : BOOLEAN, facts : SUBSET Fact]

VARIABLES disk,       \* the artifact at each path
          journal,    \* the row of kuzu_migration_journal
          lock,       \* holder of the migration lock
          run,        \* what each process does
          serving,    \* the server has opened the live graph
          stored,     \* every fact a served or original graph ever held
          unread,     \* facts lost to a failing read of the source
          faults

vars == <<disk, journal, lock, run, serving, stored, unread, faults>>

Idle == [step |-> "idle", snapshot |-> {}, from |-> None]
NoRow == [st |-> "none", from |-> None]
Row == [st : {"none", "BUILDING", "STAGED", "VALIDATED", "SWAPPING", "SWAP_RECOVERY_REQUIRED",
              "PROMOTED", "FAILED", "ROLLING_BACK", "ROLLED_BACK"},
        from : Graph \cup {None}]

\* A storage root without a graph, or with one of an earlier release.
Init == /\ \E g \in [schema : {"old"}, whole : {TRUE}, facts : SUBSET Fact] \cup {None} :
              /\ disk = [p \in Path |-> IF p = "live" THEN g ELSE None]
              /\ stored = IF g = None THEN {} ELSE g.facts
        /\ journal = NoRow
        /\ lock = None
        /\ run = [m \in Migrator |-> Idle]
        /\ serving = FALSE
        /\ unread = {} /\ faults = 0

Fault == faults < FaultLimit /\ faults' = faults + 1
Exists(p) == disk[p] # None
At(m, step) == run[m].step = step
To(m, step) == run' = [run EXCEPT ![m].step = step]
Set(st) == journal' = [journal EXCEPT !.st = st]
Promoted == journal.st = "PROMOTED" /\ Exists("live")
\* The end of a run, with an outcome or an error: the lock goes.
Leave(m) == /\ run' = [run EXCEPT ![m] = Idle]
            /\ lock' = IF lock = m THEN None ELSE lock

-----------------------------------------------------------------------------
(* ensure_schema_ready and migrate_schema_offline *)

\* is_promoted, under the lock.
Serve == /\ At(Server, "idle") /\ ~serving /\ lock = None /\ Promoted
         /\ serving' = TRUE
         /\ UNCHANGED <<disk, journal, lock, run, stored, unread, faults>>

\* A server that finds a graph without proof refuses to start.
Start(m) == /\ At(m, "idle") /\ lock = None /\ ~Promoted
            /\ m = Server => ~serving /\ ~Exists("live")
            /\ To(m, "snapshot")
            /\ UNCHANGED <<disk, journal, lock, serving, stored, unread, faults>>

\* _snapshot, before the lock; an error while it reads assertions is taken for
\* a schema without them.
Facts == IF Exists("live") THEN disk["live"].facts ELSE {}
Snapshot(m) ==
    /\ At(m, "snapshot")
    /\ \/ /\ run' = [run EXCEPT ![m].step = "fingerprint", ![m].snapshot = Facts]
          /\ UNCHANGED <<unread, faults>>
       \/ /\ Facts \cap Unsafe # {} /\ Fault
          /\ run' = [run EXCEPT ![m].step = "fingerprint", ![m].snapshot = Facts \ Unsafe]
          /\ unread' = unread \cup (Facts \cap Unsafe)
    /\ UNCHANGED <<disk, journal, lock, serving, stored>>
Fingerprint(m) ==
    /\ At(m, "fingerprint")
    /\ run' = [run EXCEPT ![m].step = "enter", ![m].from = disk["live"]]
    /\ UNCHANGED <<disk, journal, lock, serving, stored, unread, faults>>

-----------------------------------------------------------------------------
(* KuzuMigrationCoordinator.run *)

Enter(m, step) == At(m, "enter") /\ lock = None /\ lock' = m /\ To(m, step)
Matches(m) == journal.st # "none" /\ journal.from = run[m].from

New(m) == /\ journal.st = "none"
          /\ Enter(m, "build")
          /\ journal' = [st |-> "BUILDING", from |-> run[m].from]
          /\ UNCHANGED <<disk, serving, stored, unread, faults>>
\* A staged copy is validated again, not built again.
Resume(m) == /\ Matches(m) /\ journal.st = "STAGED" /\ Exists("staging")
             /\ Enter(m, "validate")
             /\ UNCHANGED <<disk, journal, serving, stored, unread, faults>>
\* _recover_interrupted_swap, for a row of the same source only.
Swapped == Exists("live") /\ ~Exists("staging") /\ Exists("backup")
HalfSwapped == ~Exists("live") /\ Exists("staging") /\ Exists("backup")
Recover(m) ==
    /\ Matches(m) /\ journal.st = "SWAPPING"
    /\ \/ Swapped /\ UNCHANGED disk
       \/ HalfSwapped /\ disk' = [disk EXCEPT !["live"] = disk["staging"], !["staging"] = None]
    /\ Enter(m, "promoted")
    /\ UNCHANGED <<journal, serving, stored, unread, faults>>
\* Another source, an ambiguous swap, a failure, or nothing to resume.
Resumable == \/ journal.st = "none"
             \/ journal.st = "STAGED" /\ Exists("staging")
             \/ journal.st = "SWAPPING" /\ (Swapped \/ HalfSwapped)
Refuse(m) == /\ At(m, "enter") /\ lock = None
             /\ ~Resumable \/ (journal.st # "none" /\ ~Matches(m))
             /\ run' = [run EXCEPT ![m] = Idle]
             /\ UNCHANGED <<disk, journal, lock, serving, stored, unread, faults>>

\* initialize_schema_artifact, then _load_snapshot.
Create(m) == /\ At(m, "build")
             /\ disk' = [disk EXCEPT !["staging"] =
                            [schema |-> "current", whole |-> FALSE, facts |-> {}]]
             /\ To(m, "load")
             /\ UNCHANGED <<journal, lock, serving, stored, unread, faults>>
Load(m) == /\ At(m, "load")
           /\ disk' = [disk EXCEPT !["staging"] =
                            [schema |-> "current", whole |-> TRUE, facts |-> run[m].snapshot]]
           /\ Set("STAGED")
           /\ To(m, "validate")
           /\ UNCHANGED <<lock, serving, stored, unread, faults>>
BuildFails(m) == /\ At(m, "build") \/ At(m, "load")
                 /\ Fault /\ Set("FAILED") /\ Leave(m)
                 /\ UNCHANGED <<disk, serving, stored, unread>>

\* The checksum of the copy against what this process read of the source.
Valid(m) == disk["staging"].whole /\ disk["staging"].facts = run[m].snapshot
Validate(m) ==
    /\ At(m, "validate")
    /\ IF Valid(m) THEN Set("VALIDATED") /\ To(m, "promote") /\ UNCHANGED lock
                   ELSE Set("FAILED") /\ Leave(m)
    /\ UNCHANGED <<disk, serving, stored, unread, faults>>

\* _promote
Promote(m) ==
    /\ At(m, "promote")
    /\ IF Exists("staging") /\ ~Exists("backup")
       THEN Set("SWAPPING") /\ To(m, "aside") /\ UNCHANGED lock
       ELSE Leave(m) /\ UNCHANGED journal
    /\ UNCHANGED <<disk, serving, stored, unread, faults>>

\* Mutant: the copy is renamed over the live graph.
AsideInPlace(g) == None

\* What is kept of the graph that is replaced.
Aside(g) == g
MoveAside(m) == /\ At(m, "aside")
                /\ disk' = [disk EXCEPT !["backup"] = Aside(disk["live"]), !["live"] = None]
                /\ To(m, "swap")
                /\ UNCHANGED <<journal, lock, serving, stored, unread, faults>>
Swap(m) == /\ At(m, "swap")
           /\ disk' = [disk EXCEPT !["live"] = disk["staging"], !["staging"] = None]
           /\ To(m, "promoted")
           /\ UNCHANGED <<journal, lock, serving, stored, unread, faults>>
SwapFails(m) == /\ At(m, "swap")
                /\ Fault /\ Set("SWAP_RECOVERY_REQUIRED") /\ Leave(m)
                /\ UNCHANGED <<disk, serving, stored, unread>>
Finish(m) == /\ At(m, "promoted")
             /\ Set("PROMOTED") /\ Leave(m)
             /\ UNCHANGED <<disk, serving, stored, unread, faults>>

-----------------------------------------------------------------------------
(* KuzuMigrationCoordinator.rollback *)

RollBack(m) == /\ m \in Tool /\ At(m, "idle") /\ lock = None /\ ~serving
               /\ journal.st = "PROMOTED"
               /\ Exists("live") /\ Exists("backup") /\ ~Exists("displaced")
               /\ lock' = m /\ Set("ROLLING_BACK") /\ To(m, "displace")
               /\ UNCHANGED <<disk, serving, stored, unread, faults>>
Displace(m) == /\ At(m, "displace")
               /\ disk' = [disk EXCEPT !["displaced"] = disk["live"], !["live"] = None]
               /\ To(m, "restore")
               /\ UNCHANGED <<journal, lock, serving, stored, unread, faults>>
Restore(m) == /\ At(m, "restore")
              /\ disk' = [disk EXCEPT !["live"] = disk["backup"], !["backup"] = None]
              /\ To(m, "rolled back")
              /\ UNCHANGED <<journal, lock, serving, stored, unread, faults>>
RolledBack(m) == /\ At(m, "rolled back")
                 /\ Set("ROLLED_BACK") /\ Leave(m)
                 /\ UNCHANGED <<disk, serving, stored, unread, faults>>

-----------------------------------------------------------------------------
\* The projection worker writes to the graph that is served.
Write(f) == /\ serving
            /\ disk' = [disk EXCEPT !["live"].facts = @ \cup {f}]
            /\ stored' = stored \cup {f}
            /\ UNCHANGED <<journal, lock, run, serving, unread, faults>>
Stop == /\ serving
        /\ serving' = FALSE
        /\ UNCHANGED <<disk, journal, lock, run, stored, unread, faults>>
\* A process dies, or an error of the disk or the journal ends its run.
Crash(m) == /\ ~At(m, "idle") /\ Fault
            /\ Leave(m)
            /\ UNCHANGED <<disk, journal, serving, stored, unread>>

Next == \/ Serve \/ Stop \/ \E f \in Fact : Write(f)
        \/ \E m \in Migrator :
              \/ Start(m) \/ Snapshot(m) \/ Fingerprint(m)
              \/ New(m) \/ Resume(m) \/ Recover(m) \/ Refuse(m)
              \/ Create(m) \/ Load(m) \/ BuildFails(m) \/ Validate(m)
              \/ Promote(m) \/ MoveAside(m) \/ Swap(m) \/ SwapFails(m) \/ Finish(m)
              \/ RollBack(m) \/ Displace(m) \/ Restore(m) \/ RolledBack(m)
              \/ Crash(m)

Spec == Init /\ [][Next]_vars

-----------------------------------------------------------------------------
Step == {"idle", "snapshot", "fingerprint", "enter", "build", "load", "validate", "promote",
         "aside", "swap", "promoted", "displace", "restore", "rolled back"}
\* Artifacts, the journal row and the processes are well typed
\* (kuzu_migration.py:285-450).
TypeOK == /\ disk \in [Path -> Graph \cup {None}]
          /\ journal \in Row
          /\ lock \in Migrator \cup {None}
          /\ run \in [Migrator -> [step : Step, snapshot : SUBSET Fact, from : Graph \cup {None}]]
          /\ serving \in BOOLEAN
          /\ stored \subseteq Fact /\ unread \subseteq Fact
          /\ faults \in 0..FaultLimit

Holds(p, f) == Exists(p) /\ f \in disk[p].facts

\* Whatever dies between two renames, two migrations and a starting server, no
\* fact of the graph is lost: it is in the live graph, or in one the migration
\* or the rollback put aside ("Previous live artifacts are retained for explicit
\* rollback", CHANGELOG.md:434-435; "without deleting data", kuzu_migration.py:209).
\* And the server never serves, in place of the graph it had, an empty or half
\* built one: all that was stored is there but what a read error hid.
GraphIsKept ==
    /\ \A f \in stored : \E p \in {"live", "backup", "displaced"} : Holds(p, f)
    /\ serving => /\ Exists("live") /\ disk["live"].whole /\ disk["live"].schema = "current"
                  /\ stored \subseteq disk["live"].facts \cup unread
=============================================================================
