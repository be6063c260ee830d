---------------------------- MODULE StorageRoot ----------------------------
(***************************************************************************)
(* The life of a storage root: server processes of the combined profile    *)
(* that start, work and stop under the single-writer lock, the supervisor  *)
(* of their worker, and the tools that back the root up and restore it.    *)
(*                                                                         *)
(* A canonical write is a transaction of the database.  Writes of vectors  *)
(* and of the file of dead letters run in threads: cancelling the worker   *)
(* does not stop them, and neither does closing the engines, so one may    *)
(* land after the lock is released.                                        *)
(***************************************************************************)
EXTENDS Naturals, FiniteSets

CONSTANTS Process,       \* processes of the server
          Memory,
          MaxRestarts,   \* max_restarts of the supervisor
          None, FaultLimit

File == {"db", "vectors", "letters"}
Derived == File \ {"db"}
VARIABLES root,      \* files of the storage root: the memories each one knows
          lock,      \* owner of .mesa-single-writer.lock
          proc,      \* what each process does, and its supervised worker
          late,      \* writes under way in threads: <<process, file, memory>>
          staging,   \* the .incomplete- directory of the running tool
          tool,      \* the running tool and its step
          backup, restored,    \* destination directories
          faults

vars == <<root, lock, proc, late, staging, tool, backup, restored, faults>>

NoDir == [files |-> [f \in {} |-> {}], manifest |-> FALSE, damaged |-> FALSE]
Down == [step |-> "down", worker |-> "STOPPED", restarts |-> 0]
NoTool == [job |-> None, step |-> "idle"]

Init == /\ root = [f \in File |-> {}]
        /\ lock = None
        /\ proc = [p \in Process |-> Down]
        /\ late = {}
        /\ staging = NoDir /\ tool = NoTool
        /\ backup = NoDir /\ restored = NoDir
        /\ faults = 0

Exists(d) == DOMAIN d.files # {}
Fault == faults < FaultLimit /\ faults' = faults + 1
Step(p, st) == proc' = [proc EXCEPT ![p].step = st]
Worker(p, st) == proc' = [proc EXCEPT ![p].worker = st]
Own(p) == {w \in late : w[1] = p}

-----------------------------------------------------------------------------
(* lifespan and _runtime_lifespan. *)

\* No store is opened before the lock is held; a second process is refused.
Acquire(p) == /\ proc[p] = Down /\ Own(p) = {} /\ lock = None
              /\ lock' = p
              /\ Step(p, "starting")
              /\ UNCHANGED <<root, late, staging, tool, backup, restored, faults>>

\* Stores, migrations, recovery, access control; then the workers start.
Open(p) == /\ proc[p].step = "starting"
           /\ Step(p, "open")
           /\ UNCHANGED <<root, lock, late, staging, tool, backup, restored, faults>>
Ready(p) == /\ proc[p].step = "open"
            /\ proc' = [proc EXCEPT ![p] = [step |-> "ready", worker |-> "RUNNING", restarts |-> 0]]
            /\ UNCHANGED <<root, lock, late, staging, tool, backup, restored, faults>>
StartFails(p) == /\ proc[p].step \in {"starting", "open"} /\ Fault
                 /\ Step(p, "closing")
                 /\ UNCHANGED <<root, lock, late, staging, tool, backup, restored>>

\* supervisor.shutdown cancels the worker and waits for its task.
Shutdown(p) == /\ proc[p].step = "ready"
               /\ proc' = [proc EXCEPT ![p].step = "stopping", ![p].worker = "STOPPED"]
               /\ UNCHANGED <<root, lock, late, staging, tool, backup, restored, faults>>
\* The engines are closed one by one; what an error leaves open is tried again.
Close(p) == /\ proc[p].step = "stopping"
            /\ Step(p, "closing")
            /\ UNCHANGED <<root, lock, late, staging, tool, backup, restored, faults>>

\* _close_runtime_storage_resources, then the lock; the process ends when its
\* threads do.
Release(p) == /\ proc[p].step = "closing"
              /\ lock' = None
              /\ proc' = [proc EXCEPT ![p] = Down]
              /\ UNCHANGED <<root, late, staging, tool, backup, restored, faults>>

\* The operating system drops the lock with the process.
Die(p) == /\ proc[p].step # "down" /\ Fault
          /\ proc' = [proc EXCEPT ![p] = Down]
          /\ lock' = IF lock = p THEN None ELSE lock
          /\ late' = late \ Own(p)
          /\ UNCHANGED <<root, staging, tool, backup, restored>>

-----------------------------------------------------------------------------
(* WorkerSupervisor. *)

WorkerFails(p) == /\ proc[p].worker = "RUNNING" /\ Fault
                  /\ Worker(p, "CRASHED")
                  /\ UNCHANGED <<root, lock, late, staging, tool, backup, restored>>
\* _observe, a task of its own: restart within the budget, or block.
Observe(p) ==
    /\ proc[p].worker = "CRASHED"
    /\ proc' = IF proc[p].restarts >= MaxRestarts THEN [proc EXCEPT ![p].worker = "BLOCKED"]
               ELSE [proc EXCEPT ![p].worker = "RUNNING", ![p].restarts = @ + 1]
    /\ UNCHANGED <<root, lock, late, staging, tool, backup, restored, faults>>

-----------------------------------------------------------------------------
(* Writes. *)

Admit(p, m) == /\ proc[p].step = "ready" /\ m \notin root["db"]
               /\ root' = [root EXCEPT !["db"] = @ \cup {m}]
               /\ UNCHANGED <<lock, proc, late, staging, tool, backup, restored, faults>>
Submit(p, f, m) == /\ proc[p].worker = "RUNNING"
                   /\ m \in root["db"] \ root[f] /\ Own(p) = {}
                   /\ late' = late \cup {<<p, f, m>>}
                   /\ UNCHANGED <<root, lock, proc, staging, tool, backup, restored, faults>>
Land(w) == /\ w \in late
           /\ root' = [root EXCEPT ![w[2]] = @ \cup {w[3]}]
           /\ late' = late \ {w}
           /\ UNCHANGED <<lock, proc, staging, tool, backup, restored, faults>>

-----------------------------------------------------------------------------
(* create_backup and restore_backup. *)

\* Mutant: the operator's word that the stores are stopped is enough.
QuiescentInput == TRUE

\* The backup holds the writer lock of the source; without it, it is refused.
Quiescent == lock = None

BackupStart == /\ tool = NoTool /\ ~Exists(backup) /\ Quiescent
               /\ lock' = "backup"
               /\ staging' = NoDir
               /\ tool' = [job |-> "backup", step |-> "copy"]
               /\ UNCHANGED <<root, proc, late, backup, restored, faults>>

\* The snapshot is validated before anything is written.
Validates(d) == d.manifest /\ ~d.damaged /\ DOMAIN d.files = File
RestoreStart == /\ tool = NoTool /\ ~Exists(restored)
                /\ Exists(backup) /\ Validates(backup)
                /\ staging' = NoDir
                /\ tool' = [job |-> "restore", step |-> "copy"]
                /\ UNCHANGED <<root, lock, proc, late, backup, restored, faults>>

\* Files in the order of their paths, which depends on the generation; each
\* SQLite file through the online backup of SQLite.
Source == IF tool.job = "backup" THEN root ELSE backup.files
CopyFile(f) ==
    /\ tool.step = "copy" /\ f \notin DOMAIN staging.files
    /\ staging' = [staging EXCEPT
          !.files = [g \in DOMAIN staging.files \cup {f} |->
                        IF g = f THEN Source[f] ELSE staging.files[g]],
          !.damaged = @ \/ (tool.job = "restore" /\ backup.damaged)]
    /\ UNCHANGED <<root, lock, proc, late, tool, backup, restored, faults>>

\* A new manifest, or the one of the snapshot.
Manifest == /\ tool.step = "copy" /\ DOMAIN staging.files = File
            /\ staging' = [staging EXCEPT !.manifest = TRUE]
            /\ tool' = [tool EXCEPT !.step = "publish"]
            /\ UNCHANGED <<root, lock, proc, late, backup, restored, faults>>

Unlock == lock' = IF tool.job = "backup" /\ lock = "backup" THEN None ELSE lock
\* validate_snapshot and os.replace.
Publish == /\ tool.step = "publish" /\ Validates(staging)
           /\ IF tool.job = "backup" THEN backup' = staging /\ UNCHANGED restored
                                     ELSE restored' = staging /\ UNCHANGED backup
           /\ Unlock /\ tool' = NoTool /\ staging' = NoDir
           /\ UNCHANGED <<root, proc, late, faults>>
\* An error removes the staging directory; a crash leaves it under its own name.
Abandon == /\ tool # NoTool
           /\ Fault \/ (tool.step = "publish" /\ ~Validates(staging) /\ UNCHANGED faults)
           /\ Unlock /\ tool' = NoTool /\ staging' = NoDir
           /\ UNCHANGED <<root, proc, late, backup, restored>>

\* A file of the snapshot changes on disk.
Damage == /\ Exists(backup) /\ ~backup.damaged /\ Fault
          /\ backup' = [backup EXCEPT !.damaged = TRUE]
          /\ UNCHANGED <<root, lock, proc, late, staging, tool, restored>>

Next == \/ \E p \in Process : \/ Acquire(p) \/ Open(p) \/ Ready(p) \/ StartFails(p) \/ Shutdown(p)
                              \/ Close(p) \/ Release(p) \/ Die(p) \/ WorkerFails(p) \/ Observe(p)
                              \/ \E m \in Memory : Admit(p, m) \/ \E f \in Derived : Submit(p, f, m)
        \/ \E w \in late : Land(w)
        \/ BackupStart \/ RestoreStart \/ \E f \in File : CopyFile(f)
        \/ Manifest \/ Publish \/ Abandon \/ Damage

Spec == Init /\ [][Next]_vars

-----------------------------------------------------------------------------
Directory(d) == /\ DOMAIN d.files \subseteq File
                /\ \A f \in DOMAIN d.files : d.files[f] \subseteq Memory
                /\ d.manifest \in BOOLEAN /\ d.damaged \in BOOLEAN
\* Files, processes, workers and directories are well typed (server.py:197-655,
\* supervision.py:11-130, recovery.py:358-474).
TypeOK ==
    /\ root \in [File -> SUBSET Memory]
    /\ lock \in Process \cup {None, "backup"}
    /\ \A p \in Process :
          /\ proc[p].step \in {"down", "starting", "open", "ready", "stopping", "closing"}
          /\ proc[p].worker \in {"RUNNING", "CRASHED", "BLOCKED", "STOPPED"}
          /\ proc[p].restarts \in 0..MaxRestarts
    /\ late \subseteq Process \X Derived \X Memory
    /\ Directory(staging) /\ Directory(backup) /\ Directory(restored)
    /\ tool.job \in {None, "backup", "restore"} /\ faults \in 0..FaultLimit

\* A directory under its published name is whole: it has its manifest and every
\* file, and no file knows a memory its database does not, although the files
\* were copied one after the other and a thread of a stopped process may still
\* have been writing.  A restored root was undamaged when it got its name
\* (recovery.py:358-474, "Crash-safe, manifest-backed backup and restore").
PublishedIsWhole == \A d \in {backup, restored} : Exists(d) =>
    /\ d.manifest /\ DOMAIN d.files = File
    /\ \A f \in Derived : d.files[f] \subseteq d.files["db"]
    /\ d = restored => ~d.damaged
=============================================================================
