---------------------------- MODULE VectorTables ----------------------------
(***************************************************************************)
(* The tables of one embedding dimension in the vector store: writes and   *)
(* deletions, searches that do not wait for them, and the blue/green       *)
(* alignment that rotates every vector in a copy and puts the copy in      *)
(* place of the active table.                                              *)
(*                                                                         *)
(* A table is the set of its rows and the space they are in, the number of *)
(* rotations it has been through.  LanceDB has no transaction over two     *)
(* tables: every drop, copy and rename is a step that may fail or be the   *)
(* last one of the process.                                                *)
(***************************************************************************)
EXTENDS Integers, FiniteSets

CONSTANTS Node, MaxSpace, FaultLimit     \* bounds on rotations and on faults

VARIABLES main, backup, new,     \* mesa_vectors_<dim> and its two copies
          align,                 \* step of the alignment
          began,                 \* the active table when it began
          kept,                  \* rows written and not deleted since
          exposed,               \* a crash or an error hit a promotion half done
          faults
vars == <<main, backup, new, align, began, kept, exposed, faults>>

Absent == [rows |-> {}, space |-> -1]
Empty == [rows |-> {}, space |-> 0]
There(t) == t # Absent
Init == /\ main = Absent /\ backup = Absent /\ new = Absent
        /\ align = "idle" /\ began = Absent
        /\ kept = {} /\ exposed = FALSE /\ faults = 0

Fault == faults < FaultLimit /\ faults' = faults + 1
To(step) == align' = step
\* _sync_get_or_create_table
Opened == IF There(main) THEN main ELSE Empty

-----------------------------------------------------------------------------
(* Reads and writes                                                        *)

Unlocked == TRUE
\* The mutation lock is held by the whole alignment.
Locked == align = "idle"
\* upsert and bulk_upsert
Upsert(n) == /\ Locked
             /\ main' = [Opened EXCEPT !.rows = @ \cup {n}]
             /\ kept' = kept \cup {n}
             /\ UNCHANGED <<backup, new, align, began, exposed, faults>>
\* hard_delete goes through every table of the prefix, leftovers included.
Without(t, n) == [t EXCEPT !.rows = @ \ {n}]
HardDelete(n) == /\ Locked
                 /\ main' = Without(main, n)
                 /\ backup' = Without(backup, n)
                 /\ new' = Without(new, n)
                 /\ kept' = kept \ {n}
                 /\ UNCHANGED <<align, began, exposed, faults>>
\* A search takes no lock, and makes the table when there is none.
Search == /\ main' = Opened
          /\ UNCHANGED <<backup, new, align, began, kept, exposed, faults>>

-----------------------------------------------------------------------------
(* apply_procrustes_and_switch                                             *)

\* Without an active table there is nothing to do.
Align == /\ Locked /\ There(main) /\ main.space < MaxSpace
         /\ began' = main
         /\ To("copy")
         /\ UNCHANGED <<main, backup, new, kept, exposed, faults>>
\* A copy first drops what an earlier run left under the name.
Copy == /\ align = "copy"
        /\ \/ backup' = main /\ To("transform") /\ UNCHANGED faults
           \/ Fault /\ backup' \in {backup, Absent} /\ To("rollback")
        /\ UNCHANGED <<main, new, began, kept, exposed>>
Rotated(t) == [t EXCEPT !.space = @ + 1]
Transform == /\ align = "transform"
             /\ \/ new' = Rotated(main) /\ To("verify") /\ UNCHANGED faults
                \/ Fault /\ new' \in {new, Absent} /\ To("rollback")
             /\ UNCHANGED <<main, backup, began, kept, exposed>>
\* The recall of the golden queries against the threshold.
Verify == /\ align = "verify"
          /\ To("drop_backup") \/ To("rollback")
          /\ UNCHANGED <<main, backup, new, began, kept, exposed, faults>>

\* _sync_promote_table: both drops are tried and their failures passed over.
DropBackup == /\ align = "drop_backup"
              /\ \/ backup' = Absent /\ UNCHANGED faults
                 \/ Fault /\ UNCHANGED backup
              /\ To("drop_active")
              /\ UNCHANGED <<main, new, began, kept, exposed>>
DropActive == /\ align = "drop_active"
              /\ \/ main' = Absent /\ UNCHANGED faults
                 \/ Fault /\ UNCHANGED main
              /\ To("rename")
              /\ UNCHANGED <<backup, new, began, kept, exposed>>
\* The rename, where the library has one and the name is free.
Rename == /\ align = "rename" /\ ~There(main)
          /\ main' = new /\ new' = Absent
          /\ To("done")
          /\ UNCHANGED <<backup, began, kept, exposed, faults>>
\* Otherwise a copy, which drops what is under the active name.
CopyBack == /\ align = "rename"
            /\ \/ main' = new /\ To("drop_new") /\ UNCHANGED <<exposed, faults>>
               \/ Fault /\ main' \in {main, Absent} /\ To("rollback") /\ exposed' = TRUE
            /\ UNCHANGED <<backup, new, began, kept>>
DropNew == /\ align = "drop_new"
           /\ \/ new' = Absent /\ UNCHANGED faults
              \/ Fault /\ UNCHANGED new
           /\ To("done")
           /\ UNCHANGED <<main, backup, began, kept, exposed>>
Promoted == /\ align = "done"
            /\ To("idle")
            /\ UNCHANGED <<main, backup, new, began, kept, exposed, faults>>
\* _sync_rollback_table drops both copies, or fails on one of them.
CopiesDropped == \/ new' = Absent /\ backup' = Absent /\ UNCHANGED faults
                 \/ Fault /\ new' \in {new, Absent} /\ backup' \in {backup, Absent}
\* After a low recall or any exception; the failure of the cleanup is swallowed.
RollBack == /\ align = "rollback"
            /\ CopiesDropped
            /\ To("idle")
            /\ UNCHANGED <<main, began, kept, exposed>>

\* The process dies; nothing at the next start looks at the copies.
Crash == /\ Fault
         /\ To("idle")
         /\ exposed' = (exposed \/ (align \in {"rename", "drop_new"} /\ main.rows # began.rows))
         /\ UNCHANGED <<main, backup, new, began, kept>>

Alignment == Align \/ Copy \/ Transform \/ Verify \/ DropBackup \/ DropActive \/ Rename
             \/ CopyBack \/ DropNew \/ Promoted \/ RollBack
Next == Alignment \/ Search \/ Crash \/ \E n \in Node : Upsert(n) \/ HardDelete(n)
Spec == Init /\ [][Next]_vars

-----------------------------------------------------------------------------
Table == [rows: SUBSET Node, space: 0..MaxSpace] \cup {Absent}
TypeOK == /\ main \in Table /\ backup \in Table /\ new \in Table
          /\ kept \subseteq Node

\* Whatever is written, searched, aligned, refused by the recall check or cut
\* short in an earlier run, between alignments the active table holds every
\* vector that was written; only a promotion hit between dropping the active
\* table and putting the new one in its place is left out.
VectorsSurvive == align = "idle" /\ ~exposed => main.rows = kept

\* A rolled back alignment leaves the active table as it was, as
\* vector_engine.py:1650 says.
RollbackKeepsOriginal == [][align = "rollback" /\ align' = "idle" =>
                              main'.rows = began.rows]_vars
=============================================================================
