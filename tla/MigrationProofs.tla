--------------------------- MODULE MigrationProofs ---------------------------
(***************************************************************************)
(* Whatever dies or fails while graphs are migrated, rolled back and       *)
(* served, no fact of the graph is lost: for any facts, any tools and any  *)
(* number of faults.                                                       *)
(***************************************************************************)
EXTENDS GraphMigration, TLAPS

\* What the proof asks of the constants: None is no process and no graph.
MigrationConstants == /\ None \notin Migrator /\ None \notin Graph
             /\ FaultLimit \in Nat

-----------------------------------------------------------------------------
(* The inductive invariant *)

Held(p) == IF disk[p] = None THEN {} ELSE disk[p].facts
\* The graph at p can be served: it is complete but for what a read error hid.
Good(p) == /\ disk[p] # None
           /\ disk[p].whole = TRUE /\ disk[p].schema = "current"
           /\ stored \subseteq disk[p].facts \cup unread

Locked == {"build", "load", "validate", "promote", "aside", "swap", "promoted",
           "displace", "restore", "rolled back"}
\* The lock is held by the process that works on the artifacts, and only by it.
LockOK == \A m \in Migrator : run[m].step \in Locked <=> lock = m

\* Where the holder is tells what the journal says, and what lies at the paths
\* it is about to rename.
HolderOK == \A m \in Migrator :
    /\ run[m].step \in {"build", "load"} => journal.st = "BUILDING"
    /\ run[m].step = "validate" => journal.st = "STAGED"
    /\ run[m].step = "promote" => journal.st = "VALIDATED"
    /\ run[m].step \in {"aside", "swap", "promoted"} => journal.st = "SWAPPING"
    /\ run[m].step \in {"displace", "restore", "rolled back"} => journal.st = "ROLLING_BACK"
    /\ run[m].step = "aside" => disk["backup"] = None /\ disk["staging"] # None
    /\ run[m].step = "swap" => disk["live"] = None /\ disk["staging"] # None
    /\ run[m].step = "promoted" => disk["staging"] = None
    /\ run[m].step = "displace" => disk["displaced"] = None
    /\ run[m].step = "restore" => disk["live"] = None

\* Until the swap begins the live graph is the original, and whoever has read it
\* knows all of it but what a read error hid.
Early == journal.st \in {"none", "BUILDING", "STAGED", "VALIDATED"}
Read == {"fingerprint", "enter", "build", "load", "validate", "promote"}
SourceOK == Early =>
    /\ stored \subseteq Held("live")
    /\ \A m \in Migrator : run[m].step \in Read => stored \subseteq run[m].snapshot \cup unread

\* What the journal says of the copy and of the graph in its place.
CopyOK ==
    /\ journal.st = "STAGED" =>
          /\ disk["staging"] # None
          /\ disk["staging"].whole = TRUE /\ disk["staging"].schema = "current"
    /\ journal.st = "VALIDATED" => Good("staging")
    /\ journal.st = "SWAPPING" => IF disk["staging"] = None THEN Good("live") ELSE Good("staging")
    /\ journal.st = "PROMOTED" => Good("live") /\ lock = None
    /\ serving => journal.st = "PROMOTED"

NothingLost == stored \subseteq Held("live") \cup Held("backup") \cup Held("displaced")

MigrationInv == TypeOK /\ LockOK /\ HolderOK /\ SourceOK /\ CopyOK /\ NothingLost

\* The invariant is what the property asks.
LEMMA InvKeeps == MigrationInv => GraphIsKept
  BY DEF MigrationInv, NothingLost, CopyOK, Good, Held, GraphIsKept, Holds, Exists

\* It holds with an original graph or none, and no journal row.
LEMMA InvInit == ASSUME MigrationConstants PROVE Init => MigrationInv
<1> SUFFICES ASSUME Init PROVE MigrationInv
  OBVIOUS
<1> USE DEF MigrationConstants
<1>1. PICK g \in [schema : {"old"}, whole : {TRUE}, facts : SUBSET Fact] \cup {None} :
         /\ disk = [p \in Path |-> IF p = "live" THEN g ELSE None]
         /\ stored = IF g = None THEN {} ELSE g.facts
  BY DEF Init
<1>2. g \in Graph \cup {None} /\ disk["live"] = g
  BY <1>1 DEF Graph, Path
<1>3. stored \subseteq Fact
  BY <1>1, <1>2 DEF Graph
<1>4. TypeOK
  <2>1. disk \in [Path -> Graph \cup {None}]
    BY <1>1, <1>2
  <2>2. journal \in Row
    BY DEF Init, NoRow, Row
  <2>3. run \in [Migrator -> [step : Step, snapshot : SUBSET Fact, from : Graph \cup {None}]]
    BY DEF Init, Idle, Step
  <2>4. serving \in BOOLEAN /\ lock \in Migrator \cup {None}
    BY DEF Init
  <2>5. unread \subseteq Fact /\ faults \in 0..FaultLimit
    BY DEF Init
  <2> QED
    BY <1>3, <2>1, <2>2, <2>3, <2>4, <2>5 DEF TypeOK
<1>5. LockOK /\ HolderOK
  BY DEF Init, LockOK, HolderOK, Idle, Locked
<1>6. SourceOK /\ CopyOK /\ NothingLost
  BY <1>1, <1>2 DEF Init, NoRow, Idle, SourceOK, CopyOK, NothingLost, Early, Read,
       Held, Good
<1> QED
  BY <1>4, <1>5, <1>6 DEF MigrationInv

-----------------------------------------------------------------------------
(* Types *)

\* What the types say of the parts the steps look at.
LEMMA Parts ==
  ASSUME TypeOK
  PROVE  /\ disk \in [Path -> Graph \cup {None}]
         /\ {"live", "staging", "backup", "displaced"} = Path
         /\ \A m \in Migrator : /\ run[m].snapshot \subseteq Fact
                                /\ run[m].step \in Step /\ run[m].from \in Graph \cup {None}
         /\ \A p \in Path : disk[p] # None => disk[p] \in Graph
  BY DEF TypeOK, Path

\* A process that moves on keeps the rest of its record; the others keep theirs.
LEMMA Moves ==
  ASSUME TypeOK, NEW m \in Migrator, NEW s, To(m, s)
  PROVE  /\ run'[m].step = s /\ run'[m].snapshot = run[m].snapshot /\ run'[m].from = run[m].from
         /\ \A q \in Migrator : q # m => run'[q] = run[q]
         /\ s \in Step => run' \in [Migrator ->
                [step : Step, snapshot : SUBSET Fact, from : Graph \cup {None}]]
  BY DEF TypeOK, To

\* A process that is done leaves the lock to the others.
LEMMA Leaves ==
  ASSUME TypeOK, NEW m \in Migrator, run' = [run EXCEPT ![m] = Idle]
  PROVE  /\ run'[m].step = "idle"
         /\ \A q \in Migrator : q # m => run'[q] = run[q]
         /\ run' \in [Migrator -> [step : Step, snapshot : SUBSET Fact, from : Graph \cup {None}]]
  BY DEF TypeOK, Idle, Step

\* A server opens a promoted graph.
LEMMA ServeStep ==
  ASSUME MigrationConstants, MigrationInv, Serve
  PROVE  MigrationInv'
<1> USE DEF MigrationInv
<1>1. TypeOK /\ LockOK /\ HolderOK /\ SourceOK /\ CopyOK /\ NothingLost
  OBVIOUS
<1>2. run' = run
  BY DEF Serve
<1>3. TypeOK'
  BY <1>1, <1>2 DEF Serve, TypeOK, Row, Set, Leave, Fault, MigrationConstants
<1>4. LockOK'
  BY <1>1, <1>2 DEF Serve, At, LockOK, Locked, Leave, TypeOK, MigrationConstants
<1>5. HolderOK'
  BY <1>1, <1>2 DEF Serve, At, HolderOK, LockOK, Locked, Set, Leave, TypeOK, Row
<1>6. SourceOK'
  BY <1>1, <1>2 DEF Serve, At, SourceOK, HolderOK, Early, Read, Held, Set, TypeOK, Row
<1>7. CopyOK'
  <2>1. journal.st = "PROMOTED" /\ UNCHANGED <<disk, journal, lock, stored, unread>>
    BY DEF Serve, Promoted
  <2> QED
    BY <1>1, <2>1 DEF CopyOK, Good
<1>8. NothingLost'
  BY <1>1 DEF Serve, NothingLost, Held
<1> QED
  BY <1>3, <1>4, <1>5, <1>6, <1>7, <1>8

\* The server stops.
LEMMA StopStep ==
  ASSUME MigrationConstants, MigrationInv, Stop
  PROVE  MigrationInv'
<1> USE DEF MigrationInv
<1>1. TypeOK /\ LockOK /\ HolderOK /\ SourceOK /\ CopyOK /\ NothingLost
  OBVIOUS
<1>2. run' = run
  BY DEF Stop
<1>3. TypeOK'
  BY <1>1, <1>2 DEF Stop, TypeOK, Row, Set, Leave, Fault, MigrationConstants
<1>4. LockOK'
  BY <1>1, <1>2 DEF Stop, At, LockOK, Locked, Leave, TypeOK, MigrationConstants
<1>5. HolderOK'
  BY <1>1, <1>2 DEF Stop, At, HolderOK, LockOK, Locked, Set, Leave, TypeOK, Row
<1>6. SourceOK'
  BY <1>1, <1>2 DEF Stop, At, SourceOK, HolderOK, Early, Read, Held, Set, TypeOK, Row
<1>7. CopyOK'
  BY <1>1, <1>2 DEF Stop, At, CopyOK, Good, HolderOK, LockOK, Locked, Set, Leave,
       TypeOK, Row
<1>8. NothingLost'
  BY <1>1 DEF Stop, NothingLost, Held
<1> QED
  BY <1>3, <1>4, <1>5, <1>6, <1>7, <1>8

\* A projection is in the served graph and among what must be kept.
LEMMA WriteStep ==
  ASSUME MigrationConstants, MigrationInv, NEW f \in Fact, Write(f)
  PROVE  MigrationInv'
<1>1. TypeOK /\ LockOK /\ HolderOK /\ SourceOK /\ CopyOK /\ NothingLost
  BY DEF MigrationInv
<1>2. /\ UNCHANGED <<journal, lock, run, serving, unread, faults>>
      /\ journal.st = "PROMOTED" /\ lock = None /\ stored' = stored \cup {f}
  BY <1>1 DEF Write, CopyOK
<1>3. /\ disk["live"] \in Graph /\ disk["live"] # None
      /\ disk["live"].whole = TRUE /\ disk["live"].schema = "current"
      /\ stored \subseteq disk["live"].facts \cup unread
  BY <1>1, <1>2, Parts DEF CopyOK, Good
<1> DEFINE g == [disk["live"] EXCEPT !.facts = @ \cup {f}]
<1>4. disk' = [disk EXCEPT !["live"] = g]
  BY DEF Write
<1>5. g \in Graph /\ g # None /\ g.whole = TRUE /\ g.schema = "current"
      /\ g.facts = disk["live"].facts \cup {f}
  BY <1>3 DEF Graph, MigrationConstants
<1> HIDE DEF g
<1>6. /\ disk' \in [Path -> Graph \cup {None}] /\ disk'["live"] = g
      /\ disk'["staging"] = disk["staging"] /\ disk'["backup"] = disk["backup"]
      /\ disk'["displaced"] = disk["displaced"]
  BY <1>1, <1>4, <1>5, Parts
<1>7. TypeOK'
  BY <1>1, <1>2, <1>6 DEF TypeOK
<1>8. LockOK' /\ HolderOK'
  BY <1>1, <1>2 DEF LockOK, HolderOK, Locked, MigrationConstants
<1>9. SourceOK'
  BY <1>2 DEF SourceOK, Early
<1>10. CopyOK'
  BY <1>1, <1>2, <1>3, <1>5, <1>6 DEF CopyOK, Good
<1>11. NothingLost'
  BY <1>1, <1>2, <1>3, <1>5, <1>6 DEF NothingLost, Held
<1> QED
  BY <1>7, <1>8, <1>9, <1>10, <1>11 DEF MigrationInv

\* A process begins to read the source.
LEMMA StartStep ==
  ASSUME MigrationConstants, MigrationInv, NEW m \in Migrator, Start(m)
  PROVE  MigrationInv'
<1> USE DEF MigrationInv
<1>1. TypeOK /\ LockOK /\ HolderOK /\ SourceOK /\ CopyOK /\ NothingLost
  OBVIOUS
<1>2. /\ run'[m].step = "snapshot" /\ run'[m].snapshot = run[m].snapshot
      /\ run'[m].from = run[m].from
      /\ \A q \in Migrator : q # m => run'[q] = run[q]
      /\ run' \in [Migrator -> [step : Step, snapshot : SUBSET Fact, from : Graph \cup {None}]]
  <2>1. To(m, "snapshot")
    BY DEF Start
  <2> QED
    BY <1>1, <2>1, Moves DEF Step
<1>3. TypeOK'
  BY <1>1, <1>2 DEF Start, TypeOK, Row, Set, Leave, Fault, MigrationConstants
<1>4. LockOK'
  BY <1>1, <1>2 DEF Start, At, LockOK, Locked, Leave, TypeOK, MigrationConstants
<1>5. HolderOK'
  BY ZenonT(60), <1>1, <1>2 DEF Start, At, HolderOK, LockOK, Locked, Set, Leave, TypeOK, Row
<1>6. SourceOK'
  BY <1>1, <1>2 DEF Start, At, SourceOK, HolderOK, Early, Read, Held, Set, TypeOK, Row
<1>7. CopyOK'
  BY <1>1, <1>2 DEF Start, At, CopyOK, Good, HolderOK, LockOK, Locked, Set, Leave,
       TypeOK, Row
<1>8. NothingLost'
  BY <1>1 DEF Start, NothingLost, Held
<1> QED
  BY <1>3, <1>4, <1>5, <1>6, <1>7, <1>8

\* A snapshot has all of the source but what an error hid.
LEMMA SnapshotStep ==
  ASSUME MigrationConstants, MigrationInv, NEW m \in Migrator, Snapshot(m)
  PROVE  MigrationInv'
<1>1. TypeOK /\ LockOK /\ HolderOK /\ SourceOK /\ CopyOK /\ NothingLost
  BY DEF MigrationInv
<1>2. /\ UNCHANGED <<disk, journal, lock, serving, stored>>
      /\ run[m].step = "snapshot" /\ run'[m].step = "fingerprint"
      /\ \A q \in Migrator : q # m => run'[q] = run[q]
      /\ Held("live") \subseteq run'[m].snapshot \cup unread'
      /\ unread \subseteq unread' /\ unread' \subseteq Fact
  BY <1>1, Parts DEF Snapshot, At, Facts, Exists, Held, TypeOK, Graph
<1>3. /\ run' \in [Migrator -> [step : Step, snapshot : SUBSET Fact, from : Graph \cup {None}]]
      /\ faults' \in 0..FaultLimit
  <2>1. Facts \subseteq Fact
    BY <1>1, Parts DEF Facts, Exists, Graph
  <2>2. \E s \in SUBSET Fact : run' = [run EXCEPT ![m].step = "fingerprint", ![m].snapshot = s]
    BY <2>1 DEF Snapshot
  <2>3. faults' \in 0..FaultLimit
    BY <1>1 DEF Snapshot, Fault, TypeOK, MigrationConstants
  <2> QED
    BY ZenonT(60), <1>1, <2>2, <2>3 DEF TypeOK, Step
<1>4. LockOK'
  BY <1>1, <1>2, <1>3 DEF LockOK, Locked, TypeOK, MigrationConstants
<1>5. HolderOK'
  BY ZenonT(60), <1>1, <1>2, <1>3 DEF HolderOK, LockOK, Locked, TypeOK, Row
<1>6. SourceOK'
  BY <1>1, <1>2, <1>3 DEF SourceOK, HolderOK, Early, Read, Held, TypeOK, Row
<1>7. CopyOK'
  BY <1>1, <1>2, <1>3 DEF CopyOK, Good, HolderOK, LockOK, Locked, TypeOK, Row
<1>8. NothingLost'
  BY <1>1, <1>2, <1>3 DEF NothingLost, Held, HolderOK
<1>9. TypeOK'
  BY <1>1, <1>2, <1>3 DEF TypeOK, Row, Fault, MigrationConstants
<1> QED
  BY <1>4, <1>5, <1>6, <1>7, <1>8, <1>9 DEF MigrationInv

\* The fingerprint is taken of what is live now.
LEMMA FingerprintStep ==
  ASSUME MigrationConstants, MigrationInv, NEW m \in Migrator, Fingerprint(m)
  PROVE  MigrationInv'
<1>1. TypeOK /\ LockOK /\ HolderOK /\ SourceOK /\ CopyOK /\ NothingLost
  BY DEF MigrationInv
<1>2. /\ UNCHANGED <<disk, journal, lock, serving, stored, unread, faults>>
      /\ run[m].step = "fingerprint" /\ run'[m].step = "enter"
      /\ run'[m].snapshot = run[m].snapshot
      /\ \A q \in Migrator : q # m => run'[q] = run[q]
  BY <1>1 DEF Fingerprint, At, TypeOK
<1>3. run' \in [Migrator -> [step : Step, snapshot : SUBSET Fact, from : Graph \cup {None}]]
  <2>1. disk["live"] \in Graph \cup {None}
    BY <1>1, Parts
  <2> QED
    BY ZenonT(60), <1>1, <2>1 DEF Fingerprint, TypeOK, Step
<1>4. LockOK'
  BY <1>1, <1>2, <1>3 DEF LockOK, Locked, TypeOK, MigrationConstants
<1>5. HolderOK'
  BY ZenonT(60), <1>1, <1>2, <1>3 DEF HolderOK, LockOK, Locked, TypeOK, Row
<1>6. SourceOK'
  BY <1>1, <1>2, <1>3 DEF SourceOK, HolderOK, Early, Read, Held, TypeOK, Row
<1>7. CopyOK'
  BY <1>1, <1>2, <1>3 DEF CopyOK, Good, HolderOK, LockOK, Locked, TypeOK, Row
<1>8. NothingLost'
  BY <1>1, <1>2, <1>3 DEF NothingLost, Held, HolderOK
<1>9. TypeOK'
  BY <1>1, <1>2, <1>3 DEF TypeOK, Row, Fault, MigrationConstants
<1> QED
  BY <1>4, <1>5, <1>6, <1>7, <1>8, <1>9 DEF MigrationInv

\* A first migration takes the lock.
LEMMA NewStep ==
  ASSUME MigrationConstants, MigrationInv, NEW m \in Migrator, New(m)
  PROVE  MigrationInv'
<1> USE DEF MigrationInv
<1>1. TypeOK /\ LockOK /\ HolderOK /\ SourceOK /\ CopyOK /\ NothingLost
  OBVIOUS
<1>2. /\ run'[m].step = "build" /\ run'[m].snapshot = run[m].snapshot
      /\ run'[m].from = run[m].from
      /\ \A q \in Migrator : q # m => run'[q] = run[q]
      /\ run' \in [Migrator -> [step : Step, snapshot : SUBSET Fact, from : Graph \cup {None}]]
  <2>1. To(m, "build")
    BY DEF New, Enter, Matches, Exists
  <2> QED
    BY <1>1, <2>1, Moves DEF Step
<1>3. TypeOK'
  BY <1>1, <1>2 DEF New, Enter, Matches, Exists, TypeOK, Row, Set, Leave, Fault,
       MigrationConstants
<1>4. LockOK'
  BY <1>1, <1>2 DEF New, Enter, Matches, Exists, At, LockOK, Locked, Leave, TypeOK,
       MigrationConstants
<1>5. HolderOK'
  BY ZenonT(60), <1>1, <1>2 DEF New, Enter, Matches, Exists, At, HolderOK, LockOK, Locked, Set,
       Leave, TypeOK, Row
<1>6. SourceOK'
  BY <1>1, <1>2 DEF New, Enter, Matches, Exists, At, SourceOK, HolderOK, Early, Read,
       Held, Set, TypeOK, Row
<1>7. CopyOK'
  BY <1>1, <1>2 DEF New, Enter, Matches, Exists, At, CopyOK, Good, HolderOK, LockOK,
       Locked, Set, Leave, TypeOK, Row
<1>8. NothingLost'
  BY <1>1 DEF New, Enter, Matches, Exists, NothingLost, Held
<1> QED
  BY <1>3, <1>4, <1>5, <1>6, <1>7, <1>8

\* A staged copy is validated again.
LEMMA ResumeStep ==
  ASSUME MigrationConstants, MigrationInv, NEW m \in Migrator, Resume(m)
  PROVE  MigrationInv'
<1> USE DEF MigrationInv
<1>1. TypeOK /\ LockOK /\ HolderOK /\ SourceOK /\ CopyOK /\ NothingLost
  OBVIOUS
<1>2. /\ run'[m].step = "validate" /\ run'[m].snapshot = run[m].snapshot
      /\ run'[m].from = run[m].from
      /\ \A q \in Migrator : q # m => run'[q] = run[q]
      /\ run' \in [Migrator -> [step : Step, snapshot : SUBSET Fact, from : Graph \cup {None}]]
  <2>1. To(m, "validate")
    BY DEF Resume, Enter, Matches, Exists
  <2> QED
    BY <1>1, <2>1, Moves DEF Step
<1>3. TypeOK'
  BY <1>1, <1>2 DEF Resume, Enter, Matches, Exists, TypeOK, Row, Set, Leave, Fault,
       MigrationConstants
<1>4. LockOK'
  BY <1>1, <1>2 DEF Resume, Enter, Matches, Exists, At, LockOK, Locked, Leave, TypeOK,
       MigrationConstants
<1>5. HolderOK'
  BY ZenonT(60), <1>1, <1>2 DEF Resume, Enter, Matches, Exists, At, HolderOK, LockOK, Locked, Set,
       Leave, TypeOK, Row
<1>6. SourceOK'
  BY <1>1, <1>2 DEF Resume, Enter, Matches, Exists, At, SourceOK, HolderOK, Early,
       Read, Held, Set, TypeOK, Row
<1>7. CopyOK'
  BY <1>1, <1>2 DEF Resume, Enter, Matches, Exists, At, CopyOK, Good, HolderOK, LockOK,
       Locked, Set, Leave, TypeOK, Row
<1>8. NothingLost'
  BY <1>1 DEF Resume, Enter, Matches, Exists, NothingLost, Held
<1> QED
  BY <1>3, <1>4, <1>5, <1>6, <1>7, <1>8

\* An interrupted swap is finished with the copy that was validated.
LEMMA RecoverStep ==
  ASSUME MigrationConstants, MigrationInv, NEW m \in Migrator, Recover(m)
  PROVE  MigrationInv'
<1>1. TypeOK /\ LockOK /\ HolderOK /\ SourceOK /\ CopyOK /\ NothingLost
  BY DEF MigrationInv
<1>2. /\ UNCHANGED <<journal, serving, stored, unread, faults>>
      /\ journal.st = "SWAPPING" /\ lock = None /\ lock' = m /\ run[m].step = "enter"
      /\ run'[m].step = "promoted" /\ run'[m].snapshot = run[m].snapshot
      /\ \A q \in Migrator : q # m => run'[q] = run[q]
      /\ run' \in [Migrator -> [step : Step, snapshot : SUBSET Fact, from : Graph \cup {None}]]
  <2>1. /\ UNCHANGED <<journal, serving, stored, unread, faults>> /\ lock = None /\ lock' = m
        /\ journal.st = "SWAPPING" /\ run[m].step = "enter" /\ To(m, "promoted")
    BY DEF Recover, Enter, At
  <2> QED
    BY <1>1, <2>1, Moves DEF Step
<1>3. /\ disk' \in [Path -> Graph \cup {None}]
      /\ disk'["staging"] = None
      /\ disk'["backup"] = disk["backup"] /\ disk'["displaced"] = disk["displaced"]
      /\ \/ disk["staging"] = None /\ disk'["live"] = disk["live"]
         \/ disk["live"] = None /\ disk["staging"] # None /\ disk'["live"] = disk["staging"]
  BY <1>1, Parts DEF Recover, Swapped, HalfSwapped, Exists
<1>4. LockOK'
  BY <1>1, <1>2, <1>3 DEF LockOK, Locked, TypeOK, MigrationConstants
<1>5. HolderOK'
  <2>1. \A q \in Migrator : q # m => run'[q] = run[q] /\ (lock' # None => run[q].step \notin Locked)
    BY <1>1, <1>2, <1>3, <1>4 DEF LockOK, MigrationConstants
  <2> QED
    BY ZenonT(60), <1>1, <1>2, <1>3, <2>1 DEF HolderOK, LockOK, Locked, TypeOK, Row
<1>6. SourceOK'
  BY <1>1, <1>2, <1>3 DEF SourceOK, HolderOK, Early, Read, Held, TypeOK, Row
<1>7. CopyOK'
  BY <1>1, <1>2, <1>3 DEF CopyOK, Good, HolderOK, LockOK, Locked, TypeOK, Row
<1>8. NothingLost'
  BY <1>1, <1>2, <1>3 DEF NothingLost, Held, HolderOK
<1>9. TypeOK'
  BY <1>1, <1>2, <1>3 DEF TypeOK, Row, Fault, MigrationConstants
<1> QED
  BY <1>4, <1>5, <1>6, <1>7, <1>8, <1>9 DEF MigrationInv

\* A process that may not go on changes nothing.
LEMMA RefuseStep ==
  ASSUME MigrationConstants, MigrationInv, NEW m \in Migrator, Refuse(m)
  PROVE  MigrationInv'
<1> USE DEF MigrationInv
<1>1. TypeOK /\ LockOK /\ HolderOK /\ SourceOK /\ CopyOK /\ NothingLost
  OBVIOUS
<1>2. /\ run'[m].step = "idle"
      /\ \A q \in Migrator : q # m => run'[q] = run[q]
      /\ run' \in [Migrator -> [step : Step, snapshot : SUBSET Fact, from : Graph \cup {None}]]
  BY <1>1, Leaves DEF Refuse, Leave
<1>3. TypeOK'
  BY <1>1, <1>2 DEF Refuse, TypeOK, Row, Set, Leave, Fault, MigrationConstants
<1>4. LockOK'
  BY <1>1, <1>2 DEF Refuse, At, LockOK, Locked, Leave, TypeOK, MigrationConstants
<1>5. HolderOK'
  BY ZenonT(60), <1>1, <1>2 DEF Refuse, At, HolderOK, LockOK, Locked, Set, Leave, TypeOK, Row
<1>6. SourceOK'
  BY <1>1, <1>2 DEF Refuse, At, SourceOK, HolderOK, Early, Read, Held, Set, TypeOK, Row
<1>7. CopyOK'
  BY <1>1, <1>2 DEF Refuse, At, CopyOK, Good, HolderOK, LockOK, Locked, Set, Leave,
       TypeOK, Row
<1>8. NothingLost'
  BY <1>1 DEF Refuse, NothingLost, Held
<1> QED
  BY <1>3, <1>4, <1>5, <1>6, <1>7, <1>8

\* An empty copy is created beside the live graph.
LEMMA CreateStep ==
  ASSUME MigrationConstants, MigrationInv, NEW m \in Migrator, Create(m)
  PROVE  MigrationInv'
<1>1. TypeOK /\ LockOK /\ HolderOK /\ SourceOK /\ CopyOK /\ NothingLost
  BY DEF MigrationInv
<1>2. /\ UNCHANGED <<journal, lock, serving, stored, unread, faults>>
      /\ run[m].step = "build" /\ journal.st = "BUILDING" /\ lock = m
      /\ run'[m].step = "load" /\ run'[m].snapshot = run[m].snapshot
      /\ \A q \in Migrator : q # m => run'[q] = run[q]
      /\ run' \in [Migrator -> [step : Step, snapshot : SUBSET Fact, from : Graph \cup {None}]]
  <2>1. /\ UNCHANGED <<journal, lock, serving, stored, unread, faults>>
        /\ run[m].step = "build" /\ To(m, "load")
    BY DEF Create, At
  <2> QED
    BY <1>1, <2>1, Moves DEF HolderOK, LockOK, Locked, Step
<1>3. /\ disk' \in [Path -> Graph \cup {None}]
      /\ disk'["staging"] = [schema |-> "current", whole |-> FALSE, facts |-> {}]
      /\ disk'["live"] = disk["live"]
      /\ disk'["backup"] = disk["backup"]
      /\ disk'["displaced"] = disk["displaced"]
      /\ journal' = journal
  BY <1>1, <1>2, Parts DEF Create, Set, TypeOK, Row, Graph, MigrationConstants
<1>4. LockOK'
  BY <1>1, <1>2, <1>3 DEF LockOK, Locked, TypeOK, MigrationConstants
<1>5. HolderOK'
  <2>1. \A q \in Migrator : q # m => run'[q] = run[q] /\ (lock' # None => run[q].step \notin Locked)
    BY <1>1, <1>2, <1>3, <1>4 DEF LockOK, MigrationConstants
  <2> QED
    BY ZenonT(60), <1>1, <1>2, <1>3, <2>1 DEF HolderOK, LockOK, Locked, TypeOK, Row
<1>6. SourceOK'
  BY <1>1, <1>2, <1>3 DEF SourceOK, HolderOK, Early, Read, Held, TypeOK, Row
<1>7. CopyOK'
  BY <1>1, <1>2, <1>3 DEF CopyOK, Good, HolderOK, LockOK, Locked, TypeOK, Row
<1>8. NothingLost'
  BY <1>1, <1>2, <1>3 DEF NothingLost, Held, HolderOK
<1>9. TypeOK'
  BY <1>1, <1>2, <1>3 DEF TypeOK, Row, Fault, MigrationConstants
<1> QED
  BY <1>4, <1>5, <1>6, <1>7, <1>8, <1>9 DEF MigrationInv

\* The copy holds what was read.
LEMMA LoadStep ==
  ASSUME MigrationConstants, MigrationInv, NEW m \in Migrator, Load(m)
  PROVE  MigrationInv'
<1>1. TypeOK /\ LockOK /\ HolderOK /\ SourceOK /\ CopyOK /\ NothingLost
  BY DEF MigrationInv
<1>2. /\ UNCHANGED <<lock, serving, stored, unread, faults>>
      /\ run[m].step = "load" /\ journal.st = "BUILDING" /\ lock = m
      /\ run'[m].step = "validate" /\ run'[m].snapshot = run[m].snapshot
      /\ \A q \in Migrator : q # m => run'[q] = run[q]
      /\ run' \in [Migrator -> [step : Step, snapshot : SUBSET Fact, from : Graph \cup {None}]]
  <2>1. /\ UNCHANGED <<lock, serving, stored, unread, faults>>
        /\ run[m].step = "load" /\ To(m, "validate")
    BY DEF Load, At
  <2> QED
    BY <1>1, <2>1, Moves DEF HolderOK, LockOK, Locked, Step
<1>3. /\ disk' \in [Path -> Graph \cup {None}]
      /\ disk'["staging"] = [schema |-> "current", whole |-> TRUE, facts |-> run[m].snapshot]
      /\ disk'["live"] = disk["live"]
      /\ disk'["backup"] = disk["backup"]
      /\ disk'["displaced"] = disk["displaced"]
      /\ journal' \in Row /\ journal'.st = "STAGED"
      /\ disk'["staging"] # None
  <2> DEFINE g == [schema |-> "current", whole |-> TRUE, facts |-> run[m].snapshot]
  <2>0. run[m].snapshot \subseteq Fact
    BY <1>1, Parts
  <2>1. g \in Graph /\ g # None
    <3>1. g \in Graph
      BY <2>0 DEF Graph
    <3> HIDE DEF g
    <3> QED
      BY <3>1 DEF MigrationConstants
  <2>2. disk' = [disk EXCEPT !["staging"] = g] /\ journal' = [journal EXCEPT !.st = "STAGED"]
    BY DEF Load, Set
  <2>3. journal' \in Row /\ journal'.st = "STAGED"
    BY <1>1, <2>2 DEF TypeOK, Row
  <2> HIDE DEF g
  <2>4. disk' \in [Path -> Graph \cup {None}] /\ disk'["staging"] = g
        /\ \A p \in Path : p # "staging" => disk'[p] = disk[p]
    BY <1>1, <2>1, <2>2, Parts
  <2> QED
    BY <2>1, <2>3, <2>4, Parts DEF g, Path
<1>4. LockOK'
  BY <1>1, <1>2, <1>3 DEF LockOK, Locked, TypeOK, MigrationConstants
<1>5. HolderOK'
  <2>1. \A q \in Migrator : q # m => run'[q] = run[q] /\ (lock' # None => run[q].step \notin Locked)
    BY <1>1, <1>2, <1>3, <1>4 DEF LockOK, MigrationConstants
  <2> QED
    BY ZenonT(60), <1>1, <1>2, <1>3, <2>1 DEF HolderOK, LockOK, Locked, TypeOK, Row
<1>6. SourceOK'
  BY <1>1, <1>2, <1>3 DEF SourceOK, HolderOK, Early, Read, Held, TypeOK, Row
<1>7. CopyOK'
  <2>1. disk'["staging"].whole = TRUE /\ disk'["staging"].schema = "current"
    BY <1>3
  <2>2. ~serving'
    BY <1>1, <1>2 DEF CopyOK
  <2> QED
    BY <1>3, <2>1, <2>2 DEF CopyOK
<1>8. NothingLost'
  BY <1>1, <1>2, <1>3 DEF NothingLost, Held, HolderOK
<1>9. TypeOK'
  BY <1>1, <1>2, <1>3 DEF TypeOK, Row, Fault, MigrationConstants
<1> QED
  BY <1>4, <1>5, <1>6, <1>7, <1>8, <1>9 DEF MigrationInv

\* A failed build leaves the live graph alone.
LEMMA BuildFailsStep ==
  ASSUME MigrationConstants, MigrationInv, NEW m \in Migrator, BuildFails(m)
  PROVE  MigrationInv'
<1> USE DEF MigrationInv
<1>1. TypeOK /\ LockOK /\ HolderOK /\ SourceOK /\ CopyOK /\ NothingLost
  OBVIOUS
<1>2. /\ run'[m].step = "idle"
      /\ \A q \in Migrator : q # m => run'[q] = run[q]
      /\ run' \in [Migrator -> [step : Step, snapshot : SUBSET Fact, from : Graph \cup {None}]]
  BY <1>1, Leaves DEF BuildFails, Leave
<1>3. TypeOK'
  BY <1>1, <1>2 DEF BuildFails, TypeOK, Row, Set, Leave, Fault, MigrationConstants
<1>4. LockOK'
  BY <1>1, <1>2 DEF BuildFails, At, LockOK, Locked, Leave, TypeOK, MigrationConstants
<1>5. HolderOK'
  <2>1. run[m].step \in {"build", "load"} /\ journal'.st = "FAILED" /\ disk' = disk
    BY <1>1 DEF BuildFails, At, Set, TypeOK, Row
  <2>2. lock = m
    BY <1>1, <2>1 DEF LockOK, Locked
  <2> QED
    BY <1>1, <1>2, <2>1, <2>2 DEF HolderOK, LockOK, Locked
<1>6. SourceOK'
  BY <1>1, <1>2 DEF BuildFails, At, SourceOK, HolderOK, Early, Read, Held, Set, TypeOK, Row
<1>7. CopyOK'
  BY <1>1, <1>2 DEF BuildFails, At, CopyOK, Good, HolderOK, LockOK, Locked, Set, Leave,
       TypeOK, Row
<1>8. NothingLost'
  BY <1>1 DEF BuildFails, NothingLost, Held
<1> QED
  BY <1>3, <1>4, <1>5, <1>6, <1>7, <1>8

\* A copy is valid if it has what this process read.
LEMMA ValidateStep ==
  ASSUME MigrationConstants, MigrationInv, NEW m \in Migrator, Validate(m)
  PROVE  MigrationInv'
<1>1. TypeOK /\ LockOK /\ HolderOK /\ SourceOK /\ CopyOK /\ NothingLost
  BY DEF MigrationInv
<1>2. /\ UNCHANGED <<disk, serving, stored, unread, faults>>
      /\ run[m].step = "validate" /\ journal.st = "STAGED"
      /\ \A q \in Migrator : q # m => run'[q] = run[q]
      /\ journal' \in Row
      /\ run' \in [Migrator -> [step : Step, snapshot : SUBSET Fact, from : Graph \cup {None}]]
  <2>1. /\ UNCHANGED <<disk, serving, stored, unread, faults>>
        /\ run[m].step = "validate" /\ journal.st = "STAGED"
    BY <1>1 DEF Validate, At, HolderOK
  <2>2. CASE Valid(m)
    BY <1>1, <2>1, <2>2, Moves DEF Validate, Set, TypeOK, Row, Step
  <2>3. CASE ~Valid(m)
    BY <1>1, <2>1, <2>3, Leaves DEF Validate, Set, TypeOK, Row, Leave
  <2> QED
    BY <2>2, <2>3
<1>3. \/ /\ journal'.st = "VALIDATED" /\ run'[m].step = "promote" /\ lock' = lock
         /\ run'[m].snapshot = run[m].snapshot /\ Good("staging")
      \/ /\ journal'.st = "FAILED" /\ run'[m].step = "idle"
         /\ lock = m /\ lock' = None
  <2>1. lock = m
    BY <1>1, <1>2 DEF LockOK, Locked
  <2>2. CASE Valid(m)
    <3>1. Good("staging")
      BY <1>1, <1>2, <2>2 DEF Valid, Good, CopyOK, SourceOK, Early, Read
    <3> QED
      BY <1>1, <2>2, <3>1, Moves DEF Validate, Set, TypeOK, Row
  <2>3. CASE ~Valid(m)
    BY <1>1, <2>1, <2>3, Leaves DEF Validate, Set, TypeOK, Row, Leave
  <2> QED
    BY <2>2, <2>3
<1>4. LockOK'
  BY <1>1, <1>2, <1>3 DEF LockOK, Locked, TypeOK, MigrationConstants
<1>5. HolderOK'
  BY ZenonT(60), <1>1, <1>2, <1>3 DEF HolderOK, LockOK, Locked, TypeOK, Row
<1>6. SourceOK'
  BY <1>1, <1>2, <1>3 DEF SourceOK, HolderOK, Early, Read, Held, TypeOK, Row
<1>7. CopyOK'
  BY <1>1, <1>2, <1>3 DEF CopyOK, Good, HolderOK, LockOK, Locked, TypeOK, Row
<1>8. NothingLost'
  BY <1>1, <1>2, <1>3 DEF NothingLost, Held, HolderOK
<1>9. TypeOK'
  BY <1>1, <1>2, <1>3 DEF TypeOK, Row, Fault, MigrationConstants
<1> QED
  BY <1>4, <1>5, <1>6, <1>7, <1>8, <1>9 DEF MigrationInv

\* The swap begins with the copy in place and no earlier backup.
LEMMA PromoteStep ==
  ASSUME MigrationConstants, MigrationInv, NEW m \in Migrator, Promote(m)
  PROVE  MigrationInv'
<1>1. TypeOK /\ LockOK /\ HolderOK /\ SourceOK /\ CopyOK /\ NothingLost
  BY DEF MigrationInv
<1>2. /\ UNCHANGED <<disk, serving, stored, unread, faults>>
      /\ run[m].step = "promote" /\ journal.st = "VALIDATED"
      /\ \A q \in Migrator : q # m => run'[q] = run[q]
      /\ journal' \in Row
      /\ run' \in [Migrator -> [step : Step, snapshot : SUBSET Fact, from : Graph \cup {None}]]
  <2>1. /\ UNCHANGED <<disk, serving, stored, unread, faults>>
        /\ run[m].step = "promote" /\ journal.st = "VALIDATED"
    BY <1>1 DEF Promote, At, HolderOK
  <2>2. CASE Exists("staging") /\ ~Exists("backup")
    BY ZenonT(60), <1>1, <2>1, <2>2, Moves DEF Promote, Set, TypeOK, Row, Step
  <2>3. CASE ~(Exists("staging") /\ ~Exists("backup"))
    BY <1>1, <2>1, <2>3, Leaves DEF Promote, TypeOK, Leave
  <2> QED
    BY <2>2, <2>3
<1>3. \/ /\ journal'.st = "SWAPPING" /\ run'[m].step = "aside" /\ lock' = lock
         /\ disk["staging"] # None /\ disk["backup"] = None
      \/ /\ journal' = journal /\ run'[m].step = "idle"
         /\ lock = m /\ lock' = None
  <2>1. lock = m
    BY <1>1, <1>2 DEF LockOK, Locked
  <2>2. CASE Exists("staging") /\ ~Exists("backup")
    BY <1>1, <2>2, Moves DEF Promote, Set, TypeOK, Row, Exists
  <2>3. CASE ~(Exists("staging") /\ ~Exists("backup"))
    BY <1>1, <2>1, <2>3, Leaves DEF Promote, Leave
  <2> QED
    BY <2>2, <2>3
<1>4. LockOK'
  BY <1>1, <1>2, <1>3 DEF LockOK, Locked, TypeOK, MigrationConstants
<1>5. HolderOK'
  BY ZenonT(60), <1>1, <1>2, <1>3 DEF HolderOK, LockOK, Locked, TypeOK, Row
<1>6. SourceOK'
  BY <1>1, <1>2, <1>3 DEF SourceOK, HolderOK, Early, Read, Held, TypeOK, Row
<1>7. CopyOK'
  BY <1>1, <1>2, <1>3 DEF CopyOK, Good, HolderOK, LockOK, Locked, TypeOK, Row
<1>8. NothingLost'
  BY <1>1, <1>2, <1>3 DEF NothingLost, Held, HolderOK
<1>9. TypeOK'
  BY <1>1, <1>2, <1>3 DEF TypeOK, Row, Fault, MigrationConstants
<1> QED
  BY <1>4, <1>5, <1>6, <1>7, <1>8, <1>9 DEF MigrationInv

\* The live graph becomes the backup.
LEMMA MoveAsideStep ==
  ASSUME MigrationConstants, MigrationInv, NEW m \in Migrator, MoveAside(m)
  PROVE  MigrationInv'
<1>1. TypeOK /\ LockOK /\ HolderOK /\ SourceOK /\ CopyOK /\ NothingLost
  BY DEF MigrationInv
<1>2. /\ UNCHANGED <<journal, lock, serving, stored, unread, faults>>
      /\ run[m].step = "aside" /\ journal.st = "SWAPPING" /\ lock = m
      /\ run'[m].step = "swap" /\ run'[m].snapshot = run[m].snapshot
      /\ \A q \in Migrator : q # m => run'[q] = run[q]
      /\ run' \in [Migrator -> [step : Step, snapshot : SUBSET Fact, from : Graph \cup {None}]]
  <2>1. /\ UNCHANGED <<journal, lock, serving, stored, unread, faults>>
        /\ run[m].step = "aside" /\ To(m, "swap")
    BY DEF MoveAside, At, Aside
  <2> QED
    BY <1>1, <2>1, Moves DEF HolderOK, LockOK, Locked, Step
<1>3. /\ disk' \in [Path -> Graph \cup {None}]
      /\ disk'["live"] = None
      /\ disk'["backup"] = disk["live"]
      /\ disk'["staging"] = disk["staging"]
      /\ disk'["displaced"] = disk["displaced"]
      /\ journal' = journal
  BY <1>1, <1>2, Parts DEF MoveAside, Set, TypeOK, Row, Graph, MigrationConstants, Aside
<1>4. LockOK'
  BY <1>1, <1>2, <1>3 DEF LockOK, Locked, TypeOK, MigrationConstants
<1>5. HolderOK'
  <2>1. \A q \in Migrator : q # m => run'[q] = run[q] /\ (lock' # None => run[q].step \notin Locked)
    BY <1>1, <1>2, <1>3, <1>4 DEF LockOK, MigrationConstants
  <2> QED
    BY ZenonT(60), <1>1, <1>2, <1>3, <2>1 DEF HolderOK, LockOK, Locked, TypeOK, Row
<1>6. SourceOK'
  BY <1>1, <1>2, <1>3 DEF SourceOK, HolderOK, Early, Read, Held, TypeOK, Row
<1>7. CopyOK'
  BY <1>1, <1>2, <1>3 DEF CopyOK, Good, HolderOK, LockOK, Locked, TypeOK, Row
<1>8. NothingLost'
  BY <1>1, <1>2, <1>3 DEF NothingLost, Held, HolderOK
<1>9. TypeOK'
  BY <1>1, <1>2, <1>3 DEF TypeOK, Row, Fault, MigrationConstants
<1> QED
  BY <1>4, <1>5, <1>6, <1>7, <1>8, <1>9 DEF MigrationInv

\* The copy becomes the live graph.
LEMMA SwapStep ==
  ASSUME MigrationConstants, MigrationInv, NEW m \in Migrator, Swap(m)
  PROVE  MigrationInv'
<1>1. TypeOK /\ LockOK /\ HolderOK /\ SourceOK /\ CopyOK /\ NothingLost
  BY DEF MigrationInv
<1>2. /\ UNCHANGED <<journal, lock, serving, stored, unread, faults>>
      /\ run[m].step = "swap" /\ journal.st = "SWAPPING" /\ lock = m
      /\ run'[m].step = "promoted" /\ run'[m].snapshot = run[m].snapshot
      /\ \A q \in Migrator : q # m => run'[q] = run[q]
      /\ run' \in [Migrator -> [step : Step, snapshot : SUBSET Fact, from : Graph \cup {None}]]
  <2>1. /\ UNCHANGED <<journal, lock, serving, stored, unread, faults>>
        /\ run[m].step = "swap" /\ To(m, "promoted")
    BY DEF Swap, At
  <2> QED
    BY <1>1, <2>1, Moves DEF HolderOK, LockOK, Locked, Step
<1>3. /\ disk' \in [Path -> Graph \cup {None}]
      /\ disk'["live"] = disk["staging"]
      /\ disk'["staging"] = None
      /\ disk'["backup"] = disk["backup"]
      /\ disk'["displaced"] = disk["displaced"]
      /\ journal' = journal
  BY <1>1, <1>2, Parts DEF Swap, Set, TypeOK, Row, Graph, MigrationConstants
<1>4. LockOK'
  BY <1>1, <1>2, <1>3 DEF LockOK, Locked, TypeOK, MigrationConstants
<1>5. HolderOK'
  <2>1. \A q \in Migrator : q # m => run'[q] = run[q] /\ (lock' # None => run[q].step \notin Locked)
    BY <1>1, <1>2, <1>3, <1>4 DEF LockOK, MigrationConstants
  <2> QED
    BY ZenonT(60), <1>1, <1>2, <1>3, <2>1 DEF HolderOK, LockOK, Locked, TypeOK, Row
<1>6. SourceOK'
  BY <1>1, <1>2, <1>3 DEF SourceOK, HolderOK, Early, Read, Held, TypeOK, Row
<1>7. CopyOK'
  BY <1>1, <1>2, <1>3 DEF CopyOK, Good, HolderOK, LockOK, Locked, TypeOK, Row
<1>8. NothingLost'
  BY <1>1, <1>2, <1>3 DEF NothingLost, Held, HolderOK
<1>9. TypeOK'
  BY <1>1, <1>2, <1>3 DEF TypeOK, Row, Fault, MigrationConstants
<1> QED
  BY <1>4, <1>5, <1>6, <1>7, <1>8, <1>9 DEF MigrationInv

\* A swap that fails leaves the backup.
LEMMA SwapFailsStep ==
  ASSUME MigrationConstants, MigrationInv, NEW m \in Migrator, SwapFails(m)
  PROVE  MigrationInv'
<1> USE DEF MigrationInv
<1>1. TypeOK /\ LockOK /\ HolderOK /\ SourceOK /\ CopyOK /\ NothingLost
  OBVIOUS
<1>2. /\ run'[m].step = "idle"
      /\ \A q \in Migrator : q # m => run'[q] = run[q]
      /\ run' \in [Migrator -> [step : Step, snapshot : SUBSET Fact, from : Graph \cup {None}]]
  BY <1>1, Leaves DEF SwapFails, Leave
<1>3. TypeOK'
  BY <1>1, <1>2 DEF SwapFails, TypeOK, Row, Set, Leave, Fault, MigrationConstants
<1>4. LockOK'
  BY <1>1, <1>2 DEF SwapFails, At, LockOK, Locked, Leave, TypeOK, MigrationConstants
<1>5. HolderOK'
  BY ZenonT(60), <1>1, <1>2 DEF SwapFails, At, HolderOK, LockOK, Locked, Set, Leave, TypeOK, Row
<1>6. SourceOK'
  BY <1>1, <1>2 DEF SwapFails, At, SourceOK, HolderOK, Early, Read, Held, Set, TypeOK, Row
<1>7. CopyOK'
  BY <1>1, <1>2 DEF SwapFails, At, CopyOK, Good, HolderOK, LockOK, Locked, Set, Leave,
       TypeOK, Row
<1>8. NothingLost'
  BY <1>1 DEF SwapFails, NothingLost, Held
<1> QED
  BY <1>3, <1>4, <1>5, <1>6, <1>7, <1>8

\* The copy is promoted.
LEMMA FinishStep ==
  ASSUME MigrationConstants, MigrationInv, NEW m \in Migrator, Finish(m)
  PROVE  MigrationInv'
<1> USE DEF MigrationInv
<1>1. TypeOK /\ LockOK /\ HolderOK /\ SourceOK /\ CopyOK /\ NothingLost
  OBVIOUS
<1>2. /\ run'[m].step = "idle"
      /\ \A q \in Migrator : q # m => run'[q] = run[q]
      /\ run' \in [Migrator -> [step : Step, snapshot : SUBSET Fact, from : Graph \cup {None}]]
  BY <1>1, Leaves DEF Finish, Leave
<1>3. TypeOK'
  BY <1>1, <1>2 DEF Finish, TypeOK, Row, Set, Leave, Fault, MigrationConstants
<1>4. LockOK'
  BY <1>1, <1>2 DEF Finish, At, LockOK, Locked, Leave, TypeOK, MigrationConstants
<1>5. HolderOK'
  BY ZenonT(60), <1>1, <1>2 DEF Finish, At, HolderOK, LockOK, Locked, Set, Leave, TypeOK, Row
<1>6. SourceOK'
  BY <1>1, <1>2 DEF Finish, At, SourceOK, HolderOK, Early, Read, Held, Set, TypeOK, Row
<1>7. CopyOK'
  BY <1>1, <1>2 DEF Finish, At, CopyOK, Good, HolderOK, LockOK, Locked, Set, Leave,
       TypeOK, Row
<1>8. NothingLost'
  BY <1>1 DEF Finish, NothingLost, Held
<1> QED
  BY <1>3, <1>4, <1>5, <1>6, <1>7, <1>8

\* A rollback begins with a backup and nothing displaced.
LEMMA RollBackStep ==
  ASSUME MigrationConstants, MigrationInv, NEW m \in Migrator, RollBack(m)
  PROVE  MigrationInv'
<1> USE DEF MigrationInv
<1>1. TypeOK /\ LockOK /\ HolderOK /\ SourceOK /\ CopyOK /\ NothingLost
  OBVIOUS
<1>2. /\ run'[m].step = "displace" /\ run'[m].snapshot = run[m].snapshot
      /\ run'[m].from = run[m].from
      /\ \A q \in Migrator : q # m => run'[q] = run[q]
      /\ run' \in [Migrator -> [step : Step, snapshot : SUBSET Fact, from : Graph \cup {None}]]
  <2>1. To(m, "displace")
    BY DEF RollBack, Exists
  <2> QED
    BY <1>1, <2>1, Moves DEF Step
<1>3. TypeOK'
  BY <1>1, <1>2 DEF RollBack, Exists, TypeOK, Row, Set, Leave, Fault, MigrationConstants
<1>4. LockOK'
  BY <1>1, <1>2 DEF RollBack, Exists, At, LockOK, Locked, Leave, TypeOK, MigrationConstants
<1>5. HolderOK'
  BY ZenonT(60), <1>1, <1>2 DEF RollBack, Exists, At, HolderOK, LockOK, Locked, Set, Leave, TypeOK, Row
<1>6. SourceOK'
  BY <1>1, <1>2 DEF RollBack, Exists, At, SourceOK, HolderOK, Early, Read, Held, Set,
       TypeOK, Row
<1>7. CopyOK'
  BY <1>1, <1>2 DEF RollBack, Exists, At, CopyOK, Good, HolderOK, LockOK, Locked, Set,
       Leave, TypeOK, Row
<1>8. NothingLost'
  BY <1>1 DEF RollBack, Exists, NothingLost, Held
<1> QED
  BY <1>3, <1>4, <1>5, <1>6, <1>7, <1>8

\* The promoted graph is put aside.
LEMMA DisplaceStep ==
  ASSUME MigrationConstants, MigrationInv, NEW m \in Migrator, Displace(m)
  PROVE  MigrationInv'
<1>1. TypeOK /\ LockOK /\ HolderOK /\ SourceOK /\ CopyOK /\ NothingLost
  BY DEF MigrationInv
<1>2. /\ UNCHANGED <<journal, lock, serving, stored, unread, faults>>
      /\ run[m].step = "displace" /\ journal.st = "ROLLING_BACK" /\ lock = m
      /\ run'[m].step = "restore" /\ run'[m].snapshot = run[m].snapshot
      /\ \A q \in Migrator : q # m => run'[q] = run[q]
      /\ run' \in [Migrator -> [step : Step, snapshot : SUBSET Fact, from : Graph \cup {None}]]
  <2>1. /\ UNCHANGED <<journal, lock, serving, stored, unread, faults>>
        /\ run[m].step = "displace" /\ To(m, "restore")
    BY DEF Displace, At
  <2> QED
    BY <1>1, <2>1, Moves DEF HolderOK, LockOK, Locked, Step
<1>3. /\ disk' \in [Path -> Graph \cup {None}]
      /\ disk'["live"] = None
      /\ disk'["displaced"] = disk["live"]
      /\ disk'["staging"] = disk["staging"]
      /\ disk'["backup"] = disk["backup"]
      /\ journal' = journal
  BY <1>1, <1>2, Parts DEF Displace, Set, TypeOK, Row, Graph, MigrationConstants
<1>4. LockOK'
  BY <1>1, <1>2, <1>3 DEF LockOK, Locked, TypeOK, MigrationConstants
<1>5. HolderOK'
  <2>1. \A q \in Migrator : q # m => run'[q] = run[q] /\ (lock' # None => run[q].step \notin Locked)
    BY <1>1, <1>2, <1>3, <1>4 DEF LockOK, MigrationConstants
  <2> QED
    BY ZenonT(60), <1>1, <1>2, <1>3, <2>1 DEF HolderOK, LockOK, Locked, TypeOK, Row
<1>6. SourceOK'
  BY <1>1, <1>2, <1>3 DEF SourceOK, HolderOK, Early, Read, Held, TypeOK, Row
<1>7. CopyOK'
  BY <1>1, <1>2, <1>3 DEF CopyOK, Good, HolderOK, LockOK, Locked, TypeOK, Row
<1>8. NothingLost'
  BY <1>1, <1>2, <1>3 DEF NothingLost, Held, HolderOK
<1>9. TypeOK'
  BY <1>1, <1>2, <1>3 DEF TypeOK, Row, Fault, MigrationConstants
<1> QED
  BY <1>4, <1>5, <1>6, <1>7, <1>8, <1>9 DEF MigrationInv

\* The backup is live again.
LEMMA RestoreStep ==
  ASSUME MigrationConstants, MigrationInv, NEW m \in Migrator, Restore(m)
  PROVE  MigrationInv'
<1>1. TypeOK /\ LockOK /\ HolderOK /\ SourceOK /\ CopyOK /\ NothingLost
  BY DEF MigrationInv
<1>2. /\ UNCHANGED <<journal, lock, serving, stored, unread, faults>>
      /\ run[m].step = "restore" /\ journal.st = "ROLLING_BACK" /\ lock = m
      /\ run'[m].step = "rolled back" /\ run'[m].snapshot = run[m].snapshot
      /\ \A q \in Migrator : q # m => run'[q] = run[q]
      /\ run' \in [Migrator -> [step : Step, snapshot : SUBSET Fact, from : Graph \cup {None}]]
  <2>1. /\ UNCHANGED <<journal, lock, serving, stored, unread, faults>>
        /\ run[m].step = "restore" /\ To(m, "rolled back")
    BY DEF Restore, At
  <2> QED
    BY <1>1, <2>1, Moves DEF HolderOK, LockOK, Locked, Step
<1>3. /\ disk' \in [Path -> Graph \cup {None}]
      /\ disk'["live"] = disk["backup"]
      /\ disk'["backup"] = None
      /\ disk'["staging"] = disk["staging"]
      /\ disk'["displaced"] = disk["displaced"]
      /\ journal' = journal
  BY <1>1, <1>2, Parts DEF Restore, Set, TypeOK, Row, Graph, MigrationConstants
<1>4. LockOK'
  BY <1>1, <1>2, <1>3 DEF LockOK, Locked, TypeOK, MigrationConstants
<1>5. HolderOK'
  <2>1. \A q \in Migrator : q # m => run'[q] = run[q] /\ (lock' # None => run[q].step \notin Locked)
    BY <1>1, <1>2, <1>3, <1>4 DEF LockOK, MigrationConstants
  <2> QED
    BY ZenonT(60), <1>1, <1>2, <1>3, <2>1 DEF HolderOK, LockOK, Locked, TypeOK, Row
<1>6. SourceOK'
  BY <1>1, <1>2, <1>3 DEF SourceOK, HolderOK, Early, Read, Held, TypeOK, Row
<1>7. CopyOK'
  BY <1>1, <1>2, <1>3 DEF CopyOK, Good, HolderOK, LockOK, Locked, TypeOK, Row
<1>8. NothingLost'
  BY <1>1, <1>2, <1>3 DEF NothingLost, Held, HolderOK
<1>9. TypeOK'
  BY <1>1, <1>2, <1>3 DEF TypeOK, Row, Fault, MigrationConstants
<1> QED
  BY <1>4, <1>5, <1>6, <1>7, <1>8, <1>9 DEF MigrationInv

\* The rollback is over.
LEMMA RolledBackStep ==
  ASSUME MigrationConstants, MigrationInv, NEW m \in Migrator, RolledBack(m)
  PROVE  MigrationInv'
<1> USE DEF MigrationInv
<1>1. TypeOK /\ LockOK /\ HolderOK /\ SourceOK /\ CopyOK /\ NothingLost
  OBVIOUS
<1>2. /\ run'[m].step = "idle"
      /\ \A q \in Migrator : q # m => run'[q] = run[q]
      /\ run' \in [Migrator -> [step : Step, snapshot : SUBSET Fact, from : Graph \cup {None}]]
  BY <1>1, Leaves DEF RolledBack, Leave
<1>3. TypeOK'
  BY <1>1, <1>2 DEF RolledBack, TypeOK, Row, Set, Leave, Fault, MigrationConstants
<1>4. LockOK'
  BY <1>1, <1>2 DEF RolledBack, At, LockOK, Locked, Leave, TypeOK, MigrationConstants
<1>5. HolderOK'
  <2>1. run[m].step = "rolled back" /\ journal'.st = "ROLLED_BACK" /\ disk' = disk
    BY <1>1 DEF RolledBack, At, Set, TypeOK, Row
  <2>2. lock = m
    BY <1>1, <2>1 DEF LockOK, Locked
  <2> QED
    BY <1>1, <1>2, <2>1, <2>2 DEF HolderOK, LockOK, Locked
<1>6. SourceOK'
  BY <1>1, <1>2 DEF RolledBack, At, SourceOK, HolderOK, Early, Read, Held, Set, TypeOK, Row
<1>7. CopyOK'
  BY <1>1, <1>2 DEF RolledBack, At, CopyOK, Good, HolderOK, LockOK, Locked, Set, Leave,
       TypeOK, Row
<1>8. NothingLost'
  BY <1>1 DEF RolledBack, NothingLost, Held
<1> QED
  BY <1>3, <1>4, <1>5, <1>6, <1>7, <1>8

\* A process that dies leaves what it has renamed.
LEMMA CrashStep ==
  ASSUME MigrationConstants, MigrationInv, NEW m \in Migrator, Crash(m)
  PROVE  MigrationInv'
<1> USE DEF MigrationInv
<1>1. TypeOK /\ LockOK /\ HolderOK /\ SourceOK /\ CopyOK /\ NothingLost
  OBVIOUS
<1>2. /\ run'[m].step = "idle"
      /\ \A q \in Migrator : q # m => run'[q] = run[q]
      /\ run' \in [Migrator -> [step : Step, snapshot : SUBSET Fact, from : Graph \cup {None}]]
  BY <1>1, Leaves DEF Crash, Leave
<1>3. TypeOK'
  BY <1>1, <1>2 DEF Crash, TypeOK, Row, Set, Leave, Fault, MigrationConstants
<1>4. LockOK'
  BY <1>1, <1>2 DEF Crash, At, LockOK, Locked, Leave, TypeOK, MigrationConstants
<1>5. HolderOK'
  BY ZenonT(60), <1>1, <1>2 DEF Crash, At, HolderOK, LockOK, Locked, Set, Leave, TypeOK, Row
<1>6. SourceOK'
  BY <1>1, <1>2 DEF Crash, At, SourceOK, HolderOK, Early, Read, Held, Set, TypeOK, Row
<1>7. CopyOK'
  BY <1>1, <1>2 DEF Crash, At, CopyOK, Good, HolderOK, LockOK, Locked, Set, Leave,
       TypeOK, Row
<1>8. NothingLost'
  BY <1>1 DEF Crash, NothingLost, Held
<1> QED
  BY <1>3, <1>4, <1>5, <1>6, <1>7, <1>8

-----------------------------------------------------------------------------
\* Every step keeps the invariant.
LEMMA InvNext == ASSUME MigrationConstants PROVE MigrationInv /\ [Next]_vars => MigrationInv'
<1> SUFFICES ASSUME MigrationInv, [Next]_vars PROVE MigrationInv'
  OBVIOUS
<1>1. CASE UNCHANGED vars
  BY <1>1 DEF vars, MigrationInv, TypeOK, LockOK, HolderOK, SourceOK, CopyOK,
       NothingLost, Early, Good, Held
<1>2. CASE Serve \/ Stop \/ \E f \in Fact : Write(f)
  BY <1>2, ServeStep, StopStep, WriteStep
<1>3. ASSUME NEW m \in Migrator,
             \/ Start(m) \/ Snapshot(m) \/ Fingerprint(m)
             \/ New(m) \/ Resume(m) \/ Recover(m) \/ Refuse(m)
             \/ Create(m) \/ Load(m) \/ BuildFails(m) \/ Validate(m)
             \/ Promote(m) \/ MoveAside(m) \/ Swap(m) \/ SwapFails(m) \/ Finish(m)
             \/ RollBack(m) \/ Displace(m) \/ Restore(m) \/ RolledBack(m)
             \/ Crash(m)
      PROVE  MigrationInv'
  BY <1>3, StartStep, SnapshotStep, FingerprintStep, NewStep, ResumeStep, RecoverStep,
       RefuseStep,
     CreateStep, LoadStep, BuildFailsStep, ValidateStep, PromoteStep, MoveAsideStep, SwapStep,
     SwapFailsStep, FinishStep, RollBackStep, DisplaceStep, RestoreStep, RolledBackStep, CrashStep
<1> QED
  BY <1>1, <1>2, <1>3 DEF Next

\* Every reachable artifact, journal row and process is well typed.
THEOREM MigrationTypeCorrect == ASSUME MigrationConstants PROVE Spec => []TypeOK
<1>1. MigrationInv => TypeOK
  BY DEF MigrationInv
<1> QED
  BY <1>1, InvInit, InvNext, PTL DEF Spec

\* No interleaving of tools, servers, crashes and errors loses a fact of the
\* graph, or lets a server serve a graph that lacks what was stored.
THEOREM MigrationKeepsGraph == ASSUME MigrationConstants PROVE Spec => []GraphIsKept
  BY InvInit, InvNext, InvKeeps, PTL DEF Spec
=============================================================================
