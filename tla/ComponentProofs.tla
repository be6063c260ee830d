------------------------- MODULE ComponentProofs -------------------------
(***************************************************************************)
(* What is proved of the components of Components, each from an inductive  *)
(* invariant of its own.  Parted carries a step of the composition to the  *)
(* step of the component, so that an invariant of the component is one of  *)
(* the composition.                                                        *)
(***************************************************************************)
EXTENDS Components, TLAPS, WellFoundedInduction, FiniteSetTheorems, SequenceTheorems

(* A step of the composition is a step of each component, or leaves it alone. *)
LEMMA Parted ==
  ASSUME [Next]_vars
  PROVE  /\ [Tables!Next]_(Tables!vars)
         /\ [Wal!Next]_(Wal!vars)
         /\ [Store!Next]_(Store!vars)
         /\ [Walk!Next]_(Walk!vars)
         /\ [Gateway!Next]_(Gateway!vars)
         /\ [Letters!Next]_(Letters!vars)
         /\ [Root!Next]_(Root!vars)
         /\ [Migration!Next]_(Migration!vars)
  <1> USE DEF Next, vars, queue, admission, identity, wal, legacy, retrieval, tables, store,
          walk, gateway, letters, root, migration, NextQueue, NextAdmission, NextIdentity,
          NextWal, NextLegacy, NextRetrieval, NextTables, NextStore, NextWalk, NextGateway,
          NextLetters, NextRoot, NextMigration, StillQueue, StillAdmission, StillIdentity,
          StillWal, StillLegacy, StillRetrieval, StillTables, StillStore, StillWalk,
          StillGateway, StillLetters, StillRoot, StillMigration
  <1>1. [Tables!Next]_(Tables!vars) BY SMTT(60) DEF Tables!vars
  <1>2. [Wal!Next]_(Wal!vars) BY SMTT(60) DEF Wal!vars
  <1>3. [Store!Next]_(Store!vars) BY SMTT(60) DEF Store!vars, Store!caches
  <1>4. [Walk!Next]_(Walk!vars) BY SMTT(60) DEF Walk!vars
  <1>5. [Gateway!Next]_(Gateway!vars) BY SMTT(60) DEF Gateway!vars
  <1>6. [Letters!Next]_(Letters!vars) BY SMTT(60) DEF Letters!vars
  <1>7. [Root!Next]_(Root!vars) BY SMTT(60) DEF Root!vars
  <1>8. [Migration!Next]_(Migration!vars) BY SMTT(60) DEF Migration!vars
  <1> QED BY <1>1, <1>2, <1>3, <1>4, <1>5, <1>6, <1>7, <1>8

TableRow == [rows: SUBSET Vector, space: Int]
TablesShape == /\ tMain \in TableRow /\ tBackup \in TableRow /\ tNew \in TableRow
               /\ tBegan \in TableRow /\ tKept \in SUBSET Vector
BeforePromotion == {"idle", "copy", "transform", "verify", "drop_backup", "drop_active",
                    "rollback", "drop_new", "done"}
MainIsKept == tAlign \in BeforePromotion => tMain.rows = tKept
NewIsKept == tAlign \in {"verify", "drop_backup", "drop_active", "rename"} => tNew.rows = tKept
BeganIsKept == tAlign # "idle" => tBegan.rows = tKept
TablesInv == /\ TablesShape
             /\ tAlign \in BeforePromotion \cup {"rename"}
             /\ ~tExposed => MainIsKept /\ NewIsKept /\ BeganIsKept

(* No vector has been written before the first open (vector_engine.py:345-354). *)
LEMMA TablesInit == Tables!Init => TablesInv
  BY DEF Tables!Init, Tables!Absent, TablesInv, TablesShape, TableRow, MainIsKept, NewIsKept,
         BeganIsKept, BeforePromotion

(* Writes, alignments, their rollbacks and crashes keep the vectors of the table
   (vector_engine.py:1240-1679). *)
LEMMA TablesStep ==
  ASSUME TablesInv, [Tables!Next]_(Tables!vars) PROVE TablesInv'
  <1> USE DEF TablesInv, TablesShape, TableRow, MainIsKept, NewIsKept, BeganIsKept, BeforePromotion
  <1>1. ASSUME NEW n \in Vector, Tables!Upsert(n) PROVE TablesInv'
    BY <1>1 DEF Tables!Upsert, Tables!Locked, Tables!Opened, Tables!There, Tables!Absent, Tables!Empty
  <1>2. ASSUME NEW n \in Vector, Tables!HardDelete(n) PROVE TablesInv'
    BY <1>2 DEF Tables!HardDelete, Tables!Locked, Tables!Without
  <1>3. CASE Tables!Search
    BY <1>3 DEF Tables!Search, Tables!Opened, Tables!There, Tables!Absent, Tables!Empty
  <1>4. CASE Tables!Crash
    BY <1>4 DEF Tables!Crash, Tables!To
  <1>5. CASE Tables!Align
    BY <1>5 DEF Tables!Align, Tables!Locked, Tables!To
  <1>6. CASE Tables!Copy
    BY <1>6 DEF Tables!Copy, Tables!To, Tables!Absent
  <1>7. CASE Tables!Transform
    BY <1>7 DEF Tables!Transform, Tables!To, Tables!Absent, Tables!Rotated
  <1>8. CASE Tables!Verify
    BY <1>8 DEF Tables!Verify, Tables!To
  <1>9. CASE Tables!DropBackup
    BY <1>9 DEF Tables!DropBackup, Tables!To, Tables!Absent
  <1>10. CASE Tables!DropActive
    BY <1>10 DEF Tables!DropActive, Tables!To, Tables!Absent
  <1>11. CASE Tables!Rename
    BY <1>11 DEF Tables!Rename, Tables!To, Tables!Absent
  <1>12. CASE Tables!CopyBack
    BY <1>12 DEF Tables!CopyBack, Tables!To, Tables!Absent
  <1>13. CASE Tables!DropNew
    BY <1>13 DEF Tables!DropNew, Tables!To, Tables!Absent
  <1>14. CASE Tables!Promoted
    BY <1>14 DEF Tables!Promoted, Tables!To
  <1>15. CASE Tables!RollBack
    BY <1>15 DEF Tables!RollBack, Tables!CopiesDropped, Tables!To, Tables!Absent
  <1>16. CASE UNCHANGED Tables!vars
    BY <1>16 DEF Tables!vars
  <1> QED
    BY <1>1, <1>2, <1>3, <1>4, <1>5, <1>6, <1>7, <1>8, <1>9, <1>10, <1>11, <1>12, <1>13, <1>14,
       <1>15, <1>16 DEF Tables!Next, Tables!Alignment

(* An alignment of the vector table that nobody else writes beside loses no vector:
   the copies are verified before the original is dropped (vector_engine.py:1240-1679). *)
THEOREM VectorsStay == Spec => []VectorsSurvive
  <1>1. Init => TablesInv
    BY TablesInit DEF Init
  <1>2. TablesInv /\ [Next]_vars => TablesInv'
    BY Parted, TablesStep
  <1>3. TablesInv => VectorsSurvive
    BY DEF TablesInv, MainIsKept, VectorsSurvive, Tables!VectorsSurvive, BeforePromotion
  <1> QED BY <1>1, <1>2, <1>3, PTL DEF Spec

-----------------------------------------------------------------------------
(* The write-ahead log of the vector store (VectorWal). *)

WalRow == [st: Wal!WalState, epoch: Nat, n: Nat, live: BOOLEAN, vec: BOOLEAN, graph: BOOLEAN]
InStores(e) == e \in wVec /\ (WithGraph => e \in wGraph)
SettledStored == \A e \in Entry :
    wRow[e].st \in {"RECONCILED", "ACKED"} => e \in wErased \/ InStores(e)
WalInv == wRow \in [Entry -> WalRow] /\ SettledStored

(* No entry is in the log at first (dao.py:10526-10540). *)
LEMMA WalInit == Wal!Init => WalInv
  BY DEF Wal!Init, Wal!NoRow, WalInv, WalRow, SettledStored, InStores, Wal!WalState

(* A row that gives its claim back is a row in its new state (dao.py:10596-10608). *)
LEMMA Released ==
  ASSUME NEW r \in WalRow, NEW s \in Wal!WalState
  PROVE  /\ [r EXCEPT !.st = s, !.live = FALSE] \in WalRow
         /\ [r EXCEPT !.st = s, !.live = FALSE].st = s
  BY DEF WalRow

\* What a step may do to a row and keep it stored: set any field but the state, or
\* leave the two settled states.
LEMMA Unsettled ==
  ASSUME WalInv, NEW e, NEW r \in WalRow, r.st \notin {"RECONCILED", "ACKED"} \/ r.st = wRow[e].st,
         wRow' = [wRow EXCEPT ![e] = r], wVec \subseteq wVec', wGraph \subseteq wGraph',
         wErased' = wErased
  PROVE  WalInv'
  <1>1. wRow' \in [Entry -> WalRow]
    BY DEF WalInv
  <1>2. ASSUME NEW x \in Entry, wRow'[x].st \in {"RECONCILED", "ACKED"}
        PROVE  x \in wErased' \/ InStores(x)'
    BY <1>2 DEF WalInv, SettledStored, InStores
  <1> QED BY <1>1, <1>2 DEF WalInv, SettledStored

(* A step that leaves the rows alone and only adds to the stores keeps them stored
   (dao.py:10757-10818). *)
LEMMA SameRows ==
  ASSUME WalInv, wRow' = wRow, wVec \subseteq wVec', wGraph \subseteq wGraph', wErased' = wErased
  PROVE  WalInv'
  BY DEF WalInv, SettledStored, InStores

(* Claims, replays, retries, reconciliations and restarts keep what is settled stored
   (dao.py:10526-10828). *)
LEMMA WalStep ==
  ASSUME WalInv, [Wal!Next]_(Wal!vars) PROVE WalInv'
  <1>1. ASSUME NEW e \in Entry, Wal!Queue(e) PROVE WalInv'
    <2>1. [wRow[e] EXCEPT !.st = "PENDING"] \in WalRow
      BY DEF WalInv, WalRow, Wal!WalState
    <2>2. wRow' = [wRow EXCEPT ![e] = [wRow[e] EXCEPT !.st = "PENDING"]]
      BY <1>1 DEF Wal!Queue
    <2> QED BY <1>1, <2>1, <2>2, Unsettled DEF Wal!Queue, WalRow
  <1>2. ASSUME NEW e \in Entry, Wal!Expire(e) PROVE WalInv'
    <2>1. [wRow[e] EXCEPT !.live = FALSE] \in WalRow /\ wRow[e] \in WalRow
      BY DEF WalInv, WalRow
    <2>2. wRow' = [wRow EXCEPT ![e] = [wRow[e] EXCEPT !.live = FALSE]]
      BY <1>2 DEF Wal!Expire
    <2>3. [wRow[e] EXCEPT !.live = FALSE].st = wRow[e].st
      BY <2>1 DEF WalRow
    <2> QED BY <1>2, <2>1, <2>2, <2>3, Unsettled DEF Wal!Expire
  <1>3. ASSUME NEW e \in Entry, Wal!Erase(e) PROVE WalInv'
    BY <1>3 DEF Wal!Erase, WalInv, SettledStored, InStores
  <1>4. ASSUME Wal!Restart PROVE WalInv'
    BY <1>4 DEF Wal!Restart, WalInv, SettledStored, InStores, WalRow, Wal!WalState
  <1>5. ASSUME NEW r \in Process, Wal!Replay(r) PROVE WalInv'
    <2> DEFINE e == wJob[r].at
    <2>1. CASE Wal!Upsert(r) \/ Wal!InsertNode(r) \/ Wal!SkipVector(r) \/ Wal!SkipGraph(r)
               \/ Wal!AlignStart(r) \/ Wal!AlignEnd(r)
      BY <2>1, SameRows DEF Wal!Upsert, Wal!InsertNode, Wal!SkipVector, Wal!SkipGraph,
           Wal!AlignStart, Wal!AlignEnd
    <2>2. CASE Wal!RecordVector(r)
      <3>1. CASE e \in Entry /\ wRow' = [wRow EXCEPT ![e].vec = TRUE]
        <4>1. wRow[e] \in WalRow /\ [wRow[e] EXCEPT !.vec = TRUE] \in WalRow
          BY <3>1 DEF WalInv, WalRow
        <4> QED BY <2>2, <3>1, <4>1, Unsettled DEF Wal!RecordVector, WalRow
      <3>2. CASE ~(e \in Entry /\ wRow' = [wRow EXCEPT ![e].vec = TRUE])
        <4>1. wRow' = wRow
          BY <2>2, <3>2 DEF Wal!RecordVector, Wal!Entered, WalInv
        <4> QED BY <2>2, <4>1, SameRows DEF Wal!RecordVector
      <3> QED BY <3>1, <3>2
    <2>3. CASE Wal!RecordGraph(r)
      <3>1. CASE e \in Entry /\ wRow' = [wRow EXCEPT ![e].graph = TRUE]
        <4>1. wRow[e] \in WalRow /\ [wRow[e] EXCEPT !.graph = TRUE] \in WalRow
          BY <3>1 DEF WalInv, WalRow
        <4> QED BY <2>3, <3>1, <4>1, Unsettled DEF Wal!RecordGraph, WalRow
      <3>2. CASE ~(e \in Entry /\ wRow' = [wRow EXCEPT ![e].graph = TRUE])
        <4>1. wRow' = wRow
          BY <2>3, <3>2 DEF Wal!RecordGraph, Wal!Entered, WalInv
        <4> QED BY <2>3, <4>1, SameRows DEF Wal!RecordGraph
      <3> QED BY <3>1, <3>2
    <2>4. CASE Wal!Fail(r)
      <3> DEFINE s == IF wRow[e].n >= RetryLimit THEN "BLOCKED" ELSE "RETRY_PENDING"
      <3>1. wRow' = [wRow EXCEPT ![e].st = s, ![e].live = FALSE] \/ wRow' = wRow
        BY <2>4 DEF Wal!Fail, Wal!Failed, Wal!Retried, Wal!Entered
      <3>2. CASE e \in Entry /\ wRow' = [wRow EXCEPT ![e].st = s, ![e].live = FALSE]
        <4>1. /\ [wRow[e] EXCEPT !.st = s, !.live = FALSE] \in WalRow
              /\ [wRow[e] EXCEPT !.st = s, !.live = FALSE].st \notin {"RECONCILED", "ACKED"}
          <5>1. wRow[e] \in WalRow /\ s \in Wal!WalState /\ s \notin {"RECONCILED", "ACKED"}
            BY <3>2 DEF WalInv, Wal!WalState
          <5> HIDE DEF s, e
          <5> QED BY <5>1, Released
        <4>2. wRow' = [wRow EXCEPT ![e] = [wRow[e] EXCEPT !.st = s, !.live = FALSE]]
          BY <3>2 DEF WalInv
        <4> HIDE DEF s
        <4> QED BY <2>4, <4>1, <4>2, Unsettled DEF Wal!Fail, Wal!Failed
      <3>3. CASE ~(e \in Entry /\ wRow' = [wRow EXCEPT ![e].st = s, ![e].live = FALSE])
        <4>1. wRow' = wRow
          BY <3>1, <3>3 DEF WalInv
        <4> QED BY <2>4, <4>1, SameRows DEF Wal!Fail, Wal!Failed
      <3> QED BY <3>2, <3>3
    <2>5. CASE Wal!Reconcile(r)
      <3> DEFINE n == Wal!Reconciled(e)
                 Compared == wRow' = [wRow EXCEPT ![e] = n] /\ wErased' = wErased \ {e}
                 Refused == /\ wErased' = wErased
                            /\ wRow' = [wRow EXCEPT ![e].st = "RECONCILIATION_REQUIRED",
                                                    ![e].live = FALSE]
      <3>1. /\ wVec' = wVec /\ wGraph' = wGraph
            /\ Compared \/ Refused \/ (wRow' = wRow /\ wErased' = wErased)
        BY <2>5 DEF Wal!Reconcile, Wal!Entered
      <3>2. ASSUME Compared, e \in Entry PROVE WalInv'
        <4>1. n \in WalRow /\ (n.st \in {"RECONCILED", "ACKED"} => InStores(e))
          BY <3>2 DEF Wal!Reconciled, WalInv, WalRow, InStores, Wal!WalState, SettledStored
        <4> HIDE DEF n
        <4>2. wRow' \in [Entry -> WalRow]
          BY <3>2, <4>1 DEF WalInv
        <4>3. ASSUME NEW x \in Entry, wRow'[x].st \in {"RECONCILED", "ACKED"}
              PROVE  x \in wErased' \/ InStores(x)'
          BY <3>1, <3>2, <4>1, <4>3 DEF WalInv, SettledStored, InStores
        <4> QED BY <4>2, <4>3 DEF WalInv, SettledStored
      <3>3. ASSUME Compared, e \notin Entry PROVE WalInv'
        <4> HIDE DEF n
        <4>1. wRow' = wRow
          BY <3>3 DEF WalInv
        <4> QED BY <3>1, <3>3, <4>1 DEF WalInv, SettledStored, InStores
      <3>4. ASSUME Refused, e \in Entry PROVE WalInv'
        <4> DEFINE q == [wRow[e] EXCEPT !.st = "RECONCILIATION_REQUIRED", !.live = FALSE]
        <4>1. q \in WalRow /\ q.st \notin {"RECONCILED", "ACKED"}
          <5>1. wRow[e] \in WalRow /\ "RECONCILIATION_REQUIRED" \in Wal!WalState
            BY <3>4 DEF WalInv, Wal!WalState
          <5> QED BY <5>1, Released
        <4>2. wRow' = [wRow EXCEPT ![e] = q]
          BY <3>4 DEF WalInv
        <4> HIDE DEF q
        <4> QED BY <3>1, <3>4, <4>1, <4>2, Unsettled
      <3>5. ASSUME Refused, e \notin Entry PROVE WalInv'
        <4>1. wRow' = wRow
          BY <3>5 DEF WalInv
        <4> QED BY <3>1, <3>5, <4>1, SameRows
      <3>6. ASSUME wRow' = wRow /\ wErased' = wErased PROVE WalInv'
        BY <3>1, <3>6, SameRows
      <3> HIDE DEF Compared, Refused
      <3> QED BY <3>1, <3>2, <3>3, <3>4, <3>5, <3>6
    <2>6. CASE Wal!Ack(r)
      <3>1. \/ wRow[e].st = "RECONCILED" /\ wRow' = [wRow EXCEPT ![e].st = "ACKED", ![e].live = FALSE]
            \/ wRow' = wRow
        BY <2>6 DEF Wal!Ack, Wal!Entered
      <3>2. wVec' = wVec /\ wGraph' = wGraph /\ wErased' = wErased
        BY <2>6 DEF Wal!Ack
      <3>3. wRow' \in [Entry -> WalRow]
        BY <3>1 DEF WalInv, WalRow, Wal!WalState
      <3>4. ASSUME NEW x \in Entry, wRow'[x].st \in {"RECONCILED", "ACKED"}
            PROVE  x \in wErased \/ InStores(x)
        BY <3>1, <3>4 DEF WalInv, SettledStored, WalRow
      <3> QED BY <3>2, <3>3, <3>4 DEF WalInv, SettledStored, InStores
    <2>7. CASE Wal!Switched(r)
      <3> DEFINE batch == {x \in Entry : Wal!Claimable(x)}
                 Owned(x) == [wRow[x] EXCEPT !.st = "CLAIMED", !.epoch = @ + 1, !.n = @ + 1, !.live = TRUE]
      <3>1. /\ wRow' = [x \in Entry |-> IF x \in batch THEN Owned(x) ELSE wRow[x]]
            /\ wVec' = wVec /\ wGraph' = wGraph /\ wErased' = wErased
        BY <2>7 DEF Wal!Switched
      <3>2. ASSUME NEW x \in Entry PROVE Owned(x) \in WalRow /\ Owned(x).st = "CLAIMED"
        <4>1. wRow[x] \in WalRow
          BY DEF WalInv
        <4>2. "CLAIMED" \in Wal!WalState
          BY DEF Wal!WalState
        <4>3. wRow[x].epoch + 1 \in Nat /\ wRow[x].n + 1 \in Nat
          BY <4>1 DEF WalRow
        <4>4. Owned(x) = [wRow[x] EXCEPT !.st = "CLAIMED", !.epoch = wRow[x].epoch + 1,
                                         !.n = wRow[x].n + 1, !.live = TRUE]
          BY <4>1 DEF WalRow
        <4>5. Owned(x).st = "CLAIMED"
          BY <4>1, <4>4 DEF WalRow
        <4>6. Owned(x) \in WalRow
          <5> HIDE DEF Owned
          <5> QED BY <4>1, <4>2, <4>3, <4>4 DEF WalRow
        <4> QED BY <4>5, <4>6
      <3> HIDE DEF Owned, batch
      <3>3. wRow' \in [Entry -> WalRow]
        BY <3>1, <3>2 DEF WalInv
      <3>4. ASSUME NEW x \in Entry, wRow'[x].st \in {"RECONCILED", "ACKED"}
            PROVE  x \in wErased' \/ InStores(x)'
        <4>1. x \notin batch
          BY <3>1, <3>2, <3>4
        <4> QED BY <3>1, <3>4, <4>1 DEF WalInv, SettledStored, InStores
      <3> QED BY <3>3, <3>4 DEF WalInv, SettledStored
    <2> QED BY <1>5, <2>1, <2>2, <2>3, <2>4, <2>5, <2>6, <2>7 DEF Wal!Replay
  <1>6. ASSUME NEW r \in Process, NEW e \in Entry, Wal!Take(r, e) PROVE WalInv'
    BY <1>6, SameRows DEF Wal!Take
  <1>7. CASE UNCHANGED Wal!vars
    BY <1>7, SameRows DEF Wal!vars
  <1> QED BY <1>1, <1>2, <1>3, <1>4, <1>5, <1>6, <1>7 DEF Wal!Next

(* An entry of the write-ahead log that reads ACKED is in the vector store, and in the
   graph when it has one, or its memory has been erased since (dao.py:10526-10828). *)
THEOREM AckedStays == Spec => []AckedIsStored
  <1>1. Init => WalInv
    BY WalInit DEF Init
  <1>2. WalInv /\ [Next]_vars => WalInv'
    BY Parted, WalStep
  <1>3. WalInv => AckedIsStored
    BY DEF WalInv, SettledStored, InStores, AckedIsStored, Wal!AckedIsStored
  <1> QED BY <1>1, <1>2, <1>3, PTL DEF Spec

-----------------------------------------------------------------------------
(* The graph store (GraphStore). *)

IsGraph(g) == g \in [nodes: {g.nodes}, facts: {g.facts}]
WholeGraph(g) == \A a \in g.facts : Store!Ends(a) \subseteq g.nodes
TaskShape == gTask \in [step: {gTask.step}, a: {gTask.a}, tx: BOOLEAN, todo: {gTask.todo},
                        e: {gTask.e}, found: {gTask.found}]
Writing == gTask.step \in {"nodes", "record", "commit"}
StoreShape == /\ IsGraph(gDisk) /\ IsGraph(gWork) /\ TaskShape
              /\ gOpen \in BOOLEAN /\ gUp \in BOOLEAN /\ gOperational \in BOOLEAN
\* What the connection sees and what is on disk differ only in a transaction, which
\* only a projection opens.
Isolated == /\ ~gOpen => gWork = gDisk
            /\ gUp /\ ~gTask.tx => ~gOpen
            /\ gTask.tx => gTask.a # None
            /\ gTask.step = "idle" => ~gTask.tx
            /\ gTask.step = "rollback" => gTask.tx
\* A key vouches for a node of the disk, which no open transaction has deleted; a
\* staged key for one that the transaction wrote.
Vouched == /\ gUp => gKnownN \subseteq gDisk.nodes \cap gWork.nodes
           /\ ~gTask.tx => gStagedN = {}
           /\ gUp /\ Writing => gStagedN \subseteq gWork.nodes
\* Between the statements of a deletion.
Detached == gUp =>
    /\ gTask.step \in {"objects", "node"} => \A a \in gWork.facts : SubjectOf[a] # gTask.e
    /\ gTask.step = "node" => \A a \in gWork.facts : ObjectOf[a] # gTask.e
StoreInv == /\ StoreShape /\ Isolated /\ Vouched /\ Detached
            /\ WholeGraph(gDisk) /\ WholeGraph(gWork)

(* The graph is empty at first (kuzu_provider.py:236-275). *)
LEMMA StoreInit == Store!Init => StoreInv
  <1> SUFFICES ASSUME Store!Init PROVE StoreInv
    OBVIOUS
  <1> USE DEF Store!Init, Store!Empty, Store!NoTask
  <1>1. StoreShape
    BY DEF StoreShape, TaskShape, IsGraph
  <1>2. Isolated /\ Vouched /\ Detached
    BY DEF Isolated, Vouched, Writing, Detached
  <1>3. WholeGraph(gDisk) /\ WholeGraph(gWork)
    BY SMTT(60) DEF WholeGraph
  <1> QED BY <1>1, <1>2, <1>3 DEF StoreInv

(* Every statement of a projection or of a cleanup, its failure, its compensation, and
   a close and start of the provider keep the invariant (kuzu_provider.py:554-922). *)
LEMMA StoreStep ==
  ASSUME None \notin Triple, StoreInv, [Store!Next]_(Store!vars) PROVE StoreInv'
  <1> USE DEF StoreInv, StoreShape, TaskShape, Isolated, Vouched, Detached, Writing, WholeGraph, IsGraph
  <1>1. ASSUME NEW a \in Triple, Store!Begin(a) PROVE StoreInv'
    BY <1>1 DEF Store!Begin, Store!At, Store!NoTask, Store!caches
  <1>2. ASSUME NEW a \in Triple, Store!Forget(a) PROVE StoreInv'
    BY <1>2 DEF Store!Forget, Store!At, Store!Write
  <1>3. ASSUME NEW e \in Node, Store!Clean(e) PROVE StoreInv'
    BY <1>3 DEF Store!Clean, Store!At, Store!NoTask, Store!Silent, Store!caches
  <1>4. CASE Store!InsertNode
    <2>1. StoreShape'
      BY <1>4 DEF Store!InsertNode, Store!At, Store!Silent, Store!Write, Store!Remember
    <2>2. Isolated'
      BY <1>4 DEF Store!InsertNode, Store!At, Store!Silent, Store!Write, Store!Remember
    <2>3. Vouched'
      BY <1>4 DEF Store!InsertNode, Store!At, Store!Silent, Store!Write, Store!Remember
    <2>4. Detached'
      BY <1>4 DEF Store!InsertNode, Store!At, Store!Silent, Store!Write, Store!Remember
    <2>5. WholeGraph(gDisk)'
      BY <1>4 DEF Store!InsertNode, Store!At, Store!Silent, Store!Write, Store!Remember
    <2>6. WholeGraph(gWork)'
      BY <1>4 DEF Store!InsertNode, Store!At, Store!Silent, Store!Write, Store!Remember
    <2> HIDE DEF StoreShape, TaskShape, Isolated, Vouched, Detached, Writing, WholeGraph, IsGraph
    <2> QED BY <2>1, <2>2, <2>3, <2>4, <2>5, <2>6
  <1>5. CASE Store!InsertAssertion
    <2>1. StoreShape'
      BY <1>5 DEF Store!InsertAssertion, Store!At, Store!Silent, Store!Write, Store!Go
    <2>2. Isolated'
      <3>1. /\ gTask'.step = "record" /\ gTask'.a = gTask.a /\ gTask'.tx = gTask.tx
            /\ gOpen' = gOpen /\ gUp' = gUp
        BY <1>5 DEF Store!InsertAssertion, Store!At, Store!Silent, Store!Write, Store!Go
      <3>2. ~gOpen => gWork' = gDisk'
        <4>1. (\E g : Store!Write(g)) \/ Store!Silent
          BY <1>5 DEF Store!InsertAssertion
        <4> QED BY <4>1 DEF Store!Silent, Store!Write
      <3> QED BY <3>1, <3>2
    <2>3. Vouched'
      BY <1>5 DEF Store!InsertAssertion, Store!At, Store!Silent, Store!Write, Store!Go
    <2>4. Detached'
      BY <1>5 DEF Store!InsertAssertion, Store!At, Store!Silent, Store!Write, Store!Go
    <2>5. WholeGraph(gDisk)'
      BY <1>5 DEF Store!InsertAssertion, Store!At, Store!Silent, Store!Write, Store!Go
    <2>6. WholeGraph(gWork)'
      BY <1>5 DEF Store!InsertAssertion, Store!At, Store!Silent, Store!Write, Store!Go
    <2> HIDE DEF StoreShape, TaskShape, Isolated, Vouched, Detached, Writing, WholeGraph, IsGraph
    <2> QED BY <2>1, <2>2, <2>3, <2>4, <2>5, <2>6
  <1>6. CASE Store!InsertFails
    BY <1>6 DEF Store!InsertFails, Store!At, Store!Broken, Store!Go, Store!caches
  <1>7. CASE Store!RecordArtifact
    BY <1>7 DEF Store!RecordArtifact, Store!At, Store!Silent, Store!Go, Store!caches
  <1>8. CASE Store!Commit
    BY <1>8 DEF Store!Commit, Store!At, Store!NoTask
  <1>9. CASE Store!CommitFails
    <2>1. StoreShape'
      BY <1>9 DEF Store!CommitFails, Store!At, Store!Broken, Store!Go, Store!caches
    <2>2. Isolated'
      BY <1>9 DEF Store!CommitFails, Store!At, Store!Broken, Store!Go, Store!caches
    <2>3. Vouched'
      BY <1>9 DEF Store!CommitFails, Store!At, Store!Broken, Store!Go, Store!caches
    <2>4. Detached'
      BY <1>9 DEF Store!CommitFails, Store!At, Store!Broken, Store!Go, Store!caches
    <2>5. WholeGraph(gDisk)'
      BY <1>9 DEF Store!CommitFails, Store!At, Store!Broken, Store!Go, Store!caches
    <2>6. WholeGraph(gWork)'
      BY <1>9 DEF Store!CommitFails, Store!At, Store!Broken, Store!Go, Store!caches
    <2> HIDE DEF StoreShape, TaskShape, Isolated, Vouched, Detached, Writing, WholeGraph, IsGraph
    <2> QED BY <2>1, <2>2, <2>3, <2>4, <2>5, <2>6
  <1>10. CASE Store!Compensate
    <2>1. StoreShape'
      BY <1>10 DEF Store!Compensate, Store!At, Store!Write, Store!Broken
    <2>2. Isolated'
      BY <1>10 DEF Store!Compensate, Store!At, Store!Write, Store!Broken
    <2>3. Vouched'
      BY <1>10 DEF Store!Compensate, Store!At, Store!Write, Store!Broken
    <2>4. Detached'
      BY <1>10 DEF Store!Compensate, Store!At, Store!Write, Store!Broken
    <2>5. WholeGraph(gDisk)'
      BY <1>10 DEF Store!Compensate, Store!At, Store!Write, Store!Broken
    <2>6. WholeGraph(gWork)'
      BY <1>10 DEF Store!Compensate, Store!At, Store!Write, Store!Broken
    <2> HIDE DEF StoreShape, TaskShape, Isolated, Vouched, Detached, Writing, WholeGraph, IsGraph
    <2> QED BY <2>1, <2>2, <2>3, <2>4, <2>5, <2>6
  <1>11. CASE Store!RollBack
    BY <1>11 DEF Store!RollBack, Store!At, Store!NoTask
  <1>12. CASE Store!Attached
    <2>1. StoreShape'
      BY <1>12 DEF Store!Attached, Store!At, Store!Silent, Store!Broken, Store!caches
    <2>2. Isolated'
      <3>1. gTask'.step = "subjects" /\ gTask'.a = gTask.a /\ gTask'.tx = gTask.tx
        BY <1>12 DEF Store!Attached, Store!At
      <3>2. gUp' = gUp /\ (~gOpen => ~gOpen') /\ (~gOpen' => gWork' = gDisk')
        BY <1>12 DEF Store!Attached, Store!Silent, Store!Broken
      <3> QED BY <3>1, <3>2
    <2>3. Vouched'
      <3>1. /\ gTask'.step = "subjects" /\ gTask'.tx = gTask.tx
            /\ gKnownN' = gKnownN /\ gStagedN' = gStagedN
        BY <1>12 DEF Store!Attached, Store!At, Store!caches
      <3>2. gUp' = gUp /\ gDisk' = gDisk /\ gWork' \in {gWork, gDisk}
        BY <1>12 DEF Store!Attached, Store!Silent, Store!Broken
      <3> QED BY <3>1, <3>2
    <2>4. Detached'
      BY <1>12 DEF Store!Attached, Store!At, Store!Silent, Store!Broken, Store!caches
    <2>5. WholeGraph(gDisk)'
      BY <1>12 DEF Store!Attached, Store!At, Store!Silent, Store!Broken, Store!caches
    <2>6. WholeGraph(gWork)'
      BY <1>12 DEF Store!Attached, Store!At, Store!Silent, Store!Broken, Store!caches
    <2> HIDE DEF StoreShape, TaskShape, Isolated, Vouched, Detached, Writing, WholeGraph, IsGraph
    <2> QED BY <2>1, <2>2, <2>3, <2>4, <2>5, <2>6
  <1>13. CASE Store!DeleteAttached
    BY <1>13 DEF Store!DeleteAttached, Store!At, Store!Write, Store!Go, Store!caches
  <1>14. CASE Store!DeleteNode
    BY <1>14 DEF Store!DeleteNode, Store!At, Store!Write, Store!Go, Store!Ends
  <1>15. CASE Store!DeleteFails
    <2>1. StoreShape'
      <3>1. gTask' = Store!NoTask \/ gTask' = [gTask EXCEPT !.step = "drop"]
        BY <1>15 DEF Store!DeleteFails, Store!Go
      <3>2. TaskShape'
        <4>1. CASE gTask' = Store!NoTask
          BY <4>1 DEF Store!NoTask
        <4>2. CASE gTask' # Store!NoTask
          BY <3>1, <4>2
        <4> QED BY <4>1, <4>2
      <3>3. /\ IsGraph(gDisk)' /\ IsGraph(gWork)'
            /\ gOpen' \in BOOLEAN /\ gUp' \in BOOLEAN /\ gOperational' \in BOOLEAN
        BY <1>15 DEF Store!DeleteFails, Store!At, Store!Broken, Store!Go, Store!caches, Store!NoTask
      <3> QED BY <3>2, <3>3
    <2>2. Isolated'
      BY <1>15 DEF Store!DeleteFails, Store!At, Store!Broken, Store!Go, Store!caches, Store!NoTask
    <2>3. Vouched'
      BY <1>15 DEF Store!DeleteFails, Store!At, Store!Broken, Store!Go, Store!caches, Store!NoTask
    <2>4. Detached'
      BY <1>15 DEF Store!DeleteFails, Store!At, Store!Broken, Store!Go, Store!caches, Store!NoTask
    <2>5. WholeGraph(gDisk)'
      BY <1>15 DEF Store!DeleteFails, Store!At, Store!Broken, Store!Go, Store!caches, Store!NoTask
    <2>6. WholeGraph(gWork)'
      BY <1>15 DEF Store!DeleteFails, Store!At, Store!Broken, Store!Go, Store!caches, Store!NoTask
    <2> HIDE DEF StoreShape, TaskShape, Isolated, Vouched, Detached, Writing, WholeGraph, IsGraph
    <2> QED BY <2>1, <2>2, <2>3, <2>4, <2>5, <2>6
  <1>16. CASE Store!DropDone
    <2>1. StoreShape'
      <3>1. gTask' = Store!NoTask \/ gTask' = [gTask EXCEPT !.step = "rollback"]
        BY <1>16 DEF Store!DropDone, Store!Go
      <3>2. TaskShape'
        <4>1. CASE gTask' = Store!NoTask
          BY <4>1 DEF Store!NoTask
        <4>2. CASE gTask' # Store!NoTask
          BY <3>1, <4>2
        <4> QED BY <4>1, <4>2
      <3>3. /\ IsGraph(gDisk)' /\ IsGraph(gWork)'
            /\ gOpen' \in BOOLEAN /\ gUp' \in BOOLEAN /\ gOperational' \in BOOLEAN
        BY <1>16 DEF Store!DropDone, Store!At, Store!Silent, Store!Go, Store!caches, Store!NoTask
      <3> QED BY <3>2, <3>3
    <2>2. Isolated'
      BY <1>16 DEF Store!DropDone, Store!At, Store!Silent, Store!Go, Store!caches, Store!NoTask
    <2>3. Vouched'
      BY <1>16 DEF Store!DropDone, Store!At, Store!Silent, Store!Go, Store!caches, Store!NoTask
    <2>4. Detached'
      BY <1>16 DEF Store!DropDone, Store!At, Store!Silent, Store!Go, Store!caches, Store!NoTask
    <2>5. WholeGraph(gDisk)'
      BY <1>16 DEF Store!DropDone, Store!At, Store!Silent, Store!Go, Store!caches, Store!NoTask
    <2>6. WholeGraph(gWork)'
      BY <1>16 DEF Store!DropDone, Store!At, Store!Silent, Store!Go, Store!caches, Store!NoTask
    <2> HIDE DEF StoreShape, TaskShape, Isolated, Vouched, Detached, Writing, WholeGraph, IsGraph
    <2> QED BY <2>1, <2>2, <2>3, <2>4, <2>5, <2>6
  <1>17. CASE Store!Judge
    BY <1>17 DEF Store!Judge, Store!caches
  <1>18. CASE Store!Close
    BY <1>18 DEF Store!Close, Store!caches
  <1>19. CASE Store!SyncClose
    BY <1>19 DEF Store!SyncClose
  <1>20. CASE Store!Start
    BY <1>20 DEF Store!Start, Store!NoTask
  <1>21. CASE UNCHANGED Store!vars
    BY <1>21 DEF Store!vars, Store!caches
  <1> QED
    BY <1>1, <1>2, <1>3, <1>4, <1>5, <1>6, <1>7, <1>8, <1>9, <1>10, <1>11, <1>12, <1>13, <1>14,
       <1>15, <1>16, <1>17, <1>18, <1>19, <1>20, <1>21 DEF Store!Next

(* An assertion of the graph has its entities, on disk and for the connection that
   reads it, whatever fails between the statements of a projection or of a cleanup
   (kuzu_provider.py:432-900). *)
THEOREM GraphStays == Spec => []GraphIsWhole
  <1>1. Init => StoreInv
    BY StoreInit DEF Init
  <1>2. StoreInv /\ [Next]_vars => StoreInv'
    BY Parted, StoreStep, ComponentsAssumption
  <1>3. StoreInv => GraphIsWhole
    BY DEF StoreInv, WholeGraph, Vouched, GraphIsWhole, Store!GraphIsWhole
  <1> QED BY <1>1, <1>2, <1>3, PTL DEF Spec

-----------------------------------------------------------------------------
(* The migration of the graph (GraphMigration). *)

(* GraphMigration as MigrationProofs has it: the same definitions. *)
Kept == INSTANCE MigrationProofs WITH
    Tool <- Process, FaultLimit <- MigrationFaults,
    disk <- fDisk, journal <- fJournal, lock <- fLock, run <- fRun, serving <-
    fServing, stored <- fStored, unread <- fUnread, faults <- fFaults

(* The migration starts as in MigrationProofs. *)
LEMMA SameStart == Migration!Init <=> Kept!Init
  BY Zenon DEF 
      Migration!Migrator, Kept!Migrator, Migration!Path, Kept!Path, Migration!Idle,
      Kept!Idle, Migration!NoRow, Kept!NoRow, Migration!Init, Kept!Init

(* It takes the same steps. *)
LEMMA SameSteps == Migration!Next <=> Kept!Next
  BY Zenon DEF 
      Migration!Migrator, Kept!Migrator, Migration!Idle, Kept!Idle, Migration!Fault,
      Kept!Fault, Migration!Exists, Kept!Exists, Migration!At, Kept!At, Migration!To,
      Kept!To, Migration!Set, Kept!Set, Migration!Promoted, Kept!Promoted, Migration!Leave,
      Kept!Leave, Migration!Serve, Kept!Serve, Migration!Start, Kept!Start, Migration!Facts,
      Kept!Facts, Migration!Snapshot, Kept!Snapshot, Migration!Fingerprint,
      Kept!Fingerprint, Migration!Enter, Kept!Enter, Migration!Matches, Kept!Matches,
      Migration!New, Kept!New, Migration!Resume, Kept!Resume, Migration!Swapped,
      Kept!Swapped, Migration!HalfSwapped, Kept!HalfSwapped, Migration!Recover,
      Kept!Recover, Migration!Resumable, Kept!Resumable, Migration!Refuse, Kept!Refuse,
      Migration!Create, Kept!Create, Migration!Load, Kept!Load, Migration!BuildFails,
      Kept!BuildFails, Migration!Valid, Kept!Valid, Migration!Validate, Kept!Validate,
      Migration!Promote, Kept!Promote, Migration!Aside, Kept!Aside, Migration!MoveAside,
      Kept!MoveAside, Migration!Swap, Kept!Swap, Migration!SwapFails, Kept!SwapFails,
      Migration!Finish, Kept!Finish, Migration!RollBack, Kept!RollBack, Migration!Displace,
      Kept!Displace, Migration!Restore, Kept!Restore, Migration!RolledBack, Kept!RolledBack,
      Migration!Write, Kept!Write, Migration!Stop, Kept!Stop, Migration!Crash, Kept!Crash,
      Migration!Next, Kept!Next

(* And its property says the same. *)
LEMMA SameMeaning == Migration!GraphIsKept <=> Kept!GraphIsKept
  BY Zenon DEF 
      Migration!Exists, Kept!Exists, Migration!Holds, Kept!Holds, Migration!GraphIsKept,
      Kept!GraphIsKept

(* The constants of this instance are what the proofs of MigrationProofs ask for. *)
LEMMA MigrationSetting == Kept!MigrationConstants
  BY ComponentsAssumption DEF Kept!MigrationConstants, Kept!Graph, Kept!Migrator

(* Whatever step of a migration fails, and whoever resumes or rolls it back, the facts
   of the graph are at one of its paths, and a server serves all of those that no read
   error hid (kuzu_migration.py:85-421, kuzu_schema_migration.py:45-91). *)
THEOREM MigrationKeeps == Spec => []GraphIsKept
  <1>1. Init => Kept!MigrationInv
    BY SameStart, MigrationSetting, Kept!InvInit DEF Init
  <1>2. [Next]_vars => [Kept!Next]_(Kept!vars)
    <2>1. CASE Migration!Next
      BY <2>1, Zenon, SameSteps
    <2>2. CASE UNCHANGED Migration!vars
      BY <2>2 DEF Kept!vars, Migration!vars
    <2> QED BY <2>1, <2>2, Parted
  <1>3. Kept!MigrationInv /\ [Kept!Next]_(Kept!vars) => Kept!MigrationInv'
    BY MigrationSetting, Kept!InvNext
  <1>4. Kept!MigrationInv => GraphIsKept
    BY SameMeaning, Kept!InvKeeps DEF GraphIsKept
  <1> QED BY <1>1, <1>2, <1>3, <1>4, PTL DEF Spec

-----------------------------------------------------------------------------
(* Dead letters of the consolidation (DeadLetters). *)

(* A set of numbers that is not empty has a least one. *)
LEMMA Least == ASSUME NEW S \in SUBSET Nat, S # {} PROVE \E l \in S : \A n \in S : l <= n
<1> DEFINE R == {ss \in Nat \X Nat : ss[1] < ss[2]}
<1>1. IsWellFoundedOn(R, Nat)
  BY NatLessThanWellFounded DEF OpToRel
<1> HIDE DEF R
<1>2. PICK l \in S : \A n \in S : ~(<<n, l>> \in R)
  BY <1>1, WFMin
<1>3. ASSUME NEW n \in S PROVE l <= n
  <2>1. ~(n < l)
    BY <1>2 DEF R
  <2> QED BY <2>1
<1> QED BY <1>3

LetterRow == [st: {"none", "PENDING", "PROCESSING", "BLOCKED", "damaged"}, tries: Nat, leased: BOOLEAN]
MemoryRow == [st: {"absent", "active", "invalid"}, waits: BOOLEAN, done: BOOLEAN]
Written == DOMAIN dAbout
\* Lines, records and memories; a letter has the next number, and none has a line
\* before it has a record.
LetterShape ==
    /\ dLine \in [Letters!Letter -> LetterRow]
    /\ dNode \in [Memory -> MemoryRow]
    /\ \E k \in 0..MaxLetters : Written = 1..k
    /\ \A l \in Written : dAbout[l] \in Memory
    /\ \A l \in Letters!Letter \ Written : dLine[l].st = "none"
DoneFor(l) == dNode[dAbout[l]].done
\* The worker holds written letters, and goes on to the receipt of a letter only
\* when its memory is consolidated, to the removal of its line only with the receipt.
WorkerOK ==
    /\ dWorker \in [step: {"idle", "triage", "verify", "receipt", "remove"}, todo: SUBSET Written, batch: SUBSET Written]
    /\ dWorker.step \in {"verify", "receipt", "remove"} => dWorker.batch # {}
    /\ dWorker.step = "receipt" => DoneFor(Letters!First(dWorker.batch))
    /\ dWorker.step = "remove" => Letters!First(dWorker.batch) \in dReceipt
ReceiptsOK == dReceipt \subseteq Written /\ \A l \in dReceipt : DoneFor(l)
LettersInv == LetterShape /\ WorkerOK /\ ReceiptsOK /\ LettersAreKept

(* The letter the worker takes first is one of those it holds (loop.py:1147). *)
LEMMA FirstIsOne ==
  ASSUME LetterShape, NEW S \in SUBSET Written, S # {} PROVE Letters!First(S) \in S
  <1>1. S \in SUBSET Nat
    BY DEF LetterShape
  <1>2. \E l \in S : \A n \in S : l <= n
    BY <1>1, Least
  <1> QED BY <1>2 DEF Letters!First

(* The file of dead letters is empty at first (loop.py:63-86). *)
LEMMA LettersInit == Letters!Init => LettersInv
  <1> SUFFICES ASSUME Letters!Init PROVE LettersInv
    OBVIOUS
  <1> USE DEF Letters!Init
  <1>1. LetterShape
    <2>1. Written = 1..0
      BY DEF Written
    <2>2. dLine \in [Letters!Letter -> LetterRow] /\ \A l \in Letters!Letter : dLine[l].st = "none"
      <3>1. Letters!NoLine \in LetterRow /\ Letters!NoLine.st = "none"
        BY DEF Letters!NoLine, LetterRow
      <3> QED BY <3>1
    <2>3. dNode \in [Memory -> MemoryRow]
      BY DEF MemoryRow
    <2> QED BY <2>1, <2>2, <2>3, ComponentsAssumption DEF LetterShape
  <1>2. WorkerOK
    BY DEF WorkerOK, Letters!Idle
  <1>3. ReceiptsOK /\ LettersAreKept
    BY DEF ReceiptsOK, LettersAreKept, Letters!LettersAreKept
  <1> QED BY <1>1, <1>2, <1>3 DEF LettersInv

\* Memories that were consolidated stay so.
SameMemories == \A m \in Memory : dNode[m].done => dNode'[m].done
\* A step that writes no letter: memories stay consolidated, and a line that goes was
\* damaged or has its receipt.
LEMMA NothingWritten ==
  ASSUME LettersInv, dAbout' = dAbout, dReceipt' = dReceipt,
         dNode' \in [Memory -> MemoryRow], SameMemories,
         dLine' \in [Letters!Letter -> LetterRow], dQuarantined \subseteq dQuarantined',
         \A l \in Letters!Letter : /\ dLine[l].st = "none" => dLine'[l].st = "none"
                                   /\ dLine'[l].st = "none" => \/ dLine[l].st = "none"
                                                               \/ l \in dQuarantined'
                                                               \/ l \in dReceipt
  PROVE  /\ LetterShape' /\ ReceiptsOK' /\ LettersAreKept'
         /\ Written' = Written /\ \A l \in Written : DoneFor(l) => DoneFor(l)'
  <1>1. Written \subseteq Letters!Letter /\ Written' = Written
    BY ComponentsAssumption DEF LettersInv, LetterShape, Letters!Letter, Written
  <1>2. LetterShape'
    BY <1>1 DEF LettersInv, LetterShape
  <1>3. \A l \in Written : DoneFor(l) => DoneFor(l)'
    BY DEF LettersInv, LetterShape, DoneFor, SameMemories
  <1>4. ReceiptsOK'
    BY <1>1, <1>3 DEF LettersInv, ReceiptsOK
  <1>5. ASSUME NEW l \in Written, dLine'[l].st = "none", l \notin dQuarantined'
        PROVE  l \in dReceipt' /\ DoneFor(l)'
    <2>1. l \in dReceipt \/ dLine[l].st = "none"
      BY <1>1, <1>5
    <2>2. l \in dReceipt
      BY <1>5, <2>1 DEF LettersInv, LettersAreKept, Letters!LettersAreKept, Written
    <2> QED BY <1>3, <2>2 DEF LettersInv, ReceiptsOK
  <1>6. LettersAreKept'
    BY <1>1, <1>5 DEF LettersAreKept, Letters!LettersAreKept, Written, DoneFor
  <1> QED BY <1>1, <1>2, <1>3, <1>4, <1>6

\* A rewrite of the file puts damaged lines into quarantine.
LEMMA Rewritten ==
  ASSUME LettersInv, NEW file \in [Letters!Letter -> LetterRow], Letters!Rewrite(file),
         \A l \in Letters!Letter : /\ dLine[l].st = "none" => file[l].st = "none"
                                   /\ file[l].st = "none" => dLine[l].st = "none" \/ l \in dReceipt
  PROVE  /\ dLine' \in [Letters!Letter -> LetterRow] /\ dQuarantined \subseteq dQuarantined'
         /\ \A l \in Letters!Letter : /\ dLine[l].st = "none" => dLine'[l].st = "none"
                                      /\ dLine'[l].st = "none" => \/ dLine[l].st = "none"
                                                                  \/ l \in dQuarantined'
                                                                  \/ l \in dReceipt
  <1>1. /\ dLine' = [l \in Letters!Letter |-> IF l \in Letters!Damaged THEN Letters!NoLine ELSE file[l]]
        /\ dQuarantined' = dQuarantined \cup Letters!Damaged
    BY DEF Letters!Rewrite, Letters!Read, Letters!Quarantine
  <1>2. Letters!NoLine \in LetterRow /\ Letters!NoLine.st = "none"
    BY DEF Letters!NoLine, LetterRow
  <1> QED BY <1>1, <1>2

\* What a step that may write a letter keeps.
LettersMove == /\ LetterShape' /\ ReceiptsOK' /\ LettersAreKept'
               /\ Written \subseteq Written' /\ dReceipt \subseteq dReceipt'
               /\ \A l \in Written : DoneFor(l) => DoneFor(l)'

(* A new letter takes the next number and a pending line (loop.py:306-326). *)
LEMMA AppendMoves ==
  ASSUME LettersInv, NEW m \in Memory, Letters!Append(m), dNode' = dNode, dReceipt' = dReceipt
  PROVE  LettersMove
  <1>1. PICK k \in 0..MaxLetters : Written = 1..k
    BY DEF LettersInv, LetterShape
  <1>2. Letters!Cardinality(DOMAIN dAbout) = k
    <2>1. k \in Int /\ 1 \in Int
      BY ComponentsAssumption
    <2>2. Cardinality(1..k) = IF 1 > k THEN 0 ELSE k - 1 + 1
      BY <2>1, FS_Interval
    <2>3. k = 0 \/ k >= 1
      BY ComponentsAssumption
    <2>4. Letters!Cardinality(1..k) = Cardinality(1..k)
      BY Zenon DEF Cardinality, Letters!Cardinality
    <2> QED BY <1>1, <2>1, <2>2, <2>3, <2>4 DEF Written
  <1> DEFINE n == k + 1
             file == [dLine EXCEPT ![n] = [Letters!NoLine EXCEPT !.st = "PENDING"]]
  <1>3. /\ k < MaxLetters /\ Letters!Rewrite(file)
        /\ dAbout' = [l \in 1..n |-> IF l = n THEN m ELSE dAbout[l]]
    <2>1. Letters!Cardinality(DOMAIN dAbout) < MaxLetters
      BY DEF Letters!Append, Letters!Room
    <2>2. Letters!Rewrite([dLine EXCEPT ![Letters!Cardinality(DOMAIN dAbout) + 1]
                             = [Letters!NoLine EXCEPT !.st = "PENDING"]])
      BY DEF Letters!Append
    <2>3. dAbout' = [l \in 1..(Letters!Cardinality(DOMAIN dAbout) + 1) |->
                       IF l = Letters!Cardinality(DOMAIN dAbout) + 1 THEN m ELSE dAbout[l]]
      BY DEF Letters!Append
    <2> QED BY <1>2, <2>1, <2>2, <2>3
  <1>4. /\ Written' = 1..n /\ Written \subseteq Written' /\ n \in Letters!Letter /\ n \notin Written
        /\ \A l \in Written' : l \in Written \/ l = n
        /\ \A l \in Written : dAbout'[l] = dAbout[l]
    BY <1>1, <1>3, ComponentsAssumption DEF Written, Letters!Letter
  <1>5. /\ [Letters!NoLine EXCEPT !.st = "PENDING"] \in LetterRow
        /\ [Letters!NoLine EXCEPT !.st = "PENDING"].st = "PENDING"
        /\ Letters!NoLine \in LetterRow /\ Letters!NoLine.st = "none"
    BY DEF Letters!NoLine, LetterRow
  <1>6. file \in [Letters!Letter -> LetterRow]
    BY <1>4, <1>5 DEF LettersInv, LetterShape
  <1>7. /\ dLine' = [l \in Letters!Letter |-> IF l \in Letters!Damaged THEN Letters!NoLine ELSE file[l]]
        /\ dQuarantined' = dQuarantined \cup Letters!Damaged
    BY <1>3 DEF Letters!Rewrite, Letters!Read, Letters!Quarantine
  <1>8. n \notin Letters!Damaged
    BY <1>4 DEF Letters!Damaged, LettersInv, LetterShape
  <1>9. /\ dLine' \in [Letters!Letter -> LetterRow]
        /\ \A l \in Letters!Letter : l # n =>
              dLine'[l] = IF l \in Letters!Damaged THEN Letters!NoLine ELSE dLine[l]
        /\ dLine'[n].st = "PENDING"
    BY <1>4, <1>5, <1>6, <1>7, <1>8 DEF LettersInv, LetterShape
  <1>10. LetterShape'
    <2>1. n \in 0..MaxLetters
      BY <1>3, ComponentsAssumption
    <2>2. \A l \in Written' : dAbout'[l] \in Memory
      BY <1>1, <1>3, <1>4 DEF LettersInv, LetterShape
    <2>3. \A l \in Letters!Letter \ Written' : dLine'[l].st = "none"
      BY <1>4, <1>5, <1>9 DEF LettersInv, LetterShape
    <2> QED BY <1>4, <1>9, <2>1, <2>2, <2>3 DEF LettersInv, LetterShape
  <1>11. \A l \in Written : DoneFor(l) => DoneFor(l)'
    BY <1>4 DEF DoneFor
  <1>12. ReceiptsOK'
    BY <1>4, <1>11 DEF LettersInv, ReceiptsOK
  <1>13. ASSUME NEW l \in Written', dLine'[l].st = "none", l \notin dQuarantined'
         PROVE  l \in dReceipt' /\ DoneFor(l)'
    <2>1. l \in Written /\ l \notin Letters!Damaged /\ l \in Letters!Letter
      BY <1>4, <1>7, <1>9, <1>13, <1>10, ComponentsAssumption DEF LetterShape, Letters!Letter
    <2>2. dLine[l].st = "none" /\ l \notin dQuarantined
      BY <1>4, <1>7, <1>9, <1>13, <2>1
    <2> QED BY <1>11, <2>1, <2>2 DEF LettersInv, LettersAreKept, Letters!LettersAreKept, Written, DoneFor
  <1>14. LettersAreKept'
    BY <1>13 DEF LettersAreKept, Letters!LettersAreKept, Written, DoneFor
  <1> QED BY <1>4, <1>10, <1>11, <1>12, <1>14 DEF LettersMove

(* A memory that is discarded, or a run that changes nothing (loop.py:850-878). *)
LEMMA DiscardMoves ==
  ASSUME LettersInv, NEW m \in Memory, Letters!Discard(m) \/ UNCHANGED <<dLine, dAbout, dQuarantined, dNode>>,
         dReceipt' = dReceipt
  PROVE  LettersMove
  <1>1. dNode' \in [Memory -> MemoryRow] /\ SameMemories
    BY DEF Letters!Discard, LettersInv, LetterShape, MemoryRow, SameMemories
  <1>2. dLine' = dLine /\ dAbout' = dAbout /\ dQuarantined' = dQuarantined
    BY DEF Letters!Discard
  <1>3. dLine \in [Letters!Letter -> LetterRow]
    BY DEF LettersInv, LetterShape
  <1> QED BY <1>1, <1>2, <1>3, NothingWritten DEF LettersMove

(* A consolidation ends with a letter, or with its memory decided (loop.py:743-878). *)
LEMMA OutcomeMoves ==
  ASSUME LettersInv, NEW m \in Memory, Letters!Outcome(m), dReceipt' = dReceipt
  PROVE  LettersMove
  BY AppendMoves, DiscardMoves DEF Letters!Outcome

\* A letter that is sent back keeps its line.
LEMMA ReturnedFile ==
  ASSUME LettersInv, NEW l \in Letters!Letter
  PROVE  /\ Letters!Returned(l) \in [Letters!Letter -> LetterRow]
         /\ \A n \in Letters!Letter : Letters!Returned(l)[n].st = "none" <=> dLine[n].st = "none"
  <1>1. dLine \in [Letters!Letter -> LetterRow]
    BY DEF LettersInv, LetterShape
  <1> DEFINE s == IF dLine[l].tries >= MaxAttempts THEN "BLOCKED" ELSE "PENDING"
  <1>2. s \in {"BLOCKED", "PENDING"}
    OBVIOUS
  <1>3. CASE ~Letters!Held(l)
    BY <1>1, <1>3 DEF Letters!Returned
  <1>4. CASE Letters!Held(l)
    <2>1. Letters!Returned(l) = [dLine EXCEPT ![l].leased = FALSE, ![l].st = s]
      BY <1>4 DEF Letters!Returned
    <2>2. dLine[l].st # "none"
      BY <1>4 DEF Letters!Held
    <2> HIDE DEF s
    <2>3. Letters!Returned(l) \in [Letters!Letter -> LetterRow]
      BY <1>1, <1>2, <2>1 DEF LetterRow
    <2>4. ASSUME NEW n \in Letters!Letter
          PROVE  Letters!Returned(l)[n].st = "none" <=> dLine[n].st = "none"
      <3>1. CASE n = l
        BY <1>1, <1>2, <2>1, <2>2, <3>1 DEF LetterRow
      <3>2. CASE n # l
        BY <1>1, <2>1, <3>2
      <3> QED BY <3>1, <3>2
    <2> QED BY <2>3, <2>4
  <1> QED BY <1>3, <1>4

\* The worker keeps what it holds while others move.
LEMMA WorkerStays ==
  ASSUME LettersInv, LettersMove, dWorker' = dWorker
  PROVE  LettersInv'
  <1>1. dWorker.batch # {} => Letters!First(dWorker.batch) \in Written
    BY FirstIsOne DEF LettersInv, WorkerOK
  <1>2. WorkerOK'
    BY <1>1 DEF LettersInv, LettersMove, WorkerOK
  <1> QED BY <1>2 DEF LettersInv, LettersMove

(* Claims, checks, receipts, removals, crashes, expired leases and damage of a line
   keep the invariant (loop.py:138-490, 1061-1171). *)
LEMMA LettersStep ==
  ASSUME LettersInv, [Letters!Next]_(Letters!vars) PROVE LettersInv'
  <1>1. /\ dLine \in [Letters!Letter -> LetterRow] /\ dNode \in [Memory -> MemoryRow]
        /\ dWorker \in [step: {"idle", "triage", "verify", "receipt", "remove"},
                         todo: SUBSET Written, batch: SUBSET Written]
        /\ Written \subseteq Letters!Letter
    BY ComponentsAssumption DEF LettersInv, LetterShape, WorkerOK, Letters!Letter
  <1>2. ASSUME NEW m \in Memory, Letters!Consolidate(m) PROVE LettersInv'
    BY <1>2, AppendMoves, DiscardMoves, WorkerStays DEF Letters!Consolidate
  <1>3. ASSUME NEW m \in Memory, Letters!DeferredRun(m) PROVE LettersInv'
    BY <1>3, OutcomeMoves, WorkerStays DEF Letters!DeferredRun
  <1>4. CASE Letters!DeferredRead
    <2>1. LettersMove
      BY <1>4, <1>1, NothingWritten DEF Letters!DeferredRead, SameMemories, LettersMove
    <2> QED BY <1>4, <2>1, WorkerStays DEF Letters!DeferredRead
  <1>5. CASE Letters!DeferredMark
    <2>1. dNode' \in [Memory -> MemoryRow] /\ SameMemories
      BY <1>1, <1>5 DEF Letters!DeferredMark, MemoryRow, SameMemories
    <2>2. LettersMove
      BY <1>5, <1>1, <2>1, NothingWritten DEF Letters!DeferredMark, LettersMove
    <2> QED BY <1>5, <2>2, WorkerStays DEF Letters!DeferredMark
  <1>6. CASE Letters!Claim
    <2> DEFINE claim(l) == [st |-> "PROCESSING", leased |-> TRUE,
                 tries |-> IF dLine[l].tries < MaxAttempts THEN dLine[l].tries + 1 ELSE MaxAttempts]
               file == [l \in Letters!Letter |-> IF l \notin Letters!Claimed THEN dLine[l] ELSE claim(l)]
    <2>1. Letters!Claimed \subseteq Written /\ \A l \in Letters!Claimed : dLine[l].st # "none"
      BY DEF Letters!Claimed, Letters!Eligible, Letters!Lines, LettersInv, LetterShape
    <2>2. ASSUME NEW l \in Letters!Letter PROVE claim(l) \in LetterRow /\ claim(l).st = "PROCESSING"
      BY <1>1, ComponentsAssumption DEF LetterRow
    <2>3. Letters!Rewrite(file) /\ UNCHANGED <<dAbout, dReceipt, dNode>>
          /\ dWorker' = [step |-> "triage", todo |-> Letters!Claimed, batch |-> {}]
      BY <1>6 DEF Letters!Claim
    <2> HIDE DEF claim
    <2>4. /\ file \in [Letters!Letter -> LetterRow]
          /\ \A l \in Letters!Letter : file[l].st = "none" <=> dLine[l].st = "none"
      BY <1>1, <2>1, <2>2
    <2> HIDE DEF file
    <2>5. LettersMove
      BY <2>3, <2>4, <1>1, Rewritten, NothingWritten DEF LettersMove, SameMemories
    <2>6. WorkerOK'
      BY <2>1, <2>3, <2>5 DEF WorkerOK, LettersMove
    <2> QED BY <2>5, <2>6 DEF LettersInv, LettersMove
  <1>7. CASE Letters!Triage
    <2> DEFINE l == Letters!First(dWorker.todo)
               next == [dWorker EXCEPT !.todo = @ \ {l}]
    <2>1. l \in Written /\ l \in Letters!Letter
      BY <1>1, <1>7, FirstIsOne DEF Letters!Triage, LettersInv
    <2>2. /\ UNCHANGED <<dAbout, dReceipt, dNode>> /\ dWorker.step = "triage"
          /\ \/ dWorker' = Letters!Idle /\ UNCHANGED <<dLine, dQuarantined>>
             \/ l \in dReceipt /\ Letters!Rewrite(Letters!Removed(l)) /\ dWorker' = next
             \/ Letters!Rewrite(Letters!Returned(l)) /\ dWorker' = next
             \/ dWorker' = [next EXCEPT !.batch = @ \cup {l}] /\ UNCHANGED <<dLine, dQuarantined>>
      BY <1>7 DEF Letters!Triage
    <2> HIDE DEF l
    <2>3. LettersMove
      <3>1. CASE UNCHANGED <<dLine, dQuarantined>>
        BY <1>1, <2>2, <3>1, NothingWritten DEF LettersMove, SameMemories
      <3>2. CASE l \in dReceipt /\ Letters!Rewrite(Letters!Removed(l))
        <4>1. /\ Letters!Removed(l) \in [Letters!Letter -> LetterRow]
              /\ \A n \in Letters!Letter : n = l \/ Letters!Removed(l)[n] = dLine[n]
              /\ Letters!Removed(l)[l].st = "none"
          BY <1>1, <2>1 DEF Letters!Removed, Letters!NoLine, LetterRow
        <4> QED BY <1>1, <2>2, <3>2, <4>1, Rewritten, NothingWritten DEF LettersMove, SameMemories
      <3>3. CASE Letters!Rewrite(Letters!Returned(l))
        BY <1>1, <2>1, <2>2, <3>3, ReturnedFile, Rewritten, NothingWritten DEF LettersMove, SameMemories
      <3> QED BY <2>2, <3>1, <3>2, <3>3
    <2>4. /\ dWorker' \in [step: {"idle", "triage", "verify", "receipt", "remove"},
                           todo: SUBSET Written, batch: SUBSET Written]
          /\ dWorker'.step \in {"idle", "triage"}
      <3>1. CASE dWorker' = Letters!Idle
        BY <3>1 DEF Letters!Idle
      <3>2. CASE dWorker' = next
        BY <1>1, <2>2, <3>2
      <3>3. CASE dWorker' = [next EXCEPT !.batch = @ \cup {l}]
        BY <1>1, <2>1, <2>2, <3>3
      <3> QED BY <2>2, <3>1, <3>2, <3>3
    <2>5. WorkerOK'
      BY <2>3, <2>4 DEF WorkerOK, LettersMove
    <2> QED BY <2>3, <2>5 DEF LettersInv, LettersMove
  <1>8. CASE Letters!Replay
    <2> DEFINE l == Letters!First(dWorker.batch)
    <2>1. l \in Written /\ dAbout[l] \in Memory
      BY <1>8, FirstIsOne DEF Letters!Replay, LettersInv, WorkerOK, LetterShape
    <2>2. LettersMove
      BY <1>8, <2>1, OutcomeMoves DEF Letters!Replay
    <2>3. dWorker' = [dWorker EXCEPT !.step = "verify"] /\ dWorker.batch # {}
      BY <1>8 DEF Letters!Replay
    <2>4. /\ dWorker'.step = "verify" /\ dWorker'.batch = dWorker.batch
          /\ dWorker' \in [step: {"idle", "triage", "verify", "receipt", "remove"},
                           todo: SUBSET Written, batch: SUBSET Written]
      BY <1>1, <2>3
    <2>5. WorkerOK'
      BY <2>2, <2>3, <2>4 DEF WorkerOK, LettersMove
    <2> QED BY <2>2, <2>5 DEF LettersInv, LettersMove
  <1>9. CASE Letters!Done
    <2>1. LettersMove
      BY <1>9, <1>1, NothingWritten DEF Letters!Done, SameMemories, LettersMove
    <2>2. WorkerOK'
      BY <1>9 DEF Letters!Done, Letters!Idle, WorkerOK
    <2> QED BY <2>1, <2>2 DEF LettersInv, LettersMove
  <1>10. CASE Letters!Verify
    <2> DEFINE l == Letters!First(dWorker.batch)
    <2>1. l \in Written /\ l \in Letters!Letter /\ dWorker.batch # {}
      BY <1>1, <1>10, FirstIsOne DEF Letters!Verify, LettersInv, WorkerOK
    <2>2. /\ UNCHANGED <<dAbout, dReceipt, dNode>>
          /\ \/ /\ dNode[dAbout[l]].done /\ UNCHANGED <<dLine, dQuarantined>>
                /\ dWorker' = [dWorker EXCEPT !.step = "receipt"]
             \/ /\ Letters!Rewrite(Letters!Returned(l))
                /\ dWorker' = [dWorker EXCEPT !.step = "triage", !.batch = @ \ {l}]
      BY <1>10 DEF Letters!Verify, Letters!NextLetter, Letters!Verified
    <2>3. LettersMove
      <3>1. CASE UNCHANGED <<dLine, dQuarantined>>
        BY <1>1, <2>2, <3>1, NothingWritten DEF LettersMove, SameMemories
      <3>2. CASE Letters!Rewrite(Letters!Returned(l))
        <4> HIDE DEF l
        <4> QED BY <1>1, <2>1, <2>2, <3>2, ReturnedFile, Rewritten, NothingWritten DEF LettersMove, SameMemories
      <3> QED BY <2>2, <3>1, <3>2
    <2>4. WorkerOK'
      <3>1. CASE dNode[dAbout[l]].done /\ dWorker' = [dWorker EXCEPT !.step = "receipt"]
        <4>1. dWorker'.batch = dWorker.batch /\ DoneFor(l)'
          BY <1>1, <2>1, <2>2, <3>1 DEF DoneFor
        <4>2. dWorker'.step = "receipt"
              /\ dWorker' \in [step: {"idle", "triage", "verify", "receipt", "remove"},
                               todo: SUBSET Written, batch: SUBSET Written]
          BY <1>1, <3>1
        <4> QED BY <2>1, <2>3, <4>1, <4>2 DEF WorkerOK, LettersMove
      <3>2. CASE dWorker' = [dWorker EXCEPT !.step = "triage", !.batch = @ \ {l}]
        <4> HIDE DEF l
        <4>1. dWorker'.step = "triage"
              /\ dWorker' \in [step: {"idle", "triage", "verify", "receipt", "remove"},
                               todo: SUBSET Written, batch: SUBSET Written]
          BY <1>1, <3>2
        <4> QED BY <2>3, <4>1 DEF WorkerOK, LettersMove
      <3> QED BY <2>2, <3>1, <3>2
    <2> QED BY <2>3, <2>4 DEF LettersInv, LettersMove
  <1>11. CASE Letters!Complete
    <2> DEFINE l == Letters!First(dWorker.batch)
    <2>1. l \in Written /\ DoneFor(l)
      BY <1>11, FirstIsOne DEF Letters!Complete, LettersInv, WorkerOK
    <2>2. ReceiptsOK' /\ LetterShape' /\ LettersAreKept'
      BY <1>11, <2>1 DEF Letters!Complete, LettersInv, ReceiptsOK, LetterShape, LettersAreKept,
           Letters!LettersAreKept, DoneFor, Written
    <2>3. dWorker' = [dWorker EXCEPT !.step = "remove"] /\ dWorker.batch # {} /\ l \in dReceipt'
      BY <1>11 DEF Letters!Complete, LettersInv, WorkerOK
    <2>4. WorkerOK'
      BY <1>1, <1>11, <2>3 DEF WorkerOK, Written, Letters!Complete
    <2> QED BY <2>2, <2>4 DEF LettersInv
  <1>12. CASE Letters!Remove
    <2> DEFINE l == Letters!First(dWorker.batch)
    <2>1. l \in Letters!Letter /\ l \in dReceipt
      BY <1>1, <1>12 DEF Letters!Remove, LettersInv, WorkerOK, ReceiptsOK
    <2>2. /\ UNCHANGED <<dAbout, dReceipt, dNode>> /\ Letters!Rewrite(Letters!Removed(l))
          /\ dWorker' = [dWorker EXCEPT !.step = "triage", !.batch = @ \ {l}]
      BY <1>12 DEF Letters!Remove, Letters!NextLetter
    <2> HIDE DEF l
    <2>3. /\ Letters!Removed(l) \in [Letters!Letter -> LetterRow]
          /\ \A n \in Letters!Letter : n = l \/ Letters!Removed(l)[n] = dLine[n]
          /\ Letters!Removed(l)[l].st = "none"
      BY <1>1, <2>1 DEF Letters!Removed, Letters!NoLine, LetterRow
    <2>4. LettersMove
      BY <1>1, <2>1, <2>2, <2>3, Rewritten, NothingWritten DEF LettersMove, SameMemories
    <2>5. dWorker'.step = "triage"
          /\ dWorker' \in [step: {"idle", "triage", "verify", "receipt", "remove"},
                           todo: SUBSET Written, batch: SUBSET Written]
      BY <1>1, <2>2
    <2>6. WorkerOK'
      BY <2>4, <2>5 DEF WorkerOK, LettersMove
    <2> QED BY <2>4, <2>6 DEF LettersInv, LettersMove
  <1>13. CASE Letters!Crash
    <2>1. LettersMove
      BY <1>13, <1>1, NothingWritten DEF Letters!Crash, SameMemories, LettersMove
    <2>2. WorkerOK'
      BY <1>13 DEF Letters!Crash, Letters!Idle, WorkerOK
    <2> QED BY <2>1, <2>2 DEF LettersInv, LettersMove
  <1>14. ASSUME NEW l \in Letters!Letter, Letters!Expire(l) PROVE LettersInv'
    <2>1. /\ dLine' \in [Letters!Letter -> LetterRow]
          /\ \A n \in Letters!Letter : dLine'[n].st = dLine[n].st
      BY <1>1, <1>14 DEF Letters!Expire, LetterRow
    <2>2. LettersMove
      BY <1>14, <1>1, <2>1, NothingWritten DEF Letters!Expire, SameMemories, LettersMove
    <2> QED BY <1>14, <2>2, WorkerStays DEF Letters!Expire
  <1>15. ASSUME NEW l \in Letters!Letter, Letters!Damage(l) PROVE LettersInv'
    <2>1. [Letters!NoLine EXCEPT !.st = "damaged"] \in LetterRow
          /\ [Letters!NoLine EXCEPT !.st = "damaged"].st = "damaged"
      BY DEF Letters!NoLine, LetterRow
    <2>2. /\ dLine' \in [Letters!Letter -> LetterRow] /\ dLine[l].st # "none"
          /\ \A n \in Letters!Letter : n = l \/ dLine'[n].st = dLine[n].st
          /\ dLine'[l].st = "damaged"
      BY <1>1, <1>15, <2>1 DEF Letters!Damage, Letters!Lines
    <2>3. LettersMove
      BY <1>15, <1>1, <2>2, NothingWritten DEF Letters!Damage, SameMemories, LettersMove
    <2> QED BY <1>15, <2>3, WorkerStays DEF Letters!Damage
  <1>16. CASE UNCHANGED Letters!vars
    BY <1>16 DEF Letters!vars, LettersInv, LetterShape, ReceiptsOK, WorkerOK, LettersAreKept,
         Letters!LettersAreKept, DoneFor, Written
  <1> QED
    BY <1>2, <1>3, <1>4, <1>5, <1>6, <1>7, <1>8, <1>9, <1>10, <1>11, <1>12, <1>13, <1>14, <1>15,
       <1>16 DEF Letters!Next

(* A memory that failed to be consolidated keeps its dead letter until it is
   consolidated or the letter's damaged line is in quarantine, across crashes of the
   worker and expired leases (loop.py:138-452). *)
THEOREM LettersStay == Spec => []LettersAreKept
  <1>1. Init => LettersInv
    BY LettersInit DEF Init
  <1>2. LettersInv /\ [Next]_vars => LettersInv'
    BY Parted, LettersStep
  <1>3. LettersInv => LettersAreKept
    BY DEF LettersInv
  <1> QED BY <1>1, <1>2, <1>3, PTL DEF Spec

-----------------------------------------------------------------------------
(* The storage root: lock, supervision, backup and restore (StorageRoot). *)

DirShape(d) == d \in [files: {d.files}, manifest: BOOLEAN, damaged: BOOLEAN]
RootShape == /\ sRoot \in [Root!File -> SUBSET Memory]
             /\ DirShape(sStaging) /\ DirShape(sBackup) /\ DirShape(sRestored)
             /\ sTool \in [job: {None, "backup", "restore"}, step: {"idle", "copy", "publish"}]
             /\ sTool.step = "idle" \/ sTool.job \in {"backup", "restore"}
             /\ sProc \in [Process -> [step: {"down", "starting", "open", "ready", "stopping", "closing"},
                                       worker: {"RUNNING", "CRASHED", "BLOCKED", "STOPPED"},
                                       restarts: Nat]]
\* A process that is up holds the lock; so does a backup.
LockHeld == /\ \A p \in Process : sProc[p].step # "down" => sLock = p
            /\ sTool.step # "idle" /\ sTool.job = "backup" => sLock = "backup"
\* No file knows a memory the database does not, nor will one when the threads land.
Founded == /\ \A f \in Root!Derived : sRoot[f] \subseteq sRoot["db"]
           /\ \A w \in sLate : w[2] \in Root!Derived /\ w[3] \in sRoot["db"]
\* A backup under way has the database there is, and a restore what the snapshot has.
CopyFaithful ==
    /\ sTool.step # "idle" /\ sTool.job = "backup" =>
          \A f \in DOMAIN sStaging.files :
              /\ f = "db" => sStaging.files[f] = sRoot["db"]
              /\ f \in Root!Derived => sStaging.files[f] \subseteq sRoot["db"]
    /\ sTool.step # "idle" /\ sTool.job = "restore" =>
          /\ Root!Exists(sBackup)
          /\ \A f \in DOMAIN sStaging.files : sStaging.files[f] = sBackup.files[f]
WholeDir(d) == Root!Exists(d) =>
    /\ d.manifest /\ DOMAIN d.files = Root!File
    /\ \A f \in Root!Derived : d.files[f] \subseteq d.files["db"]
RootInv == /\ RootShape /\ LockHeld /\ Founded /\ CopyFaithful
           /\ WholeDir(sBackup) /\ WholeDir(sRestored)
           /\ Root!Exists(sRestored) => ~sRestored.damaged

(* No process holds the storage root at first (writer_lock.py:22-24). *)
LEMMA RootInit == Root!Init => RootInv
  <1> SUFFICES ASSUME Root!Init PROVE RootInv
    OBVIOUS
  <1>1. DirShape(sStaging) /\ DirShape(sBackup) /\ DirShape(sRestored) /\ ~Root!Exists(sBackup) /\ ~Root!Exists(sRestored)
    BY DEF Root!Init, Root!NoDir, DirShape, Root!Exists
  <1>2. RootShape
    BY <1>1 DEF RootShape, Root!Init, Root!NoTool, Root!Down
  <1>3. LockHeld /\ Founded /\ CopyFaithful
    BY DEF LockHeld, Founded, CopyFaithful, Root!Init, Root!NoTool, Root!Down, Root!Derived, Root!File
  <1> QED BY <1>1, <1>2, <1>3 DEF RootInv, WholeDir

\* A step of a process that only moves the process and its lock.
LEMMA ProcessMoves ==
  ASSUME RootInv, UNCHANGED <<sRoot, sStaging, sTool, sBackup, sRestored>>,
         sLate' \subseteq sLate, RootShape', LockHeld'
  PROVE  RootInv'
  BY DEF RootInv, Founded, CopyFaithful, WholeDir, Root!Exists

ProcRow == [step: {"down", "starting", "open", "ready", "stopping", "closing"},
            worker: {"RUNNING", "CRASHED", "BLOCKED", "STOPPED"}, restarts: Nat]
(* Starts, supervision and stops of a process, which only move the process and the
   lock (writer_lock.py:26-110, server.py:295-655, supervision.py:34-124). *)
LEMMA ProcessStep ==
  ASSUME RootInv, NEW p \in Process,
         \/ Root!Acquire(p) \/ Root!Open(p) \/ Root!Ready(p) \/ Root!StartFails(p) \/ Root!Shutdown(p)
         \/ Root!Close(p) \/ Root!Release(p) \/ Root!Die(p) \/ Root!WorkerFails(p) \/ Root!Observe(p)
  PROVE  RootInv'
  <1> USE DEF RootInv
  <1>1. sProc \in [Process -> ProcRow] /\ p # None /\ p # "backup"
    BY ComponentsAssumption DEF RootShape, ProcRow
  <1>2. /\ UNCHANGED <<sRoot, sStaging, sTool, sBackup, sRestored>> /\ sLate' \subseteq sLate
    BY DEF Root!Acquire, Root!Open, Root!Ready, Root!StartFails, Root!Shutdown, Root!Close,
         Root!Release, Root!Die, Root!WorkerFails, Root!Observe
  \* The lock changes hands only when nobody, or the process itself, has it.
  <1>3. /\ sProc' \in [Process -> ProcRow]
        /\ \A q \in Process : q # p => sProc'[q] = sProc[q]
        /\ \/ sLock' = sLock /\ (sProc'[p].step # "down" => sProc[p].step # "down")
           \/ sLock = None /\ sLock' = p
           \/ sLock = p /\ sProc'[p].step = "down"
    <2>1. CASE Root!Acquire(p)
      BY <1>1, <2>1 DEF Root!Acquire, Root!Step, ProcRow
    <2>2. CASE Root!Open(p)
      BY <1>1, <2>2 DEF Root!Open, Root!Step, ProcRow
    <2>3. CASE Root!Ready(p)
      BY <1>1, <2>3 DEF Root!Ready, ProcRow
    <2>4. CASE Root!StartFails(p)
      BY <1>1, <2>4 DEF Root!StartFails, Root!Step, ProcRow
    <2>5. CASE Root!Shutdown(p)
      BY <1>1, <2>5 DEF Root!Shutdown, ProcRow
    <2>6. CASE Root!Close(p)
      BY <1>1, <2>6 DEF Root!Close, Root!Step, ProcRow
    <2>7. CASE Root!Release(p)
      BY <1>1, <2>7 DEF Root!Release, Root!Down, ProcRow, LockHeld
    <2>8. CASE Root!Die(p)
      BY <1>1, <2>8 DEF Root!Die, Root!Down, ProcRow, LockHeld
    <2>9. CASE Root!WorkerFails(p)
      BY <1>1, <2>9 DEF Root!WorkerFails, Root!Worker, ProcRow
    <2>10. CASE Root!Observe(p)
      <3>1. CASE sProc[p].restarts >= MaxRestarts
        BY <1>1, <2>10, <3>1 DEF Root!Observe, ProcRow
      <3>2. CASE ~(sProc[p].restarts >= MaxRestarts)
        <4>1. sProc' = [sProc EXCEPT ![p].worker = "RUNNING", ![p].restarts = sProc[p].restarts + 1]
              /\ sLock' = sLock
          BY <2>10, <3>2 DEF Root!Observe
        <4>2. sProc[p] \in ProcRow /\ sProc[p].restarts + 1 \in Nat
          BY <1>1 DEF ProcRow
        <4> QED BY <1>1, <4>1, <4>2 DEF ProcRow
      <3> QED BY <3>1, <3>2
    <2> QED BY <2>1, <2>2, <2>3, <2>4, <2>5, <2>6, <2>7, <2>8, <2>9, <2>10
  <1>4. RootShape'
    BY <1>2, <1>3 DEF RootShape, ProcRow, DirShape
  <1>5. LockHeld'
    BY <1>1, <1>2, <1>3, ComponentsAssumption DEF LockHeld
  <1> QED BY <1>2, <1>4, <1>5, ProcessMoves

(* Admissions, and writes of threads that land late (loop.py:306, vector_engine.py:1211-1234). *)
LEMMA WriteStep ==
  ASSUME RootInv,
         \/ \E p \in Process : \E m \in Memory : Root!Admit(p, m) \/ \E f \in Root!Derived : Root!Submit(p, f, m)
         \/ \E w \in sLate : Root!Land(w)
  PROVE  RootInv'
  <1> USE DEF RootInv, RootShape, LockHeld, Founded, CopyFaithful, WholeDir, Root!Exists, DirShape
  <1>1. sRoot \in [Root!File -> SUBSET Memory] /\ "db" \in Root!File /\ "db" \notin Root!Derived
        /\ Root!Derived \subseteq Root!File
    BY DEF Root!File, Root!Derived
  \* While a backup holds the lock nothing is admitted.
  <1>2. ASSUME NEW p \in Process, NEW m \in Memory, Root!Admit(p, m) PROVE RootInv'
    <2>1. ~(sTool.step # "idle" /\ sTool.job = "backup")
      BY <1>2, ComponentsAssumption DEF Root!Admit
    <2> QED BY <1>1, <1>2, <2>1 DEF Root!Admit
  <1>3. ASSUME NEW p \in Process, NEW m \in Memory, NEW f \in Root!Derived, Root!Submit(p, f, m)
        PROVE  RootInv'
    BY <1>1, <1>3 DEF Root!Submit
  <1>4. ASSUME NEW w \in sLate, Root!Land(w) PROVE RootInv'
    BY <1>1, <1>4 DEF Root!Land
  <1> QED BY <1>2, <1>3, <1>4

(* Backup, restore, and a disk that damages a backup (recovery.py:358-474). *)
LEMMA ToolStep ==
  ASSUME RootInv,
         \/ Root!BackupStart \/ Root!RestoreStart \/ (\E f \in Root!File : Root!CopyFile(f))
         \/ Root!Manifest \/ Root!Publish \/ Root!Abandon \/ Root!Damage
  PROVE  RootInv'
  <1> USE DEF RootInv
  <1>1. Root!NoTool \in [job: {None, "backup", "restore"}, step: {"idle", "copy", "publish"}]
        /\ Root!NoTool.step = "idle" /\ DirShape(Root!NoDir) /\ DOMAIN Root!NoDir.files = {}
    BY DEF Root!NoTool, Root!NoDir, DirShape
  <1>2. "db" \in Root!File /\ "db" \notin Root!Derived /\ Root!Derived \subseteq Root!File
    BY DEF Root!File, Root!Derived
  <1>3. CASE Root!BackupStart
    <2>1. RootShape'
      BY <1>1, <1>3 DEF Root!BackupStart, RootShape, DirShape
    <2>2. LockHeld'
      BY <1>3, ComponentsAssumption DEF Root!BackupStart, Root!Quiescent, LockHeld
    <2>3. CopyFaithful'
      BY <1>1, <1>3 DEF Root!BackupStart, CopyFaithful
    <2> QED BY <1>3, <2>1, <2>2, <2>3 DEF Root!BackupStart, Founded, WholeDir, Root!Exists
  <1>4. CASE Root!RestoreStart
    <2>1. RootShape'
      BY <1>1, <1>4 DEF Root!RestoreStart, RootShape, DirShape
    <2>2. LockHeld'
      BY <1>4 DEF Root!RestoreStart, LockHeld
    <2>3. CopyFaithful'
      BY SMTT(60), <1>1, <1>4 DEF Root!RestoreStart, CopyFaithful, Root!Exists
    <2> QED BY <1>4, <2>1, <2>2, <2>3 DEF Root!RestoreStart, Founded, WholeDir, Root!Exists
  <1>5. ASSUME NEW f \in Root!File, Root!CopyFile(f) PROVE RootInv'
    <2>1. RootShape'
      BY ZenonT(60), <1>5 DEF Root!CopyFile, RootShape, DirShape
    <2>2. LockHeld' /\ Founded'
      BY <1>5 DEF Root!CopyFile, LockHeld, Founded
    <2>3. CopyFaithful'
      <3>1. /\ DOMAIN sStaging'.files = DOMAIN sStaging.files \cup {f}
            /\ \A g \in DOMAIN sStaging'.files :
                  sStaging'.files[g] = IF g = f THEN Root!Source[f] ELSE sStaging.files[g]
        BY ZenonT(60), <1>5 DEF Root!CopyFile, RootShape, DirShape
      <3>2. UNCHANGED <<sTool, sRoot, sBackup>>
        BY <1>5 DEF Root!CopyFile
      <3>3. /\ sTool.job = "backup" => Root!Source = sRoot
            /\ sTool.job = "restore" => Root!Source = sBackup.files
        BY DEF Root!Source
      <3> QED BY <3>1, <3>2, <3>3 DEF CopyFaithful, Founded, Root!Exists
    <2> QED BY ZenonT(60), <1>5, <2>1, <2>2, <2>3 DEF Root!CopyFile, WholeDir, Root!Exists
  <1>6. CASE Root!Manifest
    <2>1. RootShape'
      BY <1>6 DEF Root!Manifest, RootShape, DirShape
    <2>2. sStaging'.files = sStaging.files /\ sTool'.job = sTool.job /\ sTool.step = "copy"
      BY <1>6 DEF Root!Manifest, RootShape, DirShape
    <2>3. LockHeld' /\ CopyFaithful'
      BY <1>6, <2>2 DEF Root!Manifest, LockHeld, CopyFaithful, Root!Exists
    <2> QED BY <1>6, <2>1, <2>3 DEF Root!Manifest, Founded, WholeDir, Root!Exists
  <1>7. CASE Root!Publish
    <2>1. sTool' = Root!NoTool /\ sStaging' = Root!NoDir /\ UNCHANGED <<sRoot, sProc, sLate>>
          /\ Root!Unlock
      BY <1>7 DEF Root!Publish
    <2>2. LockHeld'
      BY <1>1, <2>1, ComponentsAssumption DEF Root!Unlock, LockHeld
    <2>3. CopyFaithful' /\ Founded'
      BY <1>1, <2>1 DEF CopyFaithful, Founded
    <2>4. sTool.step # "idle" /\ sTool.job \in {"backup", "restore"}
      BY <1>7 DEF Root!Publish, RootShape
    <2>5. WholeDir(sStaging) /\ ~sStaging.damaged /\ DirShape(sStaging)
      BY <1>2, <1>7, <2>4 DEF Root!Publish, Root!Validates, WholeDir, CopyFaithful, RootShape
    <2>6. \/ sBackup' = sStaging /\ sRestored' = sRestored
          \/ sRestored' = sStaging /\ sBackup' = sBackup
      BY <1>7 DEF Root!Publish
    <2>7. RootShape'
      BY <1>1, <2>1, <2>5, <2>6 DEF RootShape
    <2> QED BY <2>2, <2>3, <2>5, <2>6, <2>7 DEF WholeDir, Root!Exists
  <1>8. CASE Root!Abandon
    <2>1. sTool' = Root!NoTool /\ sStaging' = Root!NoDir
          /\ UNCHANGED <<sRoot, sProc, sLate, sBackup, sRestored>> /\ Root!Unlock
      BY <1>8 DEF Root!Abandon
    <2>2. LockHeld'
      BY <1>1, <2>1, ComponentsAssumption DEF Root!Unlock, LockHeld
    <2>3. CopyFaithful' /\ Founded'
      BY <1>1, <2>1 DEF CopyFaithful, Founded
    <2>4. RootShape'
      BY <1>1, <2>1 DEF RootShape
    <2> QED BY <2>1, <2>2, <2>3, <2>4 DEF WholeDir, Root!Exists
  <1>9. CASE Root!Damage
    <2>1. DirShape(sBackup') /\ sBackup'.files = sBackup.files /\ sBackup'.manifest = sBackup.manifest
      BY <1>9 DEF Root!Damage, RootShape, DirShape
    <2>2. UNCHANGED <<sRoot, sLock, sProc, sLate, sStaging, sTool, sRestored>>
      BY <1>9 DEF Root!Damage
    <2>3. RootShape'
      BY <2>1, <2>2 DEF RootShape
    <2> QED BY <2>1, <2>2, <2>3 DEF LockHeld, Founded, CopyFaithful, WholeDir, Root!Exists
  <1> QED BY <1>3, <1>4, <1>5, <1>6, <1>7, <1>8, <1>9

(* Every step of the storage root keeps the invariant (StorageRoot, Next). *)
LEMMA RootStep ==
  ASSUME RootInv, [Root!Next]_(Root!vars) PROVE RootInv'
  <1>1. CASE UNCHANGED Root!vars
    BY <1>1 DEF Root!vars, RootInv, RootShape, LockHeld, Founded, CopyFaithful, WholeDir,
              Root!Exists, DirShape
  <1> QED BY <1>1, ProcessStep, WriteStep, ToolStep DEF Root!Next

(* A published backup, and a restored root, has every file and its manifest, and its
   derived stores know no memory that its database lacks (recovery.py:358-474). *)
THEOREM PublishedStays == Spec => []PublishedIsWhole
  <1>1. Init => RootInv
    BY RootInit DEF Init
  <1>2. RootInv /\ [Next]_vars => RootInv'
    BY Parted, RootStep
  <1>3. RootInv => PublishedIsWhole
    BY DEF RootInv, WholeDir, PublishedIsWhole, Root!PublishedIsWhole, Root!Exists
  <1> QED BY <1>1, <1>2, <1>3, PTL DEF Spec

-----------------------------------------------------------------------------
(* The dispatch queue and its raw logs (DispatchQueue).                    *)

(* A step of the composition is a step of the queue too, or leaves it alone. *)
LEMMA QueueParted ==
  ASSUME [Next]_vars PROVE [Queue!Next]_(Queue!vars)
  BY SMTT(60) DEF Next, vars, queue, admission, identity, wal, legacy, retrieval, tables, store,
     walk, gateway, letters, root, migration, NextQueue, NextAdmission, NextIdentity, NextWal,
     NextLegacy, NextRetrieval, NextTables, NextStore, NextWalk, NextGateway, NextLetters,
     NextRoot, NextMigration, StillQueue, StillAdmission, StillIdentity, StillWal, StillLegacy,
     StillRetrieval, StillTables, StillStore, StillWalk, StillGateway, StillLetters, StillRoot,
     StillMigration, Queue!vars

\* The shape of the tables, and what a verdict and a step of a job may be.
Closed == {"none", "FINALIZED", "DEAD_LETTER"}
Verdict == {"processed", "rejected", "failed", "DEFERRED"}
QueueRow == [st: Queue!ItemState, n: Nat, live: BOOLEAN]
FinRow == [st: Queue!FinState, n: Nat, live: BOOLEAN]
JobStep == {"none", "load", "judge", "settle", "read"}
JobRow == [step: JobStep, then: Verdict \cup {"none"},
           for: {"none", "dispatch", "session"}]
QueueShape == /\ qLog \in [Record -> Queue!LogState]
              /\ qItem \in [Record -> QueueRow]
              /\ qMut \in [Record -> {"none", "OPEN", "SETTLED", "REJECTED", "DEAD"}]
              /\ qFin \in FinRow
              /\ qJob \in [Record -> JobRow]
\* The tables have a record together or not at all.
Together(r) == /\ qItem[r].st = "none" => qLog[r] = "none" /\ qMut[r] = "none"
               /\ qItem[r].st # "none" => qLog[r] # "none" /\ qMut[r] # "none"
\* The consumer works on what is open, for a dispatch or for a session.
Working(r) == /\ qJob[r].step # "none" => qItem[r].st \notin Closed
              /\ qJob[r].step = "none" <=> qJob[r].for = "none"
              /\ qJob[r].for = "dispatch" => qPhase = "dispatch"
              /\ qJob[r].for = "session" => qPhase = "finalize"
              /\ r \in qTodo => qPhase = "finalize" /\ qItem[r].st \notin Closed
\* It only decides what the memory has decided.
Deciding(r) == qJob[r].step = "settle" =>
    qJob[r].then \in Verdict /\ (qJob[r].then \in Queue!Settled => qMut[r] # "OPEN")
Agreeing(r) == /\ qItem[r].st = "FINALIZED" => qLog[r] \in Queue!Settled
               /\ qItem[r].st = "DEAD_LETTER" => qLog[r] = "failed" /\ qMut[r] # "OPEN"
               /\ qLog[r] \in Queue!Settled => qMut[r] # "OPEN"
RecordFits(r) == Together(r) /\ Working(r) /\ Deciding(r) /\ Agreeing(r)
QueueInv == QueueShape /\ \A r \in Record : RecordFits(r)

(* Nothing is admitted, ended or claimed before the first step. *)
LEMMA QueueInit == ASSUME Queue!Init PROVE QueueInv
  <1>1. QueueShape
    BY DEF Queue!Init, QueueShape, QueueRow, FinRow, JobRow, JobStep, Verdict, Queue!ItemState,
       Queue!LogState, Queue!FinState
  <1>2. ASSUME NEW r \in Record PROVE RecordFits(r)
    BY DEF Queue!Init, RecordFits, Together, Working, Deciding, Agreeing, Queue!Settled
  <1> QED BY <1>1, <1>2 DEF QueueInv

(* A row of the queue and one of the journal keep their shape when their lease goes. *)
LEMMA ReleasedRow ==
  ASSUME NEW row \in QueueRow, NEW s \in Queue!ItemState
  PROVE  /\ [row EXCEPT !.live = FALSE] \in QueueRow
         /\ [row EXCEPT !.st = s, !.live = FALSE] \in QueueRow
  BY DEF QueueRow

(* The same for the journal of a session, and for its claim. *)
LEMMA ReleasedSession ==
  ASSUME NEW row \in FinRow, NEW s \in Queue!FinState
  PROVE  /\ [row EXCEPT !.live = FALSE] \in FinRow
         /\ [row EXCEPT !.st = s, !.live = FALSE] \in FinRow
         /\ [row EXCEPT !.st = s] \in FinRow
         /\ [st |-> s, n |-> row.n + 1, live |-> TRUE] \in FinRow
  <1>1. /\ [row EXCEPT !.live = FALSE] \in FinRow
        /\ [row EXCEPT !.st = s, !.live = FALSE] \in FinRow
    BY DEF FinRow
  <1>2. [row EXCEPT !.st = s] \in FinRow
    BY DEF FinRow
  <1>3. [st |-> s, n |-> row.n + 1, live |-> TRUE] \in FinRow
    BY DEF FinRow
  <1> QED BY <1>1, <1>2, <1>3

\* A step that is about record r leaves the rows of the others alone.
Others(r) == \A q \in Record \ {r} : /\ qLog'[q] = qLog[q] /\ qItem'[q] = qItem[q]
                                   /\ qMut'[q] = qMut[q] /\ qJob'[q] = qJob[q]

(* A step about one record is judged by that record. *)
LEMMA OneRecord ==
  ASSUME QueueInv, NEW r \in Record, QueueShape', Others(r), RecordFits(r)',
         qPhase' = qPhase, qTodo' \subseteq qTodo
  PROVE  QueueInv'
  <1>1. ASSUME NEW q \in Record, q # r PROVE RecordFits(q)'
    BY <1>1 DEF QueueInv, RecordFits, Together, Working, Deciding, Agreeing, Others
  <1> QED BY <1>1 DEF QueueInv

(* What a step writes to the row of a record keeps the table's shape and the other rows. *)
LEMMA SetsJob ==
  ASSUME qJob \in [Record -> JobRow], NEW r \in Record, NEW s \in JobStep,
         NEW v \in Verdict \cup {"none"},
         \/ qJob' = [qJob EXCEPT ![r].then = v, ![r].step = s]
         \/ qJob' = [qJob EXCEPT ![r].step = s, ![r].then = v]
  PROVE  qJob' \in [Record -> JobRow] /\ \A q \in Record \ {r} : qJob'[q] = qJob[q]
  <1> DEFINE row == [qJob[r] EXCEPT !.then = v, !.step = s]
             wor == [qJob[r] EXCEPT !.step = s, !.then = v]
  <1>1. row \in JobRow /\ wor \in JobRow
    BY Zenon DEF JobRow
  <1>2. qJob' = [qJob EXCEPT ![r] = row] \/ qJob' = [qJob EXCEPT ![r] = wor]
    BY Zenon
  <1> HIDE DEF row, wor
  <1> QED BY <1>1, <1>2

(* The same for a row of the dispatch queue. *)
LEMMA SetsItem ==
  ASSUME qItem \in [Record -> QueueRow], NEW r \in Record, NEW s \in Queue!ItemState,
         NEW v \in BOOLEAN, qItem' = [qItem EXCEPT ![r].st = s, ![r].live = v]
  PROVE  qItem' \in [Record -> QueueRow] /\ \A q \in Record \ {r} : qItem'[q] = qItem[q]
  <1> DEFINE row == [qItem[r] EXCEPT !.st = s, !.live = v]
  <1>1. row \in QueueRow
    BY Zenon DEF QueueRow
  <1>2. qItem' = [qItem EXCEPT ![r] = row]
    BY Zenon
  <1> HIDE DEF row
  <1> QED BY <1>1, <1>2

(* A lease or a backoff runs out; nobody works on the strength of it. *)
LEMMA ExpireFits ==
  ASSUME QueueShape, NEW r \in Record, RecordFits(r), Queue!Expire(r)
  PROVE  /\ QueueShape' /\ Others(r) /\ RecordFits(r)'
         /\ qPhase' = qPhase /\ qTodo' \subseteq qTodo
  <1>1. /\ qItem' = [qItem EXCEPT ![r] = [qItem[r] EXCEPT !.live = FALSE]]
        /\ qLog' = qLog /\ qMut' = qMut /\ qFin' = qFin /\ qJob' = qJob
        /\ qPhase' = qPhase /\ qTodo' = qTodo
    BY DEF Queue!Expire
  <1>2. qItem[r] \in QueueRow /\ DOMAIN qItem = Record
    BY SMTT(60) DEF QueueShape
  <1>3. [qItem[r] EXCEPT !.live = FALSE] \in QueueRow
    BY ZenonT(60), <1>2, ReleasedRow DEF Queue!ItemState
  <1>4. QueueShape' /\ Others(r)
    BY <1>1, <1>2, <1>3 DEF QueueShape, Others
  <1>5. qItem'[r].st = qItem[r].st
    BY <1>1, <1>2 DEF QueueRow
  <1>6. RecordFits(r)'
    BY SMTT(60), <1>1, <1>5 DEF RecordFits, Together, Working, Deciding, Agreeing
  <1> QED BY <1>1, <1>4, <1>6

(* Admission and the steps of the consumer on a record keep what is said of that record
   (dao.py:9909-10096, 10960-11096, ingestion_worker.py:138-350). *)
LEMMA WorkFits ==
  ASSUME QueueShape, NEW r \in Record, RecordFits(r),
         Queue!Admit(r) \/ Queue!Work(r) \/ Queue!Expire(r) \/ Queue!Retract(r) \/ Queue!Replay(r)
  PROVE  /\ QueueShape' /\ Others(r) /\ RecordFits(r)'
         /\ qPhase' = qPhase /\ qTodo' \subseteq qTodo
  <1> USE DEF QueueRow, JobRow, JobStep, Verdict, Queue!ItemState, Queue!LogState, Queue!Settled,
          QueueShape, Others, RecordFits, Together, Working, Deciding, Agreeing, Closed,
          Queue!NoJob
  <1>1. CASE Queue!Admit(r)
    <2> USE <1>1 DEF Queue!Admit
    <2>1. QueueShape' /\ Others(r)
      BY SMTT(60)
    <2>2. RecordFits(r)'
      BY SMTT(60)
    <2> QED BY <2>1, <2>2
  <1>2. CASE Queue!LoadLog(r)
    <2> USE <1>2 DEF Queue!LoadLog, Queue!Known
    <2>a. Queue!Known(qMut[r]) \in Verdict \cup {"none"}
      BY DEF QueueShape
    <2>b. \/ \E s \in JobStep :
                qJob' = [qJob EXCEPT ![r].then = Queue!Known(qMut[r]), ![r].step = s]
          \/ qJob' = [qJob EXCEPT ![r].step = "read"]
      BY Zenon DEF JobStep
    <2> HIDE DEF Queue!LoadLog, Queue!Known, JobStep, Verdict, JobRow, RecordFits
    <2>c. qJob' \in [Record -> JobRow] /\ \A q \in Record \ {r} : qJob'[q] = qJob[q]
      <3>1. ASSUME NEW s \in JobStep,
                   qJob' = [qJob EXCEPT ![r].then = Queue!Known(qMut[r]), ![r].step = s]
            PROVE  qJob' \in [Record -> JobRow] /\ \A q \in Record \ {r} : qJob'[q] = qJob[q]
        BY ZenonT(60), <2>a, <3>1, SetsJob DEF QueueShape
      <3>2. CASE qJob' = [qJob EXCEPT ![r].step = "read"]
        BY ZenonT(60), <3>2 DEF QueueShape, JobRow, JobStep
      <3> QED BY <2>b, <3>1, <3>2
    <2> USE DEF Queue!LoadLog, Queue!Known, JobStep, Verdict, JobRow, RecordFits
    <2>d. qLog' \in [Record -> Queue!LogState] /\ \A q \in Record \ {r} : qLog'[q] = qLog[q]
      BY DEF QueueShape
    <2>1. QueueShape' /\ Others(r)
      BY <2>c, <2>d DEF QueueShape, Others
    <2>2. RecordFits(r)'
      BY SMTT(60)
    <2> QED BY <2>1, <2>2
  <1>3. CASE Queue!Judge(r)
    <2> USE <1>3 DEF Queue!Judge
    <2>a. \E v \in Verdict : qJob' = [qJob EXCEPT ![r].step = "settle", ![r].then = v]
      BY ZenonT(60) DEF Verdict
    <2>b. qJob' \in [Record -> JobRow] /\ \A q \in Record \ {r} : qJob'[q] = qJob[q]
      BY ZenonT(60), <2>a, SetsJob DEF QueueShape
    <2>c. /\ qMut' \in [Record -> {"none", "OPEN", "SETTLED", "REJECTED", "DEAD"}]
          /\ \A q \in Record \ {r} : qMut'[q] = qMut[q]
      BY DEF QueueShape
    <2>1. QueueShape' /\ Others(r)
      BY <2>b, <2>c DEF QueueShape, Others
    <2>2. RecordFits(r)'
      BY SMTT(60)
    <2> QED BY <2>1, <2>2
  <1>4. CASE Queue!SettleLog(r)
    <2> USE <1>4 DEF Queue!SettleLog
    <2>1. QueueShape' /\ Others(r)
      BY SMTT(60)
    <2>2. RecordFits(r)'
      BY SMTT(60)
    <2> QED BY <2>1, <2>2
  <1>5. CASE Queue!Complete(r)
    <2> USE <1>5 DEF Queue!Complete, Queue!Buried
    <2>a. \/ qItem' = qItem
          \/ \E s \in Queue!ItemState, v \in BOOLEAN :
                qItem' = [qItem EXCEPT ![r].st = s, ![r].live = v]
      BY DEF Queue!ItemState
    <2>b. qItem' \in [Record -> QueueRow] /\ \A q \in Record \ {r} : qItem'[q] = qItem[q]
      BY <2>a, SetsItem DEF QueueShape
    <2>c. qJob' \in [Record -> JobRow] /\ \A q \in Record \ {r} : qJob'[q] = qJob[q]
      BY ZenonT(60) DEF QueueShape
    <2>d. /\ qMut' \in [Record -> {"none", "OPEN", "SETTLED", "REJECTED", "DEAD"}]
          /\ qLog' \in [Record -> Queue!LogState]
          /\ \A q \in Record \ {r} : qMut'[q] = qMut[q] /\ qLog'[q] = qLog[q]
      BY DEF QueueShape
    <2>1. QueueShape' /\ Others(r)
      BY <2>b, <2>c, <2>d DEF QueueShape, Others
    <2>2. RecordFits(r)'
      BY SMTT(60)
    <2> QED BY <2>1, <2>2
  <1>6. CASE Queue!LogDone(r)
    <2> USE <1>6 DEF Queue!LogDone
    <2>1. QueueShape' /\ Others(r)
      BY SMTT(60)
    <2>2. RecordFits(r)'
      BY SMTT(60)
    <2> QED BY <2>1, <2>2
  <1>7. CASE Queue!NextLog(r)
    <2> USE <1>7 DEF Queue!NextLog, Queue!Started
    <2>1. QueueShape' /\ Others(r)
      BY SMTT(60)
    <2>2. RecordFits(r)'
      BY SMTT(60)
    <2> QED BY <2>1, <2>2
  <1>8. CASE Queue!Expire(r)
    BY SMTT(60), <1>8, ExpireFits
  <1>9. CASE Queue!Retract(r)
    <2> USE <1>9 DEF Queue!Retract
    <2>1. QueueShape' /\ Others(r)
      BY SMTT(60)
    <2>2. RecordFits(r)'
      BY SMTT(60)
    <2> QED BY <2>1, <2>2
  <1>10. CASE Queue!Replay(r)
    <2> USE <1>10 DEF Queue!Replay
    <2>1. QueueShape' /\ Others(r)
      BY SMTT(60)
    <2>2. RecordFits(r)'
      BY SMTT(60)
    <2> QED BY <2>1, <2>2
  <1> QED BY <1>1, <1>2, <1>3, <1>4, <1>5, <1>6, <1>7, <1>8, <1>9, <1>10 DEF Queue!Work

(* So they keep QueueInv. *)
LEMMA WorkKeeps ==
  ASSUME QueueInv, NEW r \in Record,
         Queue!Admit(r) \/ Queue!Work(r) \/ Queue!Expire(r) \/ Queue!Retract(r) \/ Queue!Replay(r)
  PROVE  QueueInv'
  BY WorkFits, OneRecord DEF QueueInv

(* At a restart the rows in flight are released (dao.py:10497-10524). *)
LEMMA RestartReleases ==
  ASSUME qItem \in [Record -> QueueRow], Queue!Restart PROVE qItem' \in [Record -> QueueRow]
  <1>1. \A r \in Record : [qItem[r] EXCEPT !.st = "RETRY_PENDING", !.live = FALSE] \in QueueRow
    BY ZenonT(60), ReleasedRow DEF Queue!ItemState
  <1>2. qItem' = [r \in Record |-> IF qItem[r].st = "IN_FLIGHT"
                    THEN [qItem[r] EXCEPT !.st = "RETRY_PENDING", !.live = FALSE] ELSE qItem[r]]
    BY ZenonT(60) DEF Queue!Restart
  <1> QED BY ZenonT(60), <1>1, <1>2

(* No job survives a restart, and what was in flight waits again (dao.py:10497-10524). *)
LEMMA RestartKeeps ==
  ASSUME QueueInv, Queue!Restart PROVE QueueInv'
  <1>1. /\ qLog' = [r \in Record |-> IF qLog[r] = "processing" THEN "DEFERRED" ELSE qLog[r]]
        /\ qJob' = [r \in Record |-> Queue!NoJob]
        /\ qMut' = qMut /\ qFin' = qFin /\ qTodo' = {}
    BY ZenonT(60) DEF Queue!Restart
  <1>2. QueueShape
    BY DEF QueueInv
  <1>3. Queue!NoJob \in JobRow
    BY DEF Queue!NoJob, JobRow, JobStep
  <1>4. qItem' \in [Record -> QueueRow]
    BY <1>2, RestartReleases DEF QueueShape
  <1>5. qLog' \in [Record -> Queue!LogState] /\ qJob' \in [Record -> JobRow]
    BY <1>1, <1>2, <1>3 DEF QueueShape, Queue!LogState
  <1>6. QueueShape'
    BY <1>1, <1>2, <1>4, <1>5 DEF QueueShape
  <1>7. ASSUME NEW r \in Record PROVE RecordFits(r)'
    <2>1. \/ qItem'[r].st = qItem[r].st
          \/ (qItem[r].st = "IN_FLIGHT" /\ qItem'[r].st = "RETRY_PENDING")
      <3>1. qItem'[r] = IF qItem[r].st = "IN_FLIGHT"
                        THEN [qItem[r] EXCEPT !.st = "RETRY_PENDING", !.live = FALSE] ELSE qItem[r]
        BY Zenon DEF Queue!Restart
      <3>2. DOMAIN qItem[r] = {"st", "n", "live"}
        BY <1>2 DEF QueueShape, QueueRow
      <3> QED BY <3>1, <3>2
    <2>2. qLog'[r] = qLog[r] \/ (qLog[r] = "processing" /\ qLog'[r] = "DEFERRED")
      <3>1. qLog'[r] = IF qLog[r] = "processing" THEN "DEFERRED" ELSE qLog[r]
        BY Zenon DEF Queue!Restart
      <3> QED BY <3>1
    <2>3. qJob'[r].step = "none" /\ qJob'[r].for = "none"
      BY <1>1 DEF Queue!NoJob
    <2>4. RecordFits(r)
      BY DEF QueueInv
    <2> QED BY <1>1, <2>1, <2>2, <2>3, <2>4 DEF RecordFits, Together, Working, Deciding,
               Agreeing, Closed, Queue!Settled
  <1> QED BY <1>6, <1>7 DEF QueueInv

(* The journal of a session keeps its shape (dao.py:10215-10391). *)
LEMMA SessionMoves ==
  ASSUME qFin \in FinRow,
         \/ Queue!EndBatch \/ Queue!ClaimSession \/ Queue!ListLogs \/ Queue!CompleteSession
         \/ Queue!FailSession \/ Queue!EndSession \/ Queue!ExpireSession
  PROVE  qFin' \in FinRow
  <1>1. /\ [qFin EXCEPT !.live = FALSE] \in FinRow
        /\ \A s \in Queue!FinState : /\ [qFin EXCEPT !.st = s, !.live = FALSE] \in FinRow
                                     /\ [qFin EXCEPT !.st = s] \in FinRow
                                     /\ [st |-> s, n |-> qFin.n + 1, live |-> TRUE] \in FinRow
    BY ZenonT(60), ReleasedSession DEF Queue!FinState
  <1>2. /\ "CLAIMED" \in Queue!FinState /\ "COMPLETED" \in Queue!FinState
        /\ "PENDING" \in Queue!FinState /\ Queue!FailedFin \in Queue!FinState
    BY DEF Queue!FinState, Queue!FailedFin
  <1>3. Queue!EndBatch \/ Queue!ListLogs => qFin' = qFin
    BY DEF Queue!EndBatch, Queue!ListLogs
  <1>4. Queue!ClaimSession => qFin' \in FinRow
    BY ZenonT(60), <1>1, <1>2 DEF Queue!ClaimSession
  <1>5. Queue!CompleteSession \/ Queue!FailSession => qFin' \in FinRow
    BY ZenonT(60), <1>1, <1>2 DEF Queue!CompleteSession, Queue!FailSession
  <1>6. Queue!EndSession \/ Queue!ExpireSession => qFin' \in FinRow
    BY ZenonT(60), <1>1, <1>2 DEF Queue!EndSession, Queue!ExpireSession
  <1> QED BY <1>3, <1>4, <1>5, <1>6

(* So do the steps of its loop, and what befalls it (dao.py:10215-10391, 10497-10524). *)
LEMMA LoopKeeps ==
  ASSUME QueueInv, Queue!Loop \/ Queue!EndSession \/ Queue!ExpireSession \/ Queue!Restart
  PROVE  QueueInv'
  <1> USE DEF QueueRow, JobRow, JobStep, Verdict, Queue!ItemState, Queue!LogState, Queue!FinState,
          Queue!Settled, QueueInv, QueueShape, RecordFits, Together, Working, Deciding, Agreeing,
          Closed, Queue!NoJob
  <1>1. CASE Queue!ClaimBatch
    <2> USE <1>1 DEF Queue!ClaimBatch, Queue!Claimable, Queue!Started
    <2>1. QueueShape'
      BY SMTT(60)
    <2>2. ASSUME NEW r \in Record PROVE RecordFits(r)'
      BY SMTT(60)
    <2> QED BY <2>1, <2>2
  <1>2. CASE Queue!EndBatch \/ Queue!ClaimSession \/ Queue!ListLogs \/ Queue!CompleteSession
             \/ Queue!FailSession \/ Queue!EndSession \/ Queue!ExpireSession
    <2>1. qLog' = qLog /\ qItem' = qItem /\ qMut' = qMut /\ qJob' = qJob
      BY <1>2 DEF Queue!EndBatch, Queue!ClaimSession, Queue!ListLogs, Queue!CompleteSession,
         Queue!FailSession, Queue!EndSession, Queue!ExpireSession
    <2>2. qFin' \in FinRow
      BY <1>2, SessionMoves
    <2>4. QueueShape'
      BY <2>1, <2>2 DEF QueueShape
    <2>5. ASSUME NEW r \in Record PROVE RecordFits(r)'
      <3>1. CASE Queue!EndBatch
        BY SMTT(60), <2>1, <3>1 DEF Queue!EndBatch, Queue!Idle
      <3>2. CASE Queue!ClaimSession
        BY SMTT(60), <2>1, <3>2 DEF Queue!ClaimSession
      <3>3. CASE Queue!ListLogs
        BY SMTT(60), <2>1, <3>3 DEF Queue!ListLogs
      <3>4. CASE Queue!CompleteSession
        BY SMTT(60), <2>1, <3>4 DEF Queue!CompleteSession, Queue!Idle
      <3>5. CASE Queue!FailSession \/ Queue!EndSession \/ Queue!ExpireSession
        BY SMTT(60), <2>1, <3>5 DEF Queue!FailSession, Queue!EndSession, Queue!ExpireSession
      <3> QED BY <1>2, <3>1, <3>2, <3>3, <3>4, <3>5
    <2> QED BY <2>4, <2>5
  <1>3. CASE Queue!Restart
    BY <1>3, RestartKeeps
  <1> QED BY <1>1, <1>2, <1>3 DEF Queue!Loop

(* Every step of the queue keeps QueueInv. *)
LEMMA QueueStepKeeps ==
  ASSUME QueueInv, [Queue!Next]_(Queue!vars) PROVE QueueInv'
  <1>1. CASE Queue!Next
    BY <1>1, WorkKeeps, LoopKeeps DEF Queue!Next, Queue!Consume
  <1>2. CASE UNCHANGED Queue!vars
    BY <1>2 DEF Queue!vars, QueueInv, QueueShape, RecordFits, Together, Working, Deciding,
       Agreeing
  <1> QED BY <1>1, <1>2

(* QueueInv holds in every state of the composition. *)
LEMMA QueueHolds == Spec => []QueueInv
  <1>1. Init => QueueInv
    BY QueueInit DEF Init
  <1>2. QueueInv /\ [Next]_vars => QueueInv'
    BY QueueStepKeeps, QueueParted
  <1> QED BY <1>1, <1>2, PTL DEF Spec

(* Whatever crashed, failed or was retracted or replayed, a finalized dispatch has a decided
   log, a dead letter leaves nothing that waits, a decided log has a decided memory
   (dao.py:10960-11096, 10497-10524). *)
THEOREM SettledAgrees == Spec => []SettledAgree
  <1>1. QueueInv => SettledAgree
    BY DEF QueueInv, RecordFits, Agreeing, SettledAgree, Queue!SettledAgree
  <1> QED BY <1>1, QueueHolds, PTL

(* A session is reported complete when each of its memories is decided (dao.py:10335). *)
THEOREM CompleteIsDecided == Spec => CompleteMeansDecided
  <1>1. QueueInv /\ [Next]_vars =>
          [qFin.st # "COMPLETED" /\ qFin'.st = "COMPLETED" =>
              \A r \in Record : qMut'[r] # "OPEN"]_(Queue!vars)
    <2> SUFFICES ASSUME QueueInv, Queue!Next, qFin.st # "COMPLETED", qFin'.st = "COMPLETED",
                        NEW r \in Record
                 PROVE  qMut'[r] # "OPEN"
      BY QueueParted
    <2>1. qFin.st \in Queue!FinState /\ DOMAIN qFin = {"st", "n", "live"}
      BY DEF QueueInv, QueueShape, FinRow
    <2>2. CASE Queue!EndSession \/ Queue!CompleteSession
      <3>1. Queue!Unfinished = {} /\ qMut' = qMut
        BY <2>2, <2>1 DEF Queue!EndSession, Queue!CompleteSession
      <3>2. qLog[r] \in Queue!Settled \cup {"none"}
        BY <3>1 DEF Queue!Unfinished
      <3> QED BY <3>1, <3>2 DEF QueueInv, RecordFits, Agreeing, Together
    <2>3. Queue!ClaimSession \/ Queue!FailSession \/ Queue!ExpireSession
            => qFin' = qFin \/ qFin'.st # "COMPLETED"
      <3>1. Queue!ClaimSession => qFin' = qFin \/ qFin'.st # "COMPLETED"
        BY DEF Queue!ClaimSession
      <3>2. Queue!FailSession =>
              \E s : s # "COMPLETED" /\ qFin' = [qFin EXCEPT !.st = s, !.live = FALSE]
        BY ZenonT(60) DEF Queue!FailSession, Queue!FailedFin
      <3>3. Queue!ExpireSession => qFin' = [qFin EXCEPT !.live = FALSE]
        BY DEF Queue!ExpireSession
      <3> QED BY ZenonT(60), <2>1, <3>1, <3>2, <3>3
    <2>4. CASE qFin' = qFin
      BY <2>4
    <2>5. Queue!Restart \/ Queue!ClaimBatch \/ Queue!EndBatch \/ Queue!ListLogs => qFin' = qFin
      BY ZenonT(60) DEF Queue!Restart, Queue!ClaimBatch, Queue!EndBatch, Queue!ListLogs
    <2>6. \A q \in Record : Queue!Work(q) \/ Queue!Admit(q) \/ Queue!Expire(q) \/ Queue!Retract(q)
                          \/ Queue!Replay(q) => qFin' = qFin
      BY DEF Queue!Work, Queue!LoadLog, Queue!Judge, Queue!SettleLog, Queue!Complete,
         Queue!LogDone, Queue!NextLog, Queue!Admit, Queue!Expire, Queue!Retract, Queue!Replay
    <2> QED BY <2>2, <2>4, <2>5, <2>6, <2>3 DEF Queue!Next, Queue!Consume, Queue!Loop
  <1> QED BY <1>1, QueueHolds, PTL DEF Spec, CompleteMeansDecided, Queue!CompleteMeansDecided

-----------------------------------------------------------------------------
(* Of finite sets there is one that no other is smaller than. *)
LEMMA Smallest ==
  ASSUME NEW C, C # {}, \A S \in C : IsFiniteSet(S)
  PROVE  \E S \in C : \A T \in C : Cardinality(S) <= Cardinality(T)
  <1> DEFINE sizes == {Cardinality(S) : S \in C}
  <1>1. sizes \in SUBSET Nat /\ sizes # {}
    BY FS_CardinalityType
  <1>2. PICK n \in sizes : \A k \in sizes : n <= k
    <2> HIDE DEF sizes
    <2> QED BY <1>1, Least
  <1> QED BY <1>2

(* The weight of a set of rows is a fold, which adds up one row after the other.  Its defining
   equation has one solution on the subsets of a finite set, so that the weight of a set grows by
   the size of a row that is added, whichever rows the fold takes first. *)
Pick(S) == CHOOSE x \in S : TRUE
Sums(g, S) == g = [s \in SUBSET S |->
                     IF s = {} THEN 0 ELSE Bytes[Pick(s)] + g[s \ {Pick(s)}]]
Sum(S) == (CHOOSE g : Sums(g, S))[S]

(* What the admission adds up is that fold (dao.py:9828-9908). *)
LEMMA WeightIsSum == ASSUME NEW S PROVE Queue!Weight(S) = Sum(S)
  BY Zenon DEF Queue!Weight, Queue!MapThenSumSet, Queue!MapThenFoldSet, Sum, Sums, Pick

(* Two solutions agree wherever both are defined. *)
LEMMA SumsAgree ==
  ASSUME NEW S, NEW T, NEW g, NEW h, Sums(g, S), Sums(h, T),
         NEW U \in (SUBSET S) \cap (SUBSET T), IsFiniteSet(U)
  PROVE  g[U] = h[U]
  <1> DEFINE C == {s \in SUBSET U : g[s] # h[s]}
  <1>1. SUFFICES ASSUME C # {} PROVE FALSE
    OBVIOUS
  <1>2. \A s \in C : IsFiniteSet(s)
    BY FS_Subset
  <1>3. PICK s \in C : \A t \in C : Cardinality(s) <= Cardinality(t)
    <2> HIDE DEF C
    <2> QED BY <1>1, <1>2, Smallest
  <1>4. s # {}
    BY DEF Sums
  <1>5. Pick(s) \in s
    BY <1>4 DEF Pick
  <1>6. IsFiniteSet(s) /\ Cardinality(s \ {Pick(s)}) = Cardinality(s) - 1 /\ Cardinality(s) \in Nat
    BY <1>2, <1>5, FS_RemoveElement, FS_CardinalityType
  <1>7. s \ {Pick(s)} \notin C
    <2> HIDE DEF C
    <2> QED BY <1>3, <1>6
  <1>8. g[s \ {Pick(s)}] = h[s \ {Pick(s)}]
    BY <1>7
  <1>9. g[s] = Bytes[Pick(s)] + g[s \ {Pick(s)}] /\ h[s] = Bytes[Pick(s)] + h[s \ {Pick(s)}]
    <2>1. s \in SUBSET S /\ s \in SUBSET T
      OBVIOUS
    <2> HIDE DEF C
    <2> QED BY Zenon, <1>4, <2>1 DEF Sums
  <1> QED BY <1>8, <1>9

(* A finite set has a solution. *)
LEMMA SumsExist ==
  ASSUME NEW S, IsFiniteSet(S)
  PROVE  \E g : Sums(g, S)
  <1> DEFINE C == {s \in SUBSET S : ~\E g : Sums(g, s)}
  <1>1. SUFFICES ASSUME C # {} PROVE FALSE
    OBVIOUS
  <1>2. \A s \in SUBSET S : IsFiniteSet(s)
    BY FS_Subset
  <1>3. PICK s \in C : \A t \in C : Cardinality(s) <= Cardinality(t)
    <2>1. \A t \in C : IsFiniteSet(t)
      BY <1>2
    <2> HIDE DEF C
    <2> QED BY <1>1, <2>1, Smallest
  <1>4. ASSUME NEW t \in SUBSET s, t # s PROVE Sums(CHOOSE g : Sums(g, t), t)
    <2>1. Cardinality(t) < Cardinality(s)
      <3>1. IsFiniteSet(s) /\ IsFiniteSet(t)
        BY <1>2
      <3> QED BY <1>4, <3>1, FS_Subset, FS_CardinalityType
    <2>2. t \notin C
      <3>1. Cardinality(t) \in Nat /\ Cardinality(s) \in Nat
        BY <1>2, FS_CardinalityType
      <3> HIDE DEF C
      <3> QED BY <1>3, <2>1, <3>1
    <2>3. \E g : Sums(g, t)
      BY <2>2
    <2> QED BY <2>3
  <1>5. ASSUME NEW t \in SUBSET s, t # s
        PROVE  Sum(t) = IF t = {} THEN 0 ELSE Bytes[Pick(t)] + Sum(t \ {Pick(t)})
    <2> DEFINE g == CHOOSE g : Sums(g, t)
    <2>1. Sums(g, t)
      BY <1>4, <1>5
    <2>2. CASE t = {}
      BY <2>1, <2>2 DEF Sum, Sums
    <2>3. CASE t # {}
      <3> DEFINE u == t \ {Pick(t)}
                 h == CHOOSE h : Sums(h, u)
      <3>1. Pick(t) \in t
        BY <2>3 DEF Pick
      <3>2. u \in SUBSET s /\ u # s
        BY <3>1
      <3>3. Sums(h, u)
        BY <1>4, <3>2
      <3>4. g[u] = h[u]
        <4>1. IsFiniteSet(u)
          BY <1>2, <3>2
        <4>2. u \in (SUBSET t) \cap (SUBSET u)
          OBVIOUS
        <4> HIDE DEF g, h, u
        <4> QED BY <2>1, <3>3, <4>1, <4>2, SumsAgree
      <3>5. g[t] = Bytes[Pick(t)] + g[u]
        BY <2>1, <2>3 DEF Sums
      <3> QED BY <2>3, <3>4, <3>5 DEF Sum
    <2> QED BY <2>2, <2>3
  <1> DEFINE G == [t \in SUBSET s |-> IF t = {} THEN 0 ELSE Bytes[Pick(t)] + Sum(t \ {Pick(t)})]
  <1>6. ASSUME NEW t \in SUBSET s, t # {} PROVE Sum(t \ {Pick(t)}) = G[t \ {Pick(t)}]
    <2>1. Pick(t) \in t
      BY <1>6 DEF Pick
    <2>2. t \ {Pick(t)} \in SUBSET s /\ t \ {Pick(t)} # s
      BY <2>1
    <2> QED BY <1>5, <2>2
  <1>7. Sums(G, s)
    <2>1. ASSUME NEW t \in SUBSET s
          PROVE  G[t] = IF t = {} THEN 0 ELSE Bytes[Pick(t)] + G[t \ {Pick(t)}]
      <3>1. G[t] = IF t = {} THEN 0 ELSE Bytes[Pick(t)] + Sum(t \ {Pick(t)})
        OBVIOUS
      <3> HIDE DEF G
      <3> QED BY <1>6, <3>1
    <2>2. G = [t \in SUBSET s |-> G[t]]
      OBVIOUS
    <2> HIDE DEF G
    <2> QED BY <2>1, <2>2 DEF Sums
  <1> QED BY <1>7

(* So the sum satisfies the equation itself. *)
LEMMA SumRec ==
  ASSUME NEW S, IsFiniteSet(S)
  PROVE  /\ Sum({}) = 0
         /\ S # {} => Pick(S) \in S /\ Sum(S) = Bytes[Pick(S)] + Sum(S \ {Pick(S)})
  <1>1. ASSUME NEW T, IsFiniteSet(T) PROVE Sums(CHOOSE g : Sums(g, T), T)
    BY <1>1, SumsExist
  <1>2. Sum({}) = 0
    BY <1>1, FS_EmptySet DEF Sum, Sums
  <1>3. ASSUME S # {} PROVE Pick(S) \in S /\ Sum(S) = Bytes[Pick(S)] + Sum(S \ {Pick(S)})
    <2> DEFINE U == S \ {Pick(S)}
               g == CHOOSE g : Sums(g, S)
               h == CHOOSE h : Sums(h, U)
    <2>1. Pick(S) \in S
      BY <1>3 DEF Pick
    <2>2. IsFiniteSet(U)
      BY FS_RemoveElement
    <2>3. Sums(g, S) /\ Sums(h, U)
      BY <1>1, <2>2
    <2>4. g[U] = h[U]
      <3>1. U \in (SUBSET S) \cap (SUBSET U)
        OBVIOUS
      <3> HIDE DEF g, h, U
      <3> QED BY <2>2, <2>3, <3>1, SumsAgree
    <2>5. g[S] = Bytes[Pick(S)] + g[U]
      BY <1>3, <2>3 DEF Sums
    <2> QED BY <2>1, <2>4, <2>5 DEF Sum
  <1> QED BY <1>2, <1>3

(* Sizes are numbers, and so is their sum. *)
LEMMA SumType ==
  ASSUME NEW S \in SUBSET Record, IsFiniteSet(S) PROVE Sum(S) \in Nat
  <1> DEFINE C == {s \in SUBSET S : Sum(s) \notin Nat}
  <1>1. SUFFICES ASSUME C # {} PROVE FALSE
    OBVIOUS
  <1>2. \A s \in C : IsFiniteSet(s)
    BY FS_Subset
  <1>3. PICK s \in C : \A t \in C : Cardinality(s) <= Cardinality(t)
    <2> HIDE DEF C
    <2> QED BY <1>1, <1>2, Smallest
  <1>4. s # {} /\ IsFiniteSet(s)
    <2>1. Sum({}) = 0
      BY FS_EmptySet, SumRec
    <2> QED BY <1>2, <2>1
  <1>5. Pick(s) \in s /\ Sum(s) = Bytes[Pick(s)] + Sum(s \ {Pick(s)})
    BY <1>4, SumRec
  <1>6. Cardinality(s \ {Pick(s)}) = Cardinality(s) - 1 /\ Cardinality(s) \in Nat
    BY <1>4, <1>5, FS_RemoveElement, FS_CardinalityType
  <1>7. s \ {Pick(s)} \notin C
    <2> HIDE DEF C
    <2> QED BY <1>3, <1>6
  <1>8. Bytes[Pick(s)] \in Nat
    BY <1>5, QueueAssumption
  <1> QED BY <1>5, <1>7, <1>8

(* Whichever row is taken out, its size is what the sum loses. *)
LEMMA SumGrows ==
  ASSUME NEW S \in SUBSET Record, IsFiniteSet(S), NEW x \in S
  PROVE  Sum(S) = Bytes[x] + Sum(S \ {x})
  <1> DEFINE C == {s \in SUBSET S : \E y \in s : Sum(s) # Bytes[y] + Sum(s \ {y})}
  <1>1. SUFFICES ASSUME C # {} PROVE FALSE
    OBVIOUS
  <1>2. \A s \in SUBSET S : IsFiniteSet(s)
    BY FS_Subset
  <1>3. PICK s \in C : \A t \in C : Cardinality(s) <= Cardinality(t)
    <2>1. \A t \in C : IsFiniteSet(t)
      BY <1>2
    <2> HIDE DEF C
    <2> QED BY <1>1, <2>1, Smallest
  <1>4. PICK y \in s : Sum(s) # Bytes[y] + Sum(s \ {y})
    OBVIOUS
  <1> DEFINE x0 == Pick(s)
  <1>5. x0 \in s /\ Sum(s) = Bytes[x0] + Sum(s \ {x0})
    BY <1>2, SumRec
  <1>6. y # x0
    BY <1>4, <1>5
  <1>7. /\ Cardinality(s) \in Nat /\ Cardinality(s \ {x0}) = Cardinality(s) - 1
        /\ Cardinality(s \ {y}) = Cardinality(s) - 1
    <2>1. IsFiniteSet(s) /\ y \in s /\ x0 \in s
      BY <1>2, <1>5
    <2> HIDE DEF C, x0
    <2> QED BY <2>1, FS_RemoveElement, FS_CardinalityType
  <1>8. s \ {x0} \notin C /\ s \ {y} \notin C
    <2> HIDE DEF C
    <2> QED BY <1>3, <1>7
  <1>9. Sum(s \ {x0}) = Bytes[y] + Sum((s \ {x0}) \ {y})
    BY <1>6, <1>8
  <1>10. Sum(s \ {y}) = Bytes[x0] + Sum((s \ {y}) \ {x0})
    BY <1>5, <1>6, <1>8
  <1>11. (s \ {x0}) \ {y} = (s \ {y}) \ {x0}
    OBVIOUS
  <1>12. Bytes[x0] \in Nat /\ Bytes[y] \in Nat /\ Sum((s \ {y}) \ {x0}) \in Nat
    <2>1. IsFiniteSet((s \ {y}) \ {x0})
      BY <1>2
    <2> QED BY <1>5, <2>1, QueueAssumption, SumType
  <1> DEFINE rest == Sum((s \ {y}) \ {x0})
  <1>13. Sum(s \ {x0}) = Bytes[y] + rest /\ Sum(s \ {y}) = Bytes[x0] + rest
    BY <1>9, <1>10, <1>11
  <1> HIDE DEF x0, C, rest
  <1> QED BY <1>4, <1>5, <1>12, <1>13 DEF rest

(* The queue counts its rows as everybody does. *)
LEMMA QueueCounts == ASSUME NEW S PROVE Queue!Cardinality(S) = Cardinality(S)
  BY Zenon DEF Queue!Cardinality, Cardinality

(* The rows that there are. *)
Rows == {q \in Record : qItem[q].st # "none"}
FewRows == IsFiniteSet(Rows)

(* Only an admission makes a row of the queue (dao.py:10497-11096). *)
LEMMA OnlyAdmitted ==
  ASSUME QueueInv, Queue!Next, NEW r \in Record, qItem[r].st = "none"
  PROVE  qItem'[r].st = "none" \/ Queue!Admit(r)
  <1>1. RecordFits(r)
    BY DEF QueueInv
  <1>2. qItem[r] \in QueueRow /\ qJob[r] \in JobRow /\ DOMAIN qItem = Record
    BY DEF QueueInv, QueueShape
  <1>3. ASSUME NEW q \in Record, q # r,
               \/ Queue!Admit(q) \/ Queue!Work(q) \/ Queue!Expire(q) \/ Queue!Retract(q)
               \/ Queue!Replay(q)
        PROVE  qItem'[r].st = "none"
    BY <1>3, WorkFits DEF QueueInv, Others
  <1>4. CASE Queue!Work(r)
    <2>1. ~Queue!Complete(r)
      BY <1>1, <1>2 DEF Queue!Complete, RecordFits, Working, Closed
    <2> QED BY <1>4, <2>1 DEF Queue!Work, Queue!LoadLog, Queue!Judge, Queue!SettleLog,
               Queue!LogDone, Queue!NextLog
  <1>5. CASE Queue!Expire(r) \/ Queue!Retract(r) \/ Queue!Replay(r)
    BY <1>2, <1>5 DEF Queue!Expire, Queue!Retract, Queue!Replay, QueueRow
  <1>6. CASE Queue!ClaimBatch \/ Queue!Restart
    <2>1. qItem'[r] = qItem[r]
      BY Zenon, <1>6 DEF Queue!ClaimBatch, Queue!Restart, Queue!Claimable
    <2> QED BY <2>1
  <1>7. CASE \/ Queue!EndBatch \/ Queue!ClaimSession \/ Queue!ListLogs \/ Queue!CompleteSession
             \/ Queue!FailSession \/ Queue!EndSession \/ Queue!ExpireSession
    BY <1>7 DEF Queue!EndBatch, Queue!ClaimSession, Queue!ListLogs, Queue!CompleteSession,
       Queue!FailSession, Queue!EndSession, Queue!ExpireSession
  <1> QED BY <1>3, <1>4, <1>5, <1>6, <1>7 DEF Queue!Next, Queue!Consume, Queue!Loop

(* An admission makes one row and leaves the others alone (dao.py:9909-10096). *)
LEMMA AdmitsOne ==
  ASSUME QueueInv, NEW r \in Record, Queue!Admit(r)
  PROVE  /\ qItem'[r].st = "ENQUEUED"
         /\ \A q \in Record \ {r} : qItem'[q] = qItem[q]
  BY DEF Queue!Admit, QueueInv, QueueShape, QueueRow

(* So the queue is finite, and what it holds can be counted and weighed. *)
LEMMA RowsHold == Spec => []FewRows
  <1>1. Init => FewRows
    <2> SUFFICES ASSUME Init PROVE Rows = {}
      BY FS_EmptySet DEF FewRows
    <2> QED BY DEF Init, Queue!Init, Rows
  <1>2. QueueInv /\ FewRows /\ [Next]_vars => FewRows'
    <2> SUFFICES ASSUME QueueInv, FewRows, [Next]_vars PROVE FewRows'
      OBVIOUS
    <2>1. CASE Queue!Next
      <3>1. CASE \E r \in Record : Queue!Admit(r)
        <4>1. PICK r \in Record : Queue!Admit(r)
          BY <3>1
        <4>2. Rows' \subseteq Rows \cup {r}
          BY <4>1, AdmitsOne DEF Rows
        <4> QED BY <4>2, FS_AddElement, FS_Subset DEF FewRows
      <3>2. CASE ~\E r \in Record : Queue!Admit(r)
        <4>1. Rows' \subseteq Rows
          BY <2>1, <3>2, OnlyAdmitted DEF Rows
        <4> QED BY <4>1, FS_Subset DEF FewRows
      <3> QED BY <3>1, <3>2
    <2>2. CASE UNCHANGED Queue!vars
      BY <2>2 DEF Queue!vars, Rows, FewRows
    <2> QED BY <2>1, <2>2, QueueParted
  <1> QED BY <1>1, <1>2, QueueHolds, PTL DEF Spec

(* An admission never brings the queue over its budget of records and bytes: the one it
   admits is counted with every row that waits (dao.py:9828-9908). *)
THEOREM AdmissionsKeepBudget == Spec => AdmissionKeepsBudget
  <1>1. QueueInv /\ FewRows /\ [Next]_vars =>
          [\A r \in Record : qItem[r].st = "none" /\ qItem'[r].st # "none" =>
              LET waiting == {q \in Record :
                                qItem'[q].st \notin {"none", "FINALIZED", "DEAD_LETTER"}}
              IN  /\ Queue!Cardinality(waiting) <= MaxRecords
                  /\ Queue!Weight(waiting) <= MaxBytes]_(Queue!vars)
    <2> DEFINE waiting ==
                 {q \in Record : qItem[q].st \notin {"none", "FINALIZED", "DEAD_LETTER"}}
    <2> SUFFICES ASSUME QueueInv, FewRows, Queue!Next, NEW r \in Record,
                        qItem[r].st = "none", qItem'[r].st # "none"
                 PROVE  /\ Queue!Cardinality(waiting') <= MaxRecords
                        /\ Queue!Weight(waiting') <= MaxBytes
      BY QueueParted
    <2>1. Queue!Admit(r)
      BY OnlyAdmitted
    <2> DEFINE active == Queue!InState(Record, Queue!Active)
    <2>2. active = waiting
      <3>1. \A q \in Record : qItem[q].st \in Queue!ItemState
        BY DEF QueueInv, QueueShape, QueueRow
      <3> QED BY <3>1 DEF Queue!InState, Queue!Active, Queue!ItemState
    <2>3. waiting' = waiting \cup {r} /\ r \notin waiting
      BY <2>1, AdmitsOne
    <2>4. IsFiniteSet(waiting)
      <3>1. waiting \subseteq Rows
        BY DEF Rows
      <3> QED BY <3>1, FS_Subset DEF FewRows
    <2>5. Cardinality(waiting) + 1 <= MaxRecords /\ Queue!Weight(waiting) + Bytes[r] <= MaxBytes
      <3>1. Queue!HasRoom(r, Record)
        BY <2>1 DEF Queue!Admit
      <3> HIDE DEF waiting
      <3>2. /\ Cardinality(active) + 1 <= MaxRecords
            /\ Queue!Weight(active) + Bytes[r] <= MaxBytes
        BY Zenon, <3>1, QueueCounts DEF Queue!HasRoom
      <3> HIDE DEF active
      <3> QED BY Zenon, <2>2, <3>2
    <2>6. waiting \in SUBSET Record
      OBVIOUS
    <2> HIDE DEF waiting, active
    <2>7. /\ IsFiniteSet(waiting \cup {r})
          /\ Cardinality(waiting \cup {r}) = Cardinality(waiting) + 1
      BY <2>3, <2>4, FS_AddElement
    <2>8. Sum(waiting \cup {r}) = Bytes[r] + Sum(waiting)
      <3>1. /\ (waiting \cup {r}) \ {r} = waiting /\ r \in waiting \cup {r}
            /\ waiting \cup {r} \in SUBSET Record
        BY <2>3, <2>6
      <3> QED BY <2>7, <3>1, SumGrows
    <2>9. Sum(waiting) \in Nat /\ Bytes[r] \in Nat
      BY <2>4, <2>6, SumType, QueueAssumption
    <2>10. Queue!Weight(waiting \cup {r}) = Queue!Weight(waiting) + Bytes[r]
      BY <2>8, <2>9, WeightIsSum
    <2> QED BY <2>3, <2>5, <2>7, <2>10, QueueCounts
  <1> QED BY <1>1, QueueHolds, RowsHold, PTL DEF Spec, AdmissionKeepsBudget,
             Queue!AdmissionKeepsBudget
=============================================================================
