--------------------------- MODULE CatalogProofs ---------------------------
(***************************************************************************)
(* What is proved of the catalog's own tables, kept by LegacyStore and     *)
(* Admission in Components: memories, their purge journal, revisions,      *)
(* mutations and receipts.  Each part first says what an operation does to *)
(* one row, then the inductive invariant, then the operations against it.  *)
(* A leaf names its prover where only that one finds it soon.              *)
(***************************************************************************)
EXTENDS Components, TLAPS, WellFoundedInduction, FiniteSetTheorems, SequenceTheorems

(* A set of numbers that is not empty has a least one. *)
LEMMA Least == ASSUME NEW S \in SUBSET Nat, S # {} PROVE \E l \in S : \A n \in S : l <= n
<1> DEFINE R == {ss \in Nat \X Nat : ss[1] < ss[2]}
<1>1. IsWellFoundedOn(R, Nat)
  BY NatLessThanWellFounded DEF OpToRel
<1> HIDE DEF R
<1>2. PICK l \in S : \A n \in S : ~(<<n, l>> \in R)
  BY <1>1, WFMin
<1>3. ASSUME NEW n \in S PROVE l <= n
  <2>1. ~(n < l)
    BY <1>2 DEF R
  <2> QED BY <2>1
<1> QED BY <1>3

(* A step of the composition is a step of these components too, or leaves them alone. *)
LEMMA CatalogParted ==
  ASSUME [Next]_vars
  PROVE  [Legacy!Next]_(Legacy!vars) /\ [Admission!Next]_(Admission!vars)
  <1> USE DEF Next, vars, queue, admission, identity, wal, legacy, retrieval, tables, store,
          walk, gateway, letters, root, migration, NextQueue, NextAdmission, NextIdentity,
          NextWal, NextLegacy, NextRetrieval, NextTables, NextStore, NextWalk, NextGateway,
          NextLetters, NextRoot, NextMigration, StillQueue, StillAdmission, StillIdentity,
          StillWal, StillLegacy, StillRetrieval, StillTables, StillStore, StillWalk,
          StillGateway, StillLetters, StillRoot, StillMigration
  <1>1. [Legacy!Next]_(Legacy!vars) BY SMTT(60) DEF Legacy!vars
  <1>2. [Admission!Next]_(Admission!vars) BY SMTT(60) DEF Admission!vars
  <1> QED BY <1>1, <1>2

-----------------------------------------------------------------------------
(* Memories and their purge (LegacyStore). *)

StagedSteps == {"vector", "graph", "expire", "activate", "activate queued", "undo", "undo expired",
           "undo row", "undo staged"}
WrittenSteps == {"graph", "expire", "activate", "activate queued", "bulk graph"}
InsertStep == {"none", "stage", "stage queued", "bulk vector", "bulk undo"}
              \cup StagedSteps \cup WrittenSteps
LegacyShape ==
    /\ lSql \in [Node -> {"none", "staged", "active", "invalid", "tombstoned"}]
    /\ lVec \in [Node -> {"none", "live", "expired"}]
    /\ lGraph \in SUBSET Node /\ lQueued \in SUBSET Node
    /\ lIns \in [Node -> [step: InsertStep, old: SUBSET Node]]
Backed(n) == n \in lPurge.nodes \/ n \in lQueued \/ lVec[n] # "none"
RowFits(n) == /\ lIns[n].step \in StagedSteps => lSql[n] = "staged"
              /\ lIns[n].step \in {"stage", "stage queued"} => lSql[n] = "none"
WriteFits(n) == /\ lIns[n].step \in WrittenSteps => Backed(n)
                /\ lIns[n].step = "none" /\ lSql[n] = "active" => Backed(n)
Elsewhere(n) ==
    /\ \A m \in Node \ {n} :
          /\ lIns'[m] = lIns[m]
          /\ m \in lGraph' <=> m \in lGraph
          /\ m \in lQueued' <=> m \in lQueued
          /\ lVec'[m] = "none" <=> lVec[m] = "none"
          /\ \/ lSql'[m] = lSql[m]
             \/ lSql[m] = "active" /\ lSql'[m] = "invalid"
             \/ lSql[m] = "invalid" /\ lSql'[m] = "active" /\ m \in lIns[n].old
    /\ lPurge' = lPurge /\ lAt' = lAt
Begun(n) ==
    /\ \A m \in lIns'[n].old : m \in lIns[n].old \/ lSql[m] = "active"
    /\ lIns[n].step = "none" => lSql[n] = "none"
    /\ lIns'[n].step = "none" => lSql'[n] # "invalid" \/ Backed(n)'
InsertAs(n, s, old) ==
    /\ lIns' \in [Node -> [step: InsertStep, old: SUBSET Node]]
    /\ lIns'[n].step = s /\ lIns'[n].old = old
    /\ \A m \in Node \ {n} : lIns'[m] = lIns[m]

(* A step of an insert moves its own place in the saga (dao.py:8357-8538). *)
LEMMA StepMoves ==
  ASSUME LegacyShape, NEW n \in Node, NEW s \in InsertStep, Legacy!Step(n, s)
  PROVE  InsertAs(n, s, lIns[n].old)
  BY DEF LegacyShape, Legacy!Step, InsertAs

(* An insert that ends forgets what it had begun (dao.py:8518-8538). *)
LEMMA EndMoves ==
  ASSUME LegacyShape, NEW n \in Node, lIns' = [lIns EXCEPT ![n] = Legacy!NoInsert]
  PROVE  InsertAs(n, "none", {})
  BY ZenonT(60) DEF LegacyShape, Legacy!NoInsert, InsertAs, InsertStep

(* What a step of an insert does to its own memory, and leaves of the others
   (dao.py:8319-8746). *)
LEMMA InsertMoves ==
  ASSUME LegacyShape, NEW n \in Node, RowFits(n), WriteFits(n), Legacy!Insert(n)
  PROVE  LegacyShape' /\ Elsewhere(n) /\ Begun(n) /\ RowFits(n)' /\ WriteFits(n)'
  <1>1. CASE Legacy!Stage(n)
    <2>1. \/ Legacy!Step(n, "vector") /\ Legacy!At(n, "stage")
          \/ Legacy!Step(n, "activate queued") /\ n \in lQueued'
      BY ZenonT(60), <1>1 DEF Legacy!Stage, Legacy!At, LegacyShape, Legacy!stores
    <2>2. \/ InsertAs(n, "vector", lIns[n].old) /\ Legacy!At(n, "stage")
          \/ InsertAs(n, "activate queued", lIns[n].old) /\ n \in lQueued'
      BY ZenonT(60), <2>1, StepMoves, EndMoves DEF InsertStep, StagedSteps, WrittenSteps
    <2>3. LegacyShape'
      BY ZenonT(60), <1>1, <2>2 DEF Legacy!Stage, LegacyShape, InsertAs, Legacy!stores
    <2>4. Elsewhere(n)
      BY ZenonT(60), <1>1, <2>2 DEF Legacy!Stage, Elsewhere, LegacyShape, InsertAs, Legacy!stores
    <2>5. Begun(n)
      BY ZenonT(60), <1>1, <2>2 DEF Legacy!Stage, Begun, RowFits, WriteFits, Backed, LegacyShape,
         StagedSteps, WrittenSteps, InsertAs, Legacy!stores, Legacy!At
    <2>6. RowFits(n)'
      BY ZenonT(60), <1>1, <2>2 DEF Legacy!Stage, RowFits, LegacyShape, StagedSteps, InsertAs,
         Legacy!stores, Legacy!At
    <2>7. WriteFits(n)'
      BY ZenonT(60), <1>1, <2>2 DEF Legacy!Stage, RowFits, WriteFits, Backed, LegacyShape,
         StagedSteps,
         WrittenSteps, InsertAs, Legacy!stores, Legacy!At
    <2> QED BY <2>3, <2>4, <2>5, <2>6, <2>7
  <1>2. CASE Legacy!Upsert(n)
    <2>1. \/ Legacy!Step(n, "graph") /\ lVec'[n] = "live"
          \/ Legacy!Step(n, "expire") /\ lVec'[n] = "live"
          \/ Legacy!Step(n, "undo") /\ lVec' = lVec
      BY <1>2 DEF Legacy!Upsert, Legacy!At, LegacyShape, Legacy!stores
    <2>2. \/ InsertAs(n, "graph", lIns[n].old) /\ lVec'[n] = "live"
          \/ InsertAs(n, "expire", lIns[n].old) /\ lVec'[n] = "live"
          \/ InsertAs(n, "undo", lIns[n].old) /\ lVec' = lVec
      BY ZenonT(60), <2>1, StepMoves, EndMoves DEF InsertStep, StagedSteps, WrittenSteps
    <2>3. LegacyShape'
      BY <1>2, <2>2 DEF Legacy!Upsert, LegacyShape, InsertAs, Legacy!stores
    <2>4. Elsewhere(n)
      BY <1>2, <2>2 DEF Legacy!Upsert, Elsewhere, LegacyShape, InsertAs, Legacy!stores
    <2>5. Begun(n)
      BY <1>2, <2>2 DEF Legacy!Upsert, Begun, RowFits, WriteFits, Backed, LegacyShape,
         StagedSteps, WrittenSteps, InsertAs, Legacy!stores, Legacy!At
    <2>6. RowFits(n)'
      BY ZenonT(60), <1>2, <2>2 DEF Legacy!Upsert, RowFits, LegacyShape, StagedSteps, InsertAs,
         Legacy!stores, Legacy!At
    <2>7. WriteFits(n)'
      BY ZenonT(60), <1>2, <2>2 DEF Legacy!Upsert, RowFits, WriteFits, Backed, LegacyShape,
         StagedSteps,
         WrittenSteps, InsertAs, Legacy!stores, Legacy!At
    <2> QED BY <2>3, <2>4, <2>5, <2>6, <2>7
  <1>3. CASE Legacy!InsertNode(n)
    <2>1. \/ Legacy!Step(n, "expire")
          \/ Legacy!Step(n, "undo")
      BY <1>3 DEF Legacy!InsertNode, Legacy!At, LegacyShape, Legacy!stores
    <2>2. \/ InsertAs(n, "expire", lIns[n].old)
          \/ InsertAs(n, "undo", lIns[n].old)
      BY ZenonT(60), <2>1, StepMoves, EndMoves DEF InsertStep, StagedSteps, WrittenSteps
    <2>3. LegacyShape'
      BY <1>3, <2>2 DEF Legacy!InsertNode, LegacyShape, InsertAs, Legacy!stores
    <2>4. Elsewhere(n)
      BY <1>3, <2>2 DEF Legacy!InsertNode, Elsewhere, LegacyShape, InsertAs, Legacy!stores
    <2>5. Begun(n)
      BY <1>3, <2>2 DEF Legacy!InsertNode, Begun, RowFits, WriteFits, Backed, LegacyShape,
         StagedSteps, WrittenSteps, InsertAs, Legacy!stores, Legacy!At
    <2>6. RowFits(n)'
      BY ZenonT(60), <1>3, <2>2 DEF Legacy!InsertNode, RowFits, LegacyShape, StagedSteps, InsertAs,
         Legacy!stores, Legacy!At
    <2>7. WriteFits(n)'
      BY ZenonT(60), <1>3, <2>2 DEF Legacy!InsertNode, RowFits, WriteFits, Backed, LegacyShape,
         StagedSteps, WrittenSteps, InsertAs, Legacy!stores, Legacy!At
    <2> QED BY <2>3, <2>4, <2>5, <2>6, <2>7
  <1>4. CASE Legacy!Expire(n)
    <2>1. \/ Legacy!Step(n, "activate")
          \/ Legacy!Step(n, "undo expired")
      BY ZenonT(60), <1>4 DEF Legacy!Expire, Legacy!At, LegacyShape, Legacy!stores
    <2>2. \/ InsertAs(n, "activate", lIns[n].old)
          \/ InsertAs(n, "undo expired", lIns[n].old)
      BY ZenonT(60), <2>1, StepMoves, EndMoves DEF InsertStep, StagedSteps, WrittenSteps
    <2>3. LegacyShape'
      BY ZenonT(60), <1>4, <2>2 DEF Legacy!Expire, LegacyShape, InsertAs, Legacy!stores
    <2>4. Elsewhere(n)
      BY ZenonT(60), <1>4, <2>2 DEF Legacy!Expire, Elsewhere, LegacyShape, InsertAs, Legacy!stores
    <2>5. Begun(n)
      BY ZenonT(60), <1>4, <2>2 DEF Legacy!Expire, Begun, RowFits, WriteFits, Backed,
         LegacyShape, StagedSteps, WrittenSteps, InsertAs, Legacy!stores, Legacy!At
    <2>6. RowFits(n)'
      BY ZenonT(60), <1>4, <2>2 DEF Legacy!Expire, RowFits, LegacyShape, StagedSteps, InsertAs,
         Legacy!stores, Legacy!At
    <2>7. WriteFits(n)'
      BY ZenonT(60), <1>4, <2>2 DEF Legacy!Expire, RowFits, WriteFits, Backed, LegacyShape,
         StagedSteps,
         WrittenSteps, InsertAs, Legacy!stores, Legacy!At
    <2> QED BY <2>3, <2>4, <2>5, <2>6, <2>7
  <1>5. CASE Legacy!UndoStores(n)
    <2>1. \/ Legacy!Step(n, "undo row")
          \/ Legacy!Step(n, "undo staged")
      BY ZenonT(60), <1>5 DEF Legacy!UndoStores, Legacy!At, LegacyShape, Legacy!stores
    <2>2. \/ InsertAs(n, "undo row", lIns[n].old)
          \/ InsertAs(n, "undo staged", lIns[n].old)
      BY ZenonT(60), <2>1, StepMoves, EndMoves DEF InsertStep, StagedSteps, WrittenSteps
    <2>3. LegacyShape'
      BY ZenonT(60), <1>5, <2>2 DEF Legacy!UndoStores, Legacy!SetIn, LegacyShape, InsertAs,
         Legacy!stores
    <2>4. Elsewhere(n)
      BY ZenonT(60), <1>5, <2>2 DEF Legacy!UndoStores, Legacy!SetIn, Elsewhere, LegacyShape,
         InsertAs,
         Legacy!stores
    <2>5. Begun(n)
      BY ZenonT(60), <1>5, <2>2 DEF Legacy!UndoStores, Legacy!SetIn, Begun, RowFits, WriteFits,
         Backed, LegacyShape, StagedSteps, WrittenSteps, InsertAs, Legacy!stores, Legacy!At
    <2>6. RowFits(n)'
      BY ZenonT(60), <1>5, <2>2 DEF Legacy!UndoStores, Legacy!SetIn, RowFits, LegacyShape,
         StagedSteps, InsertAs, Legacy!stores, Legacy!At
    <2>7. WriteFits(n)'
      BY ZenonT(60), <1>5, <2>2 DEF Legacy!UndoStores, Legacy!SetIn, RowFits, WriteFits, Backed,
         LegacyShape, StagedSteps, WrittenSteps, InsertAs, Legacy!stores, Legacy!At
    <2> QED BY <2>3, <2>4, <2>5, <2>6, <2>7
  <1>6. CASE Legacy!Bulk(n)
    <2>1. \/ Legacy!Step(n, "none") /\ n \in lQueued'
          \/ Legacy!Step(n, "bulk vector")
      BY ZenonT(60), <1>6 DEF Legacy!Bulk, Legacy!At, LegacyShape, Legacy!stores
    <2>2. \/ InsertAs(n, "none", lIns[n].old) /\ n \in lQueued'
          \/ InsertAs(n, "bulk vector", lIns[n].old)
      BY ZenonT(60), <2>1, StepMoves, EndMoves DEF InsertStep, StagedSteps, WrittenSteps
    <2>3. LegacyShape'
      BY ZenonT(60), <1>6, <2>2 DEF Legacy!Bulk, LegacyShape, InsertAs, Legacy!stores
    <2>4. Elsewhere(n)
      BY ZenonT(60), <1>6, <2>2 DEF Legacy!Bulk, Elsewhere, LegacyShape, InsertAs, Legacy!stores
    <2>5. Begun(n)
      BY ZenonT(60), <1>6, <2>2 DEF Legacy!Bulk, Begun, RowFits, WriteFits, Backed, LegacyShape,
         StagedSteps, WrittenSteps, InsertAs, Legacy!stores, Legacy!At
    <2>6. RowFits(n)'
      BY ZenonT(60), <1>6, <2>2 DEF Legacy!Bulk, RowFits, LegacyShape, StagedSteps, InsertAs,
         Legacy!stores, Legacy!At
    <2>7. WriteFits(n)'
      BY ZenonT(60), <1>6, <2>2 DEF Legacy!Bulk, RowFits, WriteFits, Backed, LegacyShape,
         StagedSteps,
         WrittenSteps, InsertAs, Legacy!stores, Legacy!At
    <2> QED BY <2>3, <2>4, <2>5, <2>6, <2>7
  <1>7. CASE Legacy!BulkUpsert(n)
    <2>1. \/ Legacy!Step(n, "none") /\ lVec'[n] = "live"
          \/ Legacy!Step(n, "bulk graph") /\ lVec'[n] = "live"
          \/ Legacy!Step(n, "bulk undo")
      BY ZenonT(60), <1>7 DEF Legacy!BulkUpsert, Legacy!At, LegacyShape, Legacy!stores
    <2>2. \/ InsertAs(n, "none", lIns[n].old) /\ lVec'[n] = "live"
          \/ InsertAs(n, "bulk graph", lIns[n].old) /\ lVec'[n] = "live"
          \/ InsertAs(n, "bulk undo", lIns[n].old)
      BY ZenonT(60), <2>1, StepMoves, EndMoves DEF InsertStep, StagedSteps, WrittenSteps
    <2>3. LegacyShape'
      BY ZenonT(60), <1>7, <2>2 DEF Legacy!BulkUpsert, LegacyShape, InsertAs, Legacy!stores
    <2>4. Elsewhere(n)
      BY ZenonT(60), <1>7, <2>2 DEF Legacy!BulkUpsert, Elsewhere, LegacyShape, InsertAs,
         Legacy!stores
    <2>5. Begun(n)
      BY ZenonT(60), <1>7, <2>2 DEF Legacy!BulkUpsert, Begun, RowFits, WriteFits, Backed,
         LegacyShape, StagedSteps, WrittenSteps, InsertAs, Legacy!stores, Legacy!At
    <2>6. RowFits(n)'
      BY ZenonT(60), <1>7, <2>2 DEF Legacy!BulkUpsert, RowFits, LegacyShape, StagedSteps, InsertAs,
         Legacy!stores, Legacy!At
    <2>7. WriteFits(n)'
      BY ZenonT(60), <1>7, <2>2 DEF Legacy!BulkUpsert, RowFits, WriteFits, Backed, LegacyShape,
         StagedSteps, WrittenSteps, InsertAs, Legacy!stores, Legacy!At
    <2> QED BY <2>3, <2>4, <2>5, <2>6, <2>7
  <1>8. CASE Legacy!BulkNode(n)
    <2>1. \/ Legacy!Step(n, "none")
          \/ Legacy!Step(n, "bulk undo")
      BY ZenonT(60), <1>8 DEF Legacy!BulkNode, Legacy!At, LegacyShape, Legacy!stores
    <2>2. \/ InsertAs(n, "none", lIns[n].old)
          \/ InsertAs(n, "bulk undo", lIns[n].old)
      BY ZenonT(60), <2>1, StepMoves, EndMoves DEF InsertStep, StagedSteps, WrittenSteps
    <2>3. LegacyShape'
      BY ZenonT(60), <1>8, <2>2 DEF Legacy!BulkNode, LegacyShape, InsertAs, Legacy!stores
    <2>4. Elsewhere(n)
      BY ZenonT(60), <1>8, <2>2 DEF Legacy!BulkNode, Elsewhere, LegacyShape, InsertAs, Legacy!stores
    <2>5. Begun(n)
      BY ZenonT(60), <1>8, <2>2 DEF Legacy!BulkNode, Begun, RowFits, WriteFits, Backed,
         LegacyShape, StagedSteps, WrittenSteps, InsertAs, Legacy!stores, Legacy!At
    <2>6. RowFits(n)'
      BY ZenonT(60), <1>8, <2>2 DEF Legacy!BulkNode, RowFits, LegacyShape, StagedSteps, InsertAs,
         Legacy!stores, Legacy!At
    <2>7. WriteFits(n)'
      BY ZenonT(60), <1>8, <2>2 DEF Legacy!BulkNode, RowFits, WriteFits, Backed, LegacyShape,
         StagedSteps,
         WrittenSteps, InsertAs, Legacy!stores, Legacy!At
    <2> QED BY <2>3, <2>4, <2>5, <2>6, <2>7
  <1>9. CASE Legacy!BulkUndo(n)
    <2>1. Legacy!Step(n, "none")
      BY ZenonT(60), <1>9 DEF Legacy!BulkUndo, Legacy!At, LegacyShape, Legacy!stores
    <2>2. InsertAs(n, "none", lIns[n].old)
      BY ZenonT(60), <2>1, StepMoves, EndMoves DEF InsertStep, StagedSteps, WrittenSteps
    <2>3. LegacyShape'
      BY ZenonT(60), <1>9, <2>2 DEF Legacy!BulkUndo, LegacyShape, InsertAs, Legacy!stores
    <2>4. Elsewhere(n)
      BY ZenonT(60), <1>9, <2>2 DEF Legacy!BulkUndo, Elsewhere, LegacyShape, InsertAs,
         Legacy!stores
    <2>5. Begun(n)
      BY ZenonT(60), <1>9, <2>2 DEF Legacy!BulkUndo, Begun, RowFits, WriteFits, Backed,
         LegacyShape, StagedSteps, WrittenSteps, InsertAs, Legacy!stores, Legacy!At
    <2>6. RowFits(n)'
      BY ZenonT(60), <1>9, <2>2 DEF Legacy!BulkUndo, RowFits, LegacyShape, StagedSteps, InsertAs,
         Legacy!stores, Legacy!At
    <2>7. WriteFits(n)'
      BY ZenonT(60), <1>9, <2>2 DEF Legacy!BulkUndo, RowFits, WriteFits, Backed, LegacyShape,
         StagedSteps,
         WrittenSteps, InsertAs, Legacy!stores, Legacy!At
    <2> QED BY <2>3, <2>4, <2>5, <2>6, <2>7
  <1>10. CASE Legacy!Activate(n)
    <2>1. \/ lIns' = [lIns EXCEPT ![n] = Legacy!NoInsert]
          \/ Legacy!Step(n, "undo expired")
      BY ZenonT(60), <1>10 DEF Legacy!Activate, Legacy!At, LegacyShape, Legacy!stores
    <2>2. \/ InsertAs(n, "none", {})
          \/ InsertAs(n, "undo expired", lIns[n].old)
      BY ZenonT(60), <2>1, StepMoves, EndMoves DEF InsertStep, StagedSteps, WrittenSteps
    <2> DEFINE replaced == Legacy!SetIn(lSql, lIns[n].old \cap Legacy!Active, "invalid")
    <2>8. \/ lSql' = lSql /\ Legacy!Step(n, "undo expired")
          \/ /\ lSql[n] = "staged" /\ lSql' = [replaced EXCEPT ![n] = "active"]
             /\ lIns' = [lIns EXCEPT ![n] = Legacy!NoInsert]
      BY ZenonT(60), <1>10 DEF Legacy!Activate
    <2>9. /\ replaced \in [Node -> {"none", "staged", "active", "invalid", "tombstoned"}]
          /\ \A m \in Node : 
               replaced[m] = lSql[m] \/ (lSql[m] = "active" /\ replaced[m] = "invalid")
      <3>1. PICK gone : gone = lIns[n].old \cap Legacy!Active
        OBVIOUS
      <3>2. \A m \in gone : lSql[m] = "active"
        BY <3>1 DEF Legacy!Active
      <3>3. replaced = [m \in Node |-> IF m \in gone THEN "invalid" ELSE lSql[m]]
        BY <3>1 DEF Legacy!SetIn
      <3> HIDE DEF replaced
      <3> QED BY <3>2, <3>3 DEF LegacyShape
    <2> HIDE DEF replaced
    <2>10. \/ lSql' = lSql /\ InsertAs(n, "undo expired", lIns[n].old)
           \/ /\ lSql' \in [Node -> {"none", "staged", "active", "invalid", "tombstoned"}]
              /\ lSql[n] = "staged" /\ lSql'[n] = "active" /\ InsertAs(n, "none", {})
              /\ \A m \in Node \ {n} : \/ lSql'[m] = lSql[m]
                                       \/ lSql[m] = "active" /\ lSql'[m] = "invalid"
      <3>1. CASE lSql' = lSql /\ Legacy!Step(n, "undo expired")
        BY ZenonT(60), <3>1, StepMoves DEF InsertStep, StagedSteps
      <3>2. CASE /\ lSql[n] = "staged" /\ lSql' = [replaced EXCEPT ![n] = "active"]
                 /\ lIns' = [lIns EXCEPT ![n] = Legacy!NoInsert]
        BY ZenonT(60), <2>9, <3>2, EndMoves
      <3> QED BY ZenonT(60), <2>8, <3>1, <3>2
    <2>3. LegacyShape'
      BY ZenonT(60), <1>10, <2>10 DEF Legacy!Activate, LegacyShape, InsertAs, Legacy!stores
    <2>4. Elsewhere(n)
      BY ZenonT(60), <1>10, <2>10 DEF Legacy!Activate, Elsewhere, LegacyShape, InsertAs,
         Legacy!stores
    <2>5. Begun(n)
      BY ZenonT(60), <1>10, <2>10 DEF Legacy!Activate, Begun, RowFits, WriteFits, Backed,
         LegacyShape, StagedSteps, WrittenSteps, InsertAs, Legacy!stores, Legacy!At
    <2>6. RowFits(n)'
      BY ZenonT(60), <1>10, <2>10 DEF Legacy!Activate, RowFits, LegacyShape, StagedSteps, InsertAs,
         Legacy!stores, Legacy!At
    <2>7. WriteFits(n)'
      BY ZenonT(60), <1>10, <2>10 DEF Legacy!Activate, RowFits, WriteFits, Backed, LegacyShape,
         StagedSteps, WrittenSteps, InsertAs, Legacy!stores, Legacy!At
    <2> QED BY <2>3, <2>4, <2>5, <2>6, <2>7
  <1>11. CASE Legacy!UndoRow(n)
    <2>1. lIns' = [lIns EXCEPT ![n] = Legacy!NoInsert]
      BY ZenonT(60), <1>11 DEF Legacy!UndoRow, Legacy!At, LegacyShape, Legacy!stores
    <2>2. InsertAs(n, "none", {})
      BY ZenonT(60), <2>1, StepMoves, EndMoves DEF InsertStep, StagedSteps, WrittenSteps
    <2>3. LegacyShape'
      BY ZenonT(60), <1>11, <2>2 DEF Legacy!UndoRow, Legacy!SetIn, LegacyShape, InsertAs,
         Legacy!stores
    <2>4. Elsewhere(n)
      BY ZenonT(60), <1>11, <2>2 DEF Legacy!UndoRow, Legacy!SetIn, Elsewhere, LegacyShape, InsertAs,
         Legacy!stores
    <2>5. Begun(n)
      BY ZenonT(60), <1>11, <2>2 DEF Legacy!UndoRow, Legacy!SetIn, Begun, RowFits, WriteFits,
         Backed,
         LegacyShape, StagedSteps, WrittenSteps, InsertAs, Legacy!stores, Legacy!At
    <2>6. RowFits(n)'
      BY ZenonT(60), <1>11, <2>2 DEF Legacy!UndoRow, Legacy!SetIn, RowFits, LegacyShape,
         StagedSteps, InsertAs, Legacy!stores, Legacy!At
    <2>7. WriteFits(n)'
      BY ZenonT(60), <1>11, <2>2 DEF Legacy!UndoRow, Legacy!SetIn, RowFits, WriteFits, Backed,
         LegacyShape, StagedSteps, WrittenSteps, InsertAs, Legacy!stores, Legacy!At
    <2> QED BY <2>3, <2>4, <2>5, <2>6, <2>7
  <1>12. CASE Legacy!Begin(n)
    <2> DEFINE s == IF lMigrating THEN "stage queued" ELSE "stage"
               old == {m \in Legacy!Active : lVec[m] = "live"}
    <2>1. lIns' = [lIns EXCEPT ![n] = [step |-> s, old |-> old]]
      BY ZenonT(60), <1>12 DEF Legacy!Begin
    <2>2. s \in {"stage", "stage queued"} /\ old \in SUBSET Node
      BY DEF Legacy!Active
    <2>3. \A m \in old : lSql[m] = "active"
      BY DEF Legacy!Active
    <2> HIDE DEF s, old
    <2>4. InsertAs(n, s, old)
      BY ZenonT(60), <2>1, <2>2 DEF InsertAs, LegacyShape, InsertStep
    <2>5. LegacyShape'
      BY ZenonT(60), <1>12, <2>2, <2>4 DEF Legacy!Begin, InsertAs, LegacyShape, Legacy!stores
    <2>6. Elsewhere(n)
      BY ZenonT(60), <1>12, <2>2, <2>3, <2>4 DEF Legacy!Begin, Elsewhere, InsertAs, LegacyShape,
         Legacy!stores
    <2>7. Begun(n)
      BY ZenonT(60), <1>12, <2>2, <2>3, <2>4 DEF Legacy!Begin, Begun, InsertAs, Legacy!At
    <2>8. RowFits(n)' /\ WriteFits(n)'
      BY ZenonT(60), <1>12, <2>2, <2>4 DEF Legacy!Begin, RowFits, WriteFits, StagedSteps,
         WrittenSteps,
         InsertAs, Legacy!stores
    <2> QED BY <2>5, <2>6, <2>7, <2>8
  <1> QED
    BY <1>1, <1>2, <1>3, <1>4, <1>5, <1>6, <1>7, <1>8, <1>9, <1>10, <1>11, <1>12
       DEF Legacy!Insert

PurgeRow == [st: Legacy!Resumable \cup {"none", "FINALIZED", "BLOCKED", "FAILED_SAFE"},
             nodes: SUBSET Node, owed: SUBSET Node, graph: BOOLEAN, vec: BOOLEAN, n: Int]
PurgeShape ==
    /\ lPurge \in PurgeRow
    /\ lAt # "none" => lPurge.st \in Legacy!Resumable
    /\ lPurge.st = "FINALIZED" => lPurge.graph /\ lPurge.vec
    /\ lPurge.st = "none" => lPurge.nodes = {}
Owned == lPurge.nodes \ lPurge.owed
ErasedFits(n) == lPurge.st # "FAILED_SAFE" /\ n \in Owned =>
    /\ lSql[n] = "tombstoned" /\ n \notin lQueued /\ lIns[n].step = "none"
    /\ lPurge.graph \/ lAt = "graph gone" => n \notin lGraph
    /\ lPurge.vec \/ lAt = "vectors gone" => lVec[n] = "none"
OldFits(n) == /\ lSql[n] = "invalid" /\ lIns[n].step = "none"
              /\ \E k \in Node : n \in lIns[k].old
              => Backed(n)
MemoryFits(n) == RowFits(n) /\ WriteFits(n) /\ OldFits(n) /\ ErasedFits(n)
LegacyInv == LegacyShape /\ PurgeShape /\ \A n \in Node : MemoryFits(n)

(* Single and bulk inserts keep LegacyInv: a row is activated behind its vector, and only
   an active row is expired for it (dao.py:8319-8746). *)
LEMMA InsertKeeps ==
  ASSUME LegacyInv, NEW n \in Node, Legacy!Insert(n) PROVE LegacyInv'
  <1>1. LegacyShape' /\ Elsewhere(n) /\ Begun(n) /\ RowFits(n)' /\ WriteFits(n)'
    BY InsertMoves DEF LegacyInv, MemoryFits
  <1>2. PurgeShape'
    BY <1>1 DEF LegacyInv, PurgeShape, Elsewhere
  <1>3. ASSUME NEW m \in Node, m # n PROVE RowFits(m)' /\ WriteFits(m)'
    BY ZenonT(60), <1>1, <1>3 DEF LegacyInv, MemoryFits, RowFits, WriteFits, OldFits, Backed,
       Elsewhere, StagedSteps, WrittenSteps
  <1>4. ASSUME NEW m \in Node, m # n PROVE OldFits(m)'
    BY <1>1, <1>4 DEF LegacyInv, MemoryFits, WriteFits, OldFits, Backed, Elsewhere, Begun
  <1>5. ASSUME NEW m \in Node, m # n PROVE ErasedFits(m)'
    BY ZenonT(60), <1>1, <1>5 DEF LegacyInv, MemoryFits, ErasedFits, Elsewhere, Owned
  <1>6. OldFits(n)'
    BY <1>1 DEF OldFits, Begun
  <1>7. ErasedFits(n)'
    BY ZenonT(60), <1>1 DEF LegacyInv, MemoryFits, ErasedFits, Owned, Elsewhere, Begun
  <1> QED BY <1>1, <1>2, <1>3, <1>4, <1>5, <1>6, <1>7 DEF LegacyInv, MemoryFits

(* A replay of the write-ahead log writes the vectors it owes (dao.py:10526-10828). *)
LEMMA FlushKeeps ==
  ASSUME LegacyInv, NEW n \in Node, Legacy!Flush(n) PROVE LegacyInv'
  <1> USE DEF Legacy!Flush
  <1>1. LegacyShape' /\ PurgeShape'
    BY DEF LegacyInv, LegacyShape, PurgeShape
  <1>2. n \notin Owned \/ lPurge.st = "FAILED_SAFE"
    BY ZenonT(60) DEF LegacyInv, MemoryFits, ErasedFits
  <1>3. \A m \in Node : /\ m = n => lVec'[m] # "none"
                        /\ m # n => /\ lVec'[m] = lVec[m]
                                    /\ m \in lQueued' <=> m \in lQueued
                                    /\ m \in lGraph' <=> m \in lGraph
    BY DEF LegacyInv, LegacyShape
  <1>4. ASSUME NEW m \in Node PROVE MemoryFits(m)'
    <2>1. lSql' = lSql /\ lIns' = lIns /\ lPurge' = lPurge /\ lAt' = lAt
      OBVIOUS
    <2> HIDE DEF Legacy!Flush
    <2>2. RowFits(m)' /\ WriteFits(m)' /\ OldFits(m)'
      BY ZenonT(60), <1>3, <2>1 DEF LegacyInv, MemoryFits, RowFits, WriteFits, OldFits, Backed
    <2>3. ErasedFits(m)'
      BY ZenonT(60), <1>2, <1>3, <2>1 DEF LegacyInv, MemoryFits, ErasedFits, Owned
    <2> QED BY <2>2, <2>3 DEF MemoryFits
  <1> QED BY <1>1, <1>4 DEF LegacyInv

\* What a step of the purge leaves of the inserts.
PurgeFrame == /\ lIns' = lIns /\ lQueued' = lQueued /\ LegacyShape'
              /\ lPurge'.nodes = lPurge.nodes /\ lPurge'.owed = lPurge.owed
              /\ \A n \in Node : /\ lVec'[n] = "none" => lVec[n] = "none" \/ n \in lPurge.nodes
                                 /\ lVec[n] = "none" => lVec'[n] = "none"
                                 /\ n \in lGraph' => n \in lGraph

(* A step of a purge takes no vector from a memory it does not name (dao.py:9160-9211). *)
LEMMA PurgeFrameKeeps ==
  ASSUME LegacyInv, PurgeFrame, lSql' = lSql, NEW n \in Node
  PROVE  RowFits(n)' /\ WriteFits(n)' /\ OldFits(n)'
  BY ZenonT(60) DEF LegacyInv, MemoryFits, PurgeFrame, RowFits, WriteFits, OldFits, Backed

(* A refused purge is retried or blocked, its journal otherwise kept (dao.py:9298-9321). *)
LEMMA RefusedRow ==
  ASSUME lPurge \in PurgeRow
  PROVE  /\ Legacy!Refused \in PurgeRow /\ Legacy!Refused.st \in {"BLOCKED", "RETRY_PENDING"}
         /\ Legacy!Refused.nodes = lPurge.nodes /\ Legacy!Refused.owed = lPurge.owed
         /\ Legacy!Refused.graph = lPurge.graph /\ Legacy!Refused.vec = lPurge.vec
  <1> DEFINE s == IF lPurge.n + 1 >= PurgeRetries THEN "BLOCKED" ELSE "RETRY_PENDING"
  <1>1. Legacy!Refused = [lPurge EXCEPT !.n = lPurge.n + 1, !.st = s]
    BY DEF Legacy!Refused
  <1>2. s \in {"BLOCKED", "RETRY_PENDING"}
    OBVIOUS
  <1>3. lPurge.n + 1 \in Int
    BY DEF PurgeRow
  <1> HIDE DEF s
  <1>4. \A k : k = lPurge.n + 1 => [lPurge EXCEPT !.n = k, !.st = s] \in PurgeRow
    BY <1>2, <1>3 DEF PurgeRow, Legacy!Resumable
  <1> QED BY ZenonT(60), <1>1, <1>2, <1>4 DEF PurgeRow

(* The journal claims an erasure only after the store has it (dao.py:9175-9208). *)
LEMMA ErasedStays ==
  ASSUME LegacyInv, PurgeFrame, lSql' = lSql, lPurge.st # "FAILED_SAFE", NEW n \in Node,
         lPurge'.graph \/ lAt' = "graph gone" =>
            lPurge.graph \/ lAt = "graph gone" \/ \A m \in lPurge.nodes : m \notin lGraph',
         lPurge'.vec \/ lAt' = "vectors gone" =>
            lPurge.vec \/ lAt = "vectors gone" \/ \A m \in lPurge.nodes : lVec'[m] = "none"
  PROVE  ErasedFits(n)'
  BY ZenonT(60) DEF LegacyInv, MemoryFits, PurgeFrame, ErasedFits, Owned

PurgeStep == \/ Legacy!Resume \/ Legacy!PurgeGraph \/ Legacy!GraphApplied
             \/ Legacy!PurgeVectors \/ Legacy!VectorsApplied \/ Legacy!Finalize
(* Resuming, erasing and finalizing a purge keep LegacyInv (dao.py:9160-9234). *)
LEMMA PurgeKeeps == ASSUME LegacyInv, PurgeStep PROVE LegacyInv'
  <1> USE DEF Legacy!stores, Legacy!Fault
  <1>1. ASSUME PurgeFrame, PurgeShape', lSql' = lSql, \A n \in Node : ErasedFits(n)'
        PROVE  LegacyInv'
    BY <1>1, PurgeFrameKeeps DEF LegacyInv, MemoryFits, PurgeFrame
  <1>2. CASE Legacy!Resume
    <2>1. PurgeFrame
      BY <1>2, RefusedRow DEF Legacy!Resume, LegacyInv, LegacyShape, PurgeShape, PurgeFrame,
         PurgeRow
    <2>2. PurgeShape'
      BY <1>2, RefusedRow DEF Legacy!Resume, LegacyInv, PurgeShape, PurgeRow
    <2>3. lSql' = lSql /\ lPurge.st # "FAILED_SAFE"
      BY <1>2 DEF Legacy!Resume, Legacy!Resumable, LegacyInv, PurgeShape
    <2>4. \/ ~(lPurge'.graph \/ lAt' = "graph gone")
          \/ lPurge.graph \/ lAt = "graph gone" \/ \A m \in lPurge.nodes : m \notin lGraph'
      BY <1>2, RefusedRow DEF Legacy!Resume, LegacyInv, PurgeShape, PurgeRow
    <2>5. \/ ~(lPurge'.vec \/ lAt' = "vectors gone")
          \/ lPurge.vec \/ lAt = "vectors gone" \/ \A m \in lPurge.nodes : lVec'[m] = "none"
      BY SMTT(60), <1>2, RefusedRow DEF Legacy!Resume, Legacy!SetIn, LegacyInv, PurgeShape, PurgeRow
    <2> QED BY ZenonT(60), <1>1, <2>1, <2>2, <2>3, <2>4, <2>5, ErasedStays
  <1>3. CASE Legacy!PurgeGraph
    <2>1. PurgeFrame
      BY ZenonT(60), <1>3, RefusedRow DEF Legacy!PurgeGraph, Legacy!Resumable, LegacyInv,
         LegacyShape,
         PurgeShape, PurgeFrame, PurgeRow
    <2>2. PurgeShape'
      BY ZenonT(60), <1>3, RefusedRow DEF Legacy!PurgeGraph, Legacy!Resumable, LegacyInv,
         PurgeShape,
         PurgeRow
    <2>3. lSql' = lSql /\ lPurge.st # "FAILED_SAFE"
      BY ZenonT(60), <1>3 DEF Legacy!PurgeGraph, Legacy!Resumable, LegacyInv, PurgeShape
    <2>4. \/ ~(lPurge'.graph \/ lAt' = "graph gone")
          \/ lPurge.graph \/ lAt = "graph gone" \/ \A m \in lPurge.nodes : m \notin lGraph'
      BY ZenonT(60), <1>3, RefusedRow DEF Legacy!PurgeGraph, LegacyInv, PurgeShape, PurgeRow
    <2>5. \/ ~(lPurge'.vec \/ lAt' = "vectors gone")
          \/ lPurge.vec \/ lAt = "vectors gone" \/ \A m \in lPurge.nodes : lVec'[m] = "none"
      BY ZenonT(60), <1>3, RefusedRow DEF Legacy!PurgeGraph, Legacy!SetIn, LegacyInv, PurgeShape,
         PurgeRow
    <2> QED BY <1>1, <2>1, <2>2, <2>3, <2>4, <2>5, ErasedStays
  <1>4. CASE Legacy!GraphApplied
    <2>1. PurgeFrame
      BY ZenonT(60), <1>4, RefusedRow DEF Legacy!GraphApplied, Legacy!Resumable, LegacyInv,
         LegacyShape, PurgeShape, PurgeFrame, PurgeRow
    <2>2. PurgeShape'
      BY ZenonT(60), <1>4, RefusedRow DEF Legacy!GraphApplied, Legacy!Resumable, LegacyInv,
         PurgeShape, PurgeRow
    <2>3. lSql' = lSql /\ lPurge.st # "FAILED_SAFE"
      BY ZenonT(60), <1>4 DEF Legacy!GraphApplied, Legacy!Resumable, LegacyInv, PurgeShape
    <2>4. \/ ~(lPurge'.graph \/ lAt' = "graph gone")
          \/ lPurge.graph \/ lAt = "graph gone" \/ \A m \in lPurge.nodes : m \notin lGraph'
      BY ZenonT(60), <1>4, RefusedRow DEF Legacy!GraphApplied, LegacyInv, PurgeShape, PurgeRow
    <2>5. \/ ~(lPurge'.vec \/ lAt' = "vectors gone")
          \/ lPurge.vec \/ lAt = "vectors gone" \/ \A m \in lPurge.nodes : lVec'[m] = "none"
      BY ZenonT(60), <1>4, RefusedRow DEF Legacy!GraphApplied, Legacy!SetIn, LegacyInv,
         PurgeShape, PurgeRow
    <2> QED BY <1>1, <2>1, <2>2, <2>3, <2>4, <2>5, ErasedStays
  <1>5. CASE Legacy!PurgeVectors
    <2>1. PurgeFrame
      BY ZenonT(60), <1>5, RefusedRow DEF Legacy!PurgeVectors, Legacy!SetIn, Legacy!Resumable,
         LegacyInv,
         LegacyShape, PurgeShape, PurgeFrame, PurgeRow
    <2>2. PurgeShape'
      BY ZenonT(60), <1>5, RefusedRow DEF Legacy!PurgeVectors, Legacy!SetIn, Legacy!Resumable,
         LegacyInv,
         PurgeShape, PurgeRow
    <2>3. lSql' = lSql /\ lPurge.st # "FAILED_SAFE"
      BY ZenonT(60), <1>5 DEF Legacy!PurgeVectors, Legacy!Resumable, LegacyInv, PurgeShape
    <2>4. \/ ~(lPurge'.graph \/ lAt' = "graph gone")
          \/ lPurge.graph \/ lAt = "graph gone" \/ \A m \in lPurge.nodes : m \notin lGraph'
      BY ZenonT(60), <1>5, RefusedRow DEF Legacy!PurgeVectors, LegacyInv, PurgeShape, PurgeRow
    <2>5. \/ ~(lPurge'.vec \/ lAt' = "vectors gone")
          \/ lPurge.vec \/ lAt = "vectors gone" \/ \A m \in lPurge.nodes : lVec'[m] = "none"
      BY ZenonT(60), <1>5, RefusedRow DEF Legacy!PurgeVectors, Legacy!SetIn, LegacyInv,
         PurgeShape, PurgeRow
    <2> QED BY <1>1, <2>1, <2>2, <2>3, <2>4, <2>5, ErasedStays
  <1>6. CASE Legacy!VectorsApplied
    <2>1. PurgeFrame
      BY ZenonT(60), <1>6, RefusedRow DEF Legacy!VectorsApplied, Legacy!StillLive, Legacy!Resumable,
         LegacyInv, LegacyShape, PurgeShape, PurgeFrame, PurgeRow
    <2>2. PurgeShape'
      BY ZenonT(60), <1>6, RefusedRow DEF Legacy!VectorsApplied, Legacy!StillLive, Legacy!Resumable,
         LegacyInv, PurgeShape, PurgeRow
    <2>3. lSql' = lSql /\ lPurge.st # "FAILED_SAFE"
      BY ZenonT(60), <1>6 DEF Legacy!VectorsApplied, Legacy!Resumable, LegacyInv, PurgeShape
    <2>4. \/ ~(lPurge'.graph \/ lAt' = "graph gone")
          \/ lPurge.graph \/ lAt = "graph gone" \/ \A m \in lPurge.nodes : m \notin lGraph'
      BY ZenonT(60), <1>6, RefusedRow DEF Legacy!VectorsApplied, LegacyInv, PurgeShape, PurgeRow
    <2>5. \/ ~(lPurge'.vec \/ lAt' = "vectors gone")
          \/ lPurge.vec \/ lAt = "vectors gone" \/ \A m \in lPurge.nodes : lVec'[m] = "none"
      BY ZenonT(60), <1>6, RefusedRow DEF Legacy!VectorsApplied, Legacy!SetIn, LegacyInv,
         PurgeShape,
         PurgeRow
    <2> QED BY <1>1, <2>1, <2>2, <2>3, <2>4, <2>5, ErasedStays
  <1>7. CASE Legacy!Finalize
    <2>1. PurgeFrame
      BY <1>7, RefusedRow DEF Legacy!Finalize, Legacy!Resumable, LegacyInv, LegacyShape,
         PurgeShape, PurgeFrame, PurgeRow
    <2>2. PurgeShape'
      BY <1>7, RefusedRow DEF Legacy!Finalize, Legacy!Resumable, LegacyInv, PurgeShape, PurgeRow
    <2>3. lSql' = lSql /\ lPurge.st # "FAILED_SAFE"
      BY <1>7 DEF Legacy!Finalize, Legacy!Resumable, LegacyInv, PurgeShape
    <2>4. \/ ~(lPurge'.graph \/ lAt' = "graph gone")
          \/ lPurge.graph \/ lAt = "graph gone" \/ \A m \in lPurge.nodes : m \notin lGraph'
      BY <1>7, RefusedRow DEF Legacy!Finalize, LegacyInv, PurgeShape, PurgeRow
    <2>5. \/ ~(lPurge'.vec \/ lAt' = "vectors gone")
          \/ lPurge.vec \/ lAt = "vectors gone" \/ \A m \in lPurge.nodes : lVec'[m] = "none"
      BY <1>7, RefusedRow DEF Legacy!Finalize, Legacy!SetIn, LegacyInv, PurgeShape, PurgeRow
    <2> QED BY <1>1, <2>1, <2>2, <2>3, <2>4, <2>5, ErasedStays
  <1> QED
    BY <1>2, <1>3, <1>4, <1>5, <1>6, <1>7 DEF PurgeStep

(* A purge begins with the tombstones and the journal in one transaction
   (dao.py:9034-9158). *)
LEMMA PrepareKeeps == ASSUME LegacyInv, Legacy!Prepare PROVE LegacyInv'
  <1> DEFINE live == Legacy!Active
             owed == {n \in live : n \in lQueued \/ lIns[n].step # "none"}
  <1>1. lPurge' = [Legacy!NoPurge EXCEPT !.st = "TOMBSTONED", !.nodes = live, !.owed = owed]
    BY DEF Legacy!Prepare
  <1>2. lPurge.nodes = {} /\ LegacyShape
    BY DEF Legacy!Prepare, LegacyInv, PurgeShape
  <1>3. /\ live \in SUBSET Node /\ owed \in SUBSET live
        /\ \A n \in live : lSql[n] = "active"
        /\ \A n \in live \ owed : n \notin lQueued /\ lIns[n].step = "none"
    BY DEF Legacy!Active
  <1>4. \A n \in Node : lSql'[n] = IF n \in live THEN "tombstoned" ELSE lSql[n]
    BY DEF Legacy!Prepare, Legacy!SetIn
  <1>5. LegacyShape'
    <2>1. lSql' \in [Node -> {"none", "staged", "active", "invalid", "tombstoned"}]
      BY <1>2 DEF Legacy!Prepare, Legacy!SetIn, LegacyShape
    <2> QED BY <1>2, <2>1 DEF Legacy!Prepare, LegacyShape
  <1>6. lVec' = lVec /\ lQueued' = lQueued /\ lIns' = lIns /\ lAt' = "start"
    BY DEF Legacy!Prepare
  <1> HIDE DEF live, owed
  <1>7. /\ lPurge' \in PurgeRow /\ lPurge'.st = "TOMBSTONED" /\ lPurge'.nodes = live
        /\ lPurge'.owed = owed /\ lPurge'.graph = FALSE /\ lPurge'.vec = FALSE
    <2>1. lPurge' = [st |-> "TOMBSTONED", nodes |-> live, owed |-> owed, graph |-> FALSE,
                     vec |-> FALSE, n |-> 0]
      BY <1>1 DEF Legacy!NoPurge
    <2>2. live \in SUBSET Node /\ owed \in SUBSET Node
      BY <1>3
    <2> QED BY <2>1, <2>2 DEF PurgeRow, Legacy!Resumable
  <1>8. PurgeShape'
    BY <1>6, <1>7 DEF PurgeShape, Legacy!Resumable
  <1>9. ASSUME NEW n \in Node PROVE MemoryFits(n)'
    <2>1. RowFits(n)'
      BY ZenonT(60), <1>3, <1>4, <1>6 DEF LegacyInv, MemoryFits, RowFits
    <2>2. WriteFits(n)' /\ OldFits(n)'
      BY <1>2, <1>3, <1>4, <1>6, <1>7 DEF LegacyInv, MemoryFits, WriteFits, OldFits, Backed
    <2>3. ErasedFits(n)'
      BY <1>3, <1>4, <1>6, <1>7 DEF ErasedFits, Owned
    <2> QED BY <2>1, <2>2, <2>3 DEF MemoryFits
  <1> QED BY <1>5, <1>8, <1>9 DEF LegacyInv

(* A purge that erased nothing gives its rows back (dao.py:9236-9264). *)
LEMMA RollbackKeeps == ASSUME LegacyInv, Legacy!RollbackPurge PROVE LegacyInv'
  <1>1. \A n \in Node : lSql'[n] = IF n \in lPurge.nodes /\ lSql[n] = "tombstoned"
                                   THEN "active" ELSE lSql[n]
    BY DEF Legacy!RollbackPurge, Legacy!SetIn
  <1>2. LegacyShape'
    <2>1. lSql' \in [Node -> {"none", "staged", "active", "invalid", "tombstoned"}]
      BY DEF Legacy!RollbackPurge, Legacy!SetIn, LegacyInv, LegacyShape
    <2> QED BY <2>1 DEF Legacy!RollbackPurge, LegacyInv, LegacyShape
  <1>3. PurgeShape' /\ lPurge'.st = "FAILED_SAFE" /\ lPurge'.nodes = lPurge.nodes
    BY DEF Legacy!RollbackPurge, LegacyInv, PurgeShape, PurgeRow
  <1>4. lVec' = lVec /\ lQueued' = lQueued /\ lIns' = lIns
    BY DEF Legacy!RollbackPurge
  <1>5. ASSUME NEW n \in Node PROVE MemoryFits(n)'
    BY ZenonT(60), <1>1, <1>3, <1>4 DEF LegacyInv, MemoryFits, RowFits, WriteFits, OldFits,
       ErasedFits,
       Backed
  <1> QED BY <1>2, <1>3, <1>5 DEF LegacyInv

(* A restart invalidates the active rows without a vector (dao.py:8053-8170). *)
LEMMA RestartKeeps == ASSUME LegacyInv, Legacy!Restart PROVE LegacyInv'
  <1>1. \A n \in Node : lSql'[n] = IF lSql[n] = "active" /\ lVec[n] = "none"
                                   THEN "invalid" ELSE lSql[n]
    BY DEF Legacy!Restart, Legacy!SetIn, Legacy!Orphans, Legacy!Active
  <1>2. lIns' = [n \in Node |-> [step |-> "none", old |-> {}]]
    BY DEF Legacy!Restart, Legacy!NoInsert
  <1>3. lPurge' = lPurge /\ lVec' = lVec /\ lQueued' = lQueued /\ lGraph' = lGraph /\ lAt' = "none"
    BY DEF Legacy!Restart
  <1>4. LegacyShape'
    <2>1. lSql' \in [Node -> {"none", "staged", "active", "invalid", "tombstoned"}]
      BY DEF Legacy!Restart, Legacy!SetIn, LegacyInv, LegacyShape
    <2>2. lIns' \in [Node -> [step: InsertStep, old: SUBSET Node]]
      BY <1>2 DEF InsertStep
    <2> QED BY <1>3, <2>1, <2>2 DEF LegacyInv, LegacyShape
  <1>5. PurgeShape'
    BY <1>3 DEF LegacyInv, PurgeShape
  <1>6. ASSUME NEW n \in Node PROVE MemoryFits(n)'
    <2>1. lIns'[n].step = "none" /\ \A k \in Node : lIns'[k].old = {}
      BY <1>2
    <2>2. RowFits(n)' /\ WriteFits(n)' /\ OldFits(n)'
      BY <1>1, <1>3, <2>1 DEF RowFits, WriteFits, OldFits, Backed, StagedSteps, WrittenSteps
    <2>3. ErasedFits(n)'
      BY ZenonT(60), <1>1, <1>3, <2>1 DEF LegacyInv, MemoryFits, ErasedFits, Owned
    <2> QED BY <2>2, <2>3 DEF MemoryFits
  <1> QED BY <1>4, <1>5, <1>6 DEF LegacyInv

(* Every step of the legacy store keeps LegacyInv (dao.py:8053-9321). *)
LEMMA LegacyStep == ASSUME LegacyInv, [Legacy!Next]_(Legacy!vars) PROVE LegacyInv'
  <1>1. CASE Legacy!Prepare
    BY <1>1, PrepareKeeps
  <1>2. CASE Legacy!RollbackPurge
    BY <1>2, RollbackKeeps
  <1>3. CASE PurgeStep
    BY <1>3, PurgeKeeps
  <1>4. CASE UNCHANGED Legacy!vars \/ Legacy!Migrate
    BY ZenonT(60), <1>4 DEF Legacy!vars, Legacy!Migrate, LegacyInv, LegacyShape, PurgeShape,
       MemoryFits,
       RowFits, WriteFits, OldFits, ErasedFits, Backed, Owned
  <1> QED
    BY <1>1, <1>2, <1>3, <1>4, RestartKeeps, InsertKeeps, FlushKeeps DEF Legacy!Next,
       Legacy!Purge, PurgeStep

(* An empty store satisfies LegacyInv (dao.py:8263). *)
LEMMA LegacyInit == Legacy!Init => LegacyInv
  <1>1. Legacy!Init => LegacyShape /\ PurgeShape
    BY DEF Legacy!Init, LegacyShape, PurgeShape, PurgeRow, Legacy!NoInsert, Legacy!NoPurge,
       InsertStep
  <1>2. ASSUME Legacy!Init, NEW n \in Node PROVE MemoryFits(n)
    <2>1. lIns[n].step = "none" /\ lSql[n] = "none" /\ n \notin Owned
      BY <1>2 DEF Legacy!Init, Legacy!NoInsert, Legacy!NoPurge, Owned
    <2> QED BY <2>1 DEF MemoryFits, RowFits, WriteFits, OldFits, ErasedFits, StagedSteps,
       WrittenSteps
  <1> QED BY <1>1, <1>2 DEF LegacyInv

(* LegacyInv has the two properties as consequences (dao.py:8319-9234). *)
LEMMA LegacySays == LegacyInv => PurgeErases /\ ActiveHasVector
  <1>1. LegacyInv => PurgeErases
    BY DEF LegacyInv, LegacyShape, PurgeShape, PurgeRow, MemoryFits, ErasedFits, Owned,
       PurgeErases, Legacy!PurgeErases
  <1>2. LegacyInv => ActiveHasVector
    BY DEF LegacyInv, MemoryFits, WriteFits, Backed, ActiveHasVector, Legacy!ActiveHasVector,
       Legacy!Active
  <1> QED BY <1>1, <1>2

(* A finalized purge has erased its targets from every store, whatever was refused,
   retried or restarted on the way (dao.py:9034-9234). *)
THEOREM PurgesErase == Spec => []PurgeErases
  <1>1. Init => LegacyInv
    BY LegacyInit DEF Init
  <1>2. LegacyInv /\ [Next]_vars => LegacyInv'
    BY LegacyStep, CatalogParted
  <1>3. LegacyInv => PurgeErases
    BY LegacySays
  <1> QED BY <1>1, <1>2, <1>3, PTL DEF Spec

(* A memory that is current and that nobody is writing has its vector, or the log owes it
   one (dao.py:8319-8746). *)
THEOREM ActiveHaveVectors == Spec => []ActiveHasVector
  <1>1. Init => LegacyInv
    BY LegacyInit DEF Init
  <1>2. LegacyInv /\ [Next]_vars => LegacyInv'
    BY LegacyStep, CatalogParted
  <1>3. LegacyInv => ActiveHasVector
    BY LegacySays
  <1> QED BY <1>1, <1>2, <1>3, PTL DEF Spec

-----------------------------------------------------------------------------
(* Revisions, mutations and receipts (Admission). *)

RevisionState == {"none", "PENDING", "ACTIVE", "SUPERSEDED", "PURGED"}
RevisionRow == [st: RevisionState, num: 0..MaxNumber, sup: Admission!Revision \cup {None},
                frozen: BOOLEAN, chunk: [Admission!Ordinal -> Texts \cup {None}]]
AnyKey == Key \cup Admission!UploadKey
MutationRow == [rev: Admission!Revision, ord: Admission!Ordinal, key: AnyKey \cup {None},
                text: Texts, st: {"OPEN", "COMMITTED", "DEAD", "PURGED"}]
ReceiptRow == [hash: Requests \cup {None}, mut: Nat]
AnyPlan == {Plan[c][m] : c \in Content, m \in Chunkings}
UploadRow == [step: {"idle", "create", "plan", "send"}, rev: Content \cup {None}, num: 0..MaxNumber,
              sup: Admission!Revision \cup {None},
              plan: AnyPlan \cup {<< >>},
              sent: SUBSET Admission!Ordinal]
RevisionsShape == aRev \in [Admission!Revision -> RevisionRow]
AdmissionShape == /\ RevisionsShape
                  /\ aMutations \in Seq(MutationRow)
                  /\ aReceipt \in [AnyKey -> ReceiptRow]
                  /\ aUpload \in UploadRow
                  /\ aUpload.step # "idle" => aUpload.rev \in Content
                  /\ aChunking \in Chunkings

\* What holds of a row of document_revisions, whatever else is stored.
RowOK(row) == /\ row.st = "none" => ~row.frozen /\ \A o \in Admission!Ordinal : row.chunk[o] = None
              /\ row.st = "ACTIVE" => row.frozen
RowsOK == \A r \in Admission!Revision : RowOK(aRev[r])

(* A chunk is written to its revision, opened if it is new, and to nothing else; the last
   one freezes it (dao.py:1131-1183). *)
LEMMA StoredRow ==
  ASSUME RevisionsShape, RowsOK, NEW p \in Requests, Admission!Accepts(p)
  PROVE  /\ Admission!Stored(p) \in [Admission!Revision -> RevisionRow]
         /\ \A r \in Admission!Revision \ {p.rev} : Admission!Stored(p)[r] = aRev[r]
         /\ Admission!Stored(p)[p.rev].st # "none"
         /\ Admission!Stored(p)[p.rev].chunk[p.ord] = p.text
         /\ \A o \in Admission!Ordinal \ {p.ord} :
               Admission!Stored(p)[p.rev].chunk[o] = aRev[p.rev].chunk[o]
         /\ aRev[p.rev].frozen => /\ Admission!Stored(p)[p.rev].frozen
                                  /\ Admission!Stored(p)[p.rev].chunk = aRev[p.rev].chunk
         /\ Admission!Stored(p)[p.rev].frozen => aRev[p.rev].frozen \/ p.last
         /\ RowOK(Admission!Stored(p)[p.rev])
         /\ Admission!Stored(p)[p.rev].st = "ACTIVE" => aRev[p.rev].st = "ACTIVE"
  <1> DEFINE old == aRev[p.rev]
             row == IF old.st = "none" THEN Admission!Created(p.num, p.sup) ELSE old
             new == [row EXCEPT !.chunk[p.ord] = p.text,
                                !.frozen = row.frozen \/ (row.st = "PENDING" /\ p.last)]
  <1>1. p.rev \in Admission!Revision /\ p.ord \in Admission!Ordinal /\ p.num \in 0..MaxNumber
        /\ p.sup \in Admission!Revision \cup {None} /\ p.text \in Texts /\ p.last \in BOOLEAN
    BY DEF Requests, Admission!Revision, Admission!Ordinal
  <1>2. old \in RevisionRow /\ RowOK(old)
    BY <1>1 DEF RevisionsShape, RowsOK
  <1>3. Admission!Stored(p) = [aRev EXCEPT ![p.rev] = new]
    BY DEF Admission!Stored
  <1>4. /\ row \in RevisionRow /\ RowOK(row) /\ row.st # "none"
        /\ \A o \in Admission!Ordinal : row.chunk[o] = old.chunk[o]
        /\ row.frozen = old.frozen
        /\ row.st = "ACTIVE" => old.st = "ACTIVE"
    <2>1. CASE old.st = "none"
      <3>1. row = [st |-> "PENDING", num |-> p.num, sup |-> p.sup, frozen |-> FALSE,
                   chunk |-> [o \in Admission!Ordinal |-> None]]
        BY <2>1 DEF Admission!Created, Admission!NoRevision
      <3> HIDE DEF row
      <3>2. row \in RevisionRow
        BY <1>1, <3>1 DEF RevisionRow, RevisionState
      <3>3. old.frozen = FALSE /\ \A o \in Admission!Ordinal : old.chunk[o] = None
        BY <1>2, <2>1 DEF RowOK, RevisionRow
      <3> QED BY <3>1, <3>2, <3>3 DEF RowOK
    <2>2. CASE old.st # "none"
      <3>1. row = old
        BY <2>2
      <3> HIDE DEF row
      <3> QED BY <1>2, <2>2, <3>1
    <2> QED BY <2>1, <2>2
  <1>5. old.frozen => old.chunk[p.ord] = p.text
    BY <1>1, <1>2 DEF Admission!Accepts, Admission!ChunkAllowed, Admission!Chunks, RowOK
  <1> HIDE DEF row
  <1>6. /\ new.chunk = [row.chunk EXCEPT ![p.ord] = p.text]
        /\ new.frozen = (row.frozen \/ (row.st = "PENDING" /\ p.last))
        /\ new.st = row.st /\ new \in RevisionRow
    BY <1>1, <1>4 DEF RevisionRow
  <1> HIDE DEF new
  <1>7. row.chunk \in [Admission!Ordinal -> Texts \cup {None}]
        /\ old.chunk \in [Admission!Ordinal -> Texts \cup {None}]
    BY <1>2, <1>4 DEF RevisionRow
  <1>8. old.frozen => new.chunk = old.chunk
    BY <1>1, <1>4, <1>5, <1>6, <1>7
  <1>9. /\ Admission!Stored(p) \in [Admission!Revision -> RevisionRow]
        /\ \A r \in Admission!Revision \ {p.rev} : Admission!Stored(p)[r] = aRev[r]
        /\ Admission!Stored(p)[p.rev] = new
    BY <1>1, <1>3, <1>6 DEF RevisionsShape
  <1>10. RowOK(new)
    BY <1>4, <1>6 DEF RowOK
  <1>11. new.chunk[p.ord] = p.text 
         /\ \A o \in Admission!Ordinal \ {p.ord} : new.chunk[o] = old.chunk[o]
    BY <1>1, <1>4, <1>6, <1>7
  <1>12. /\ new.st # "none"
         /\ new.frozen => old.frozen \/ p.last
         /\ old.frozen => new.frozen
         /\ new.st = "ACTIVE" => old.st = "ACTIVE"
    BY <1>4, <1>6
  <1> QED BY <1>8, <1>9, <1>10, <1>11, <1>12

(* Activation moves states of revisions only (dao.py:3199-3242). *)
LEMMA ActivatedRow ==
  ASSUME NEW r \in Admission!Revision, NEW now \in [Admission!Revision -> RevisionRow], NEW rows
  PROVE  /\ Admission!Activated(r, now, rows) \in [Admission!Revision -> RevisionRow]
         /\ \A q \in Admission!Revision :
               /\ Admission!Activated(r, now, rows)[q].chunk = now[q].chunk
               /\ Admission!Activated(r, now, rows)[q].frozen = now[q].frozen
               /\ Admission!Activated(r, now, rows)[q].st = "none" => now[q].st = "none"
               /\ Admission!Activated(r, now, rows)[q].st = "ACTIVE" =>
                    \/ now[q].st = "ACTIVE"
                    \/ q = r /\ Admission!Due(r, now, rows)
  <1> DEFINE act == Admission!Activated(r, now, rows)
  <1>1. ASSUME NEW q \in Admission!Revision
        PROVE  /\ act[q] \in RevisionRow /\ act[q].chunk = now[q].chunk
               /\ act[q].frozen = now[q].frozen
               /\ act[q].st = "none" => now[q].st = "none"
               /\ act[q].st = "ACTIVE" => \/ now[q].st = "ACTIVE"
                                          \/ q = r /\ Admission!Due(r, now, rows)
    <2>1. \/ act[q] = now[q]
          \/ act[q] = [now[q] EXCEPT !.st = "ACTIVE"] /\ q = r /\ Admission!Due(r, now, rows)
          \/ act[q] = [now[q] EXCEPT !.st = "SUPERSEDED"]
      BY DEF Admission!Activated
    <2>2. now[q] \in RevisionRow
      OBVIOUS
    <2> HIDE DEF act
    <2> QED BY <2>1, <2>2 DEF RevisionRow, RevisionState
  <1>2. act = [q \in Admission!Revision |-> act[q]]
    BY DEF Admission!Activated
  <1> HIDE DEF act
  <1>3. act \in [Admission!Revision -> RevisionRow]
    BY <1>1, <1>2
  <1> QED BY <1>1, <1>3 DEF act

\* A receipt names the mutation of its key, and a mutation with a key has its receipt.
Receipts == \A k \in AnyKey : aReceipt[k].hash # None =>
    /\ aReceipt[k].mut \in DOMAIN aMutations
    /\ aMutations[aReceipt[k].mut].key = k
    /\ aMutations[aReceipt[k].mut].text = aReceipt[k].hash.text
Keys == \A i \in DOMAIN aMutations : aMutations[i].key # None =>
    /\ aReceipt[aMutations[i].key].hash # None
    /\ aReceipt[aMutations[i].key].mut = i
\* A mutation of an upload has the key and the chunk of its place in the document.
Placed == \A i \in DOMAIN aMutations :
    /\ aMutations[i].rev \in Content =>
         /\ aMutations[i].key = <<aMutations[i].rev, aMutations[i].ord>>
         /\ aRev[aMutations[i].rev].chunk[aMutations[i].ord] = aMutations[i].text
    /\ aMutations[i].key \in Admission!UploadKey =>
         aMutations[i].key = <<aMutations[i].rev, aMutations[i].ord>>
HasMutation(c, o) == \E i \in DOMAIN aMutations : aMutations[i].rev = c /\ aMutations[i].ord = o
HasCommitted(c, o) == \E i \in DOMAIN aMutations :
    aMutations[i].rev = c /\ aMutations[i].ord = o /\ aMutations[i].st = "COMMITTED"
ChunksAdmitted(c) == \A o \in Admission!Ordinal : aRev[c].chunk[o] # None => HasMutation(c, o)
IsPlan(c, m) == /\ DOMAIN Plan[c][m] = Admission!Chunks(c)
                /\ \A o \in Admission!Chunks(c) : aRev[c].chunk[o] = Plan[c][m][o]
FrozenIsPlan(c) == aRev[c].frozen => \E m \in Chunkings : IsPlan(c, m)
HeadCommitted(c) ==
    aRev[c].st = "ACTIVE" => \A o \in Admission!Chunks(c) : HasCommitted(c, o)
Upload(c) == ChunksAdmitted(c) /\ FrozenIsPlan(c) /\ HeadCommitted(c)
Uploads == \A c \in Content : Upload(c)
\* The plan an upload sends, and what it has sent of it.
Sending == aUpload.step = "send" =>
    /\ \E m \in Chunkings : aUpload.plan = Plan[aUpload.rev][m]
    /\ \A o \in Admission!Ordinal : o \in aUpload.sent <=> HasMutation(aUpload.rev, o)
    /\ \A i \in DOMAIN aMutations : aMutations[i].rev = aUpload.rev =>
          /\ aMutations[i].ord \in DOMAIN aUpload.plan
          /\ aUpload.plan[aMutations[i].ord] = aMutations[i].text
AdmissionInv == /\ AdmissionShape /\ RowsOK
                /\ Receipts /\ Keys /\ Placed /\ Uploads /\ Sending

\* The mutations keep all but their state.
SameRow(i) == /\ aMutations'[i].rev = aMutations[i].rev /\ aMutations'[i].ord = aMutations[i].ord
              /\ aMutations'[i].key = aMutations[i].key
              /\ aMutations'[i].text = aMutations[i].text
RowsKept == /\ DOMAIN aMutations' = DOMAIN aMutations
            /\ \A i \in DOMAIN aMutations : SameRow(i)
Quiet == \A c \in Content : aRev'[c].chunk = aRev[c].chunk /\ aRev'[c].frozen = aRev[c].frozen

\* A revision that is frozen stays so, with the chunks it has.
Manifests == \A r \in Admission!Revision :
    aRev[r].frozen => aRev'[r].frozen /\ aRev'[r].chunk = aRev[r].chunk

(* Steps that touch neither the chunks of uploads nor the identity of a mutation keep
   receipts and uploads (dao.py:1391-1538, 3131-3242). *)
LEMMA QuietKeeps ==
  ASSUME AdmissionInv, RowsKept, Quiet, aReceipt' = aReceipt,
         \A c \in Content : HeadCommitted(c)'
  PROVE  Receipts' /\ Keys' /\ Placed' /\ Uploads'
  <1>1. Receipts' /\ Keys'
    <2>1. Receipts /\ Keys
      BY DEF AdmissionInv
    <2> QED BY <2>1 DEF Receipts, Keys, RowsKept, SameRow
  <1>2. Placed'
    BY DEF AdmissionInv, Placed, RowsKept, SameRow, Quiet
  <1>3. ASSUME NEW c \in Content PROVE Upload(c)'
    <2>1. \A o : HasMutation(c, o) => HasMutation(c, o)'
      BY DEF RowsKept, SameRow, HasMutation
    <2>2. aRev'[c].chunk = aRev[c].chunk /\ aRev'[c].frozen = aRev[c].frozen
      BY DEF Quiet
    <2>3. ChunksAdmitted(c)'
      BY <2>1, <2>2 DEF AdmissionInv, Uploads, Upload, ChunksAdmitted
    <2>4. Admission!Chunks(c)' = Admission!Chunks(c)
      BY <2>2 DEF Admission!Chunks
    <2>5. FrozenIsPlan(c)'
      BY ZenonT(60), <2>2, <2>4 DEF AdmissionInv, Uploads, Upload, FrozenIsPlan, IsPlan
    <2> QED BY <2>3, <2>5 DEF Upload
  <1> QED BY <1>1, <1>2, <1>3 DEF Uploads

(* An upload relies on the mutations of its revision only (v4_router.py:1348-1393). *)
LEMMA SendingKept ==
  ASSUME Sending, RowsKept, aUpload' = aUpload PROVE Sending'
  <1>1. \A o : HasMutation(aUpload.rev, o)' <=> HasMutation(aUpload.rev, o)
    BY DEF RowsKept, SameRow, HasMutation
  <1> QED BY <1>1 DEF Sending, RowsKept, SameRow

(* A head stays committed while no mutation of it is taken back (dao.py:3152-3173). *)
LEMMA HeadKept ==
  ASSUME AdmissionInv, NEW c \in Content, aRev'[c].st = "ACTIVE" => aRev[c].st = "ACTIVE",
         aRev'[c].chunk = aRev[c].chunk,
         \A i \in DOMAIN aMutations :
            /\ i \in DOMAIN aMutations' /\ SameRow(i)
            /\ aMutations[i].st = "COMMITTED" => aMutations'[i].st = "COMMITTED"
  PROVE  HeadCommitted(c)'
  <1>1. \A o : HasCommitted(c, o) => HasCommitted(c, o)'
    BY DEF SameRow, HasCommitted
  <1>2. Admission!Chunks(c)' = Admission!Chunks(c)
    BY DEF Admission!Chunks
  <1> QED BY <1>1, <1>2 DEF AdmissionInv, Uploads, Upload, HeadCommitted

(* A decision on a mutation changes its state and nothing else (dao.py:3131-3242). *)
LEMMA StateMoves ==
  ASSUME NEW rows \in Seq(MutationRow), NEW i \in DOMAIN rows,
         NEW s \in {"COMMITTED", "DEAD"}, rows[i].st = "OPEN",
         NEW new, new = [rows EXCEPT ![i].st = s]
  PROVE  /\ new \in Seq(MutationRow) /\ DOMAIN new = DOMAIN rows
         /\ \A j \in DOMAIN rows :
               /\ new[j].rev = rows[j].rev /\ new[j].ord = rows[j].ord
               /\ new[j].key = rows[j].key /\ new[j].text = rows[j].text
               /\ rows[j].st = "COMMITTED" => new[j].st = "COMMITTED"
  <1> DEFINE row == [rows[i] EXCEPT !.st = s]
  <1>1. rows[i] \in MutationRow
    BY ElementOfSeq
  <1>2. row \in MutationRow /\ row.rev = rows[i].rev /\ row.ord = rows[i].ord
        /\ row.key = rows[i].key /\ row.text = rows[i].text /\ row.st = s
    BY <1>1 DEF MutationRow
  <1>3. new = [rows EXCEPT ![i] = row]
    OBVIOUS
  <1> HIDE DEF row
  <1>4. [rows EXCEPT ![i] = row] \in Seq(MutationRow)
    BY <1>2, ExceptSeq, LenProperties
  <1>5. /\ DOMAIN [rows EXCEPT ![i] = row] = DOMAIN rows
        /\ [rows EXCEPT ![i] = row][i] = row
        /\ \A j \in DOMAIN rows : j # i => [rows EXCEPT ![i] = row][j] = rows[j]
    OBVIOUS
  <1> HIDE DEF MutationRow
  <1> QED BY <1>2, <1>3, <1>4, <1>5

(* A rejected mutation keeps AdmissionInv (ingestion_worker.py:138-350). *)
LEMMA RejectKeeps ==
  ASSUME AdmissionInv, NEW i \in DOMAIN aMutations, Admission!Reject(i) PROVE AdmissionInv'
  <1>0. /\ aMutations \in Seq(MutationRow) /\ aMutations[i].st = "OPEN"
        /\ aMutations' = [aMutations EXCEPT ![i].st = "DEAD"]
    BY DEF AdmissionInv, AdmissionShape, Admission!Reject
  <1>1. /\ aMutations' \in Seq(MutationRow) /\ RowsKept
        /\ \A j \in DOMAIN aMutations :
              aMutations[j].st = "COMMITTED" => aMutations'[j].st = "COMMITTED"
    BY <1>0, StateMoves DEF RowsKept, SameRow
  <1>2. aRev' = aRev /\ aReceipt' = aReceipt /\ aUpload' = aUpload /\ aChunking' = aChunking
    BY DEF Admission!Reject
  <1>3. AdmissionShape' /\ RowsOK'
    BY <1>1, <1>2 DEF AdmissionInv, AdmissionShape, RevisionsShape, RowsOK
  <1>4. \A c \in Content : HeadCommitted(c)'
    BY <1>1, <1>2, HeadKept DEF RowsKept
  <1>5. Sending'
    BY <1>1, <1>2, SendingKept DEF AdmissionInv
  <1>6. Receipts' /\ Keys' /\ Placed' /\ Uploads'
    BY <1>1, <1>2, <1>4, QuietKeeps DEF Quiet
  <1> QED BY <1>3, <1>5, <1>6 DEF AdmissionInv

(* A commit, and the activation it may complete, keep AdmissionInv (dao.py:3131-3242). *)
LEMMA CommitKeeps ==
  ASSUME AdmissionInv, NEW i \in DOMAIN aMutations, Admission!Commit(i) PROVE AdmissionInv'
  <1> DEFINE rows == [aMutations EXCEPT ![i].st = "COMMITTED"]
             r == aMutations[i].rev
  <1>0. aMutations \in Seq(MutationRow) /\ aMutations[i].st = "OPEN"
    BY DEF AdmissionInv, AdmissionShape, Admission!Commit
  <1>1. /\ rows \in Seq(MutationRow) /\ DOMAIN rows = DOMAIN aMutations
        /\ \A j \in DOMAIN aMutations :
              /\ rows[j].rev = aMutations[j].rev /\ rows[j].ord = aMutations[j].ord
              /\ rows[j].key = aMutations[j].key /\ rows[j].text = aMutations[j].text
              /\ aMutations[j].st = "COMMITTED" => rows[j].st = "COMMITTED"
    <2>1. \A new : new = [aMutations EXCEPT ![i].st = "COMMITTED"] =>
             /\ new \in Seq(MutationRow) /\ DOMAIN new = DOMAIN aMutations
             /\ \A j \in DOMAIN aMutations :
                   /\ new[j].rev = aMutations[j].rev /\ new[j].ord = aMutations[j].ord
                   /\ new[j].key = aMutations[j].key /\ new[j].text = aMutations[j].text
                   /\ aMutations[j].st = "COMMITTED" => new[j].st = "COMMITTED"
      BY <1>0, StateMoves
    <2> HIDE DEF rows, r
    <2>2. rows = [aMutations EXCEPT ![i].st = "COMMITTED"]
      BY DEF rows
    <2> QED BY ZenonT(60), <2>1, <2>2
  <1>2. r \in Admission!Revision
    <2>1. aMutations[i] \in MutationRow
      BY ElementOfSeq DEF AdmissionInv, AdmissionShape
    <2> QED BY <2>1 DEF MutationRow
  <1>3. /\ aMutations' = rows /\ aRev' = Admission!Activated(r, aRev, rows)
        /\ aReceipt' = aReceipt /\ aUpload' = aUpload /\ aChunking' = aChunking
    BY DEF Admission!Commit
  <1> HIDE DEF rows, r
  <1>4. RevisionsShape /\ RowsOK
    BY DEF AdmissionInv, AdmissionShape
  <1>5. /\ aRev' \in [Admission!Revision -> RevisionRow]
        /\ \A q \in Admission!Revision :
               /\ aRev'[q].chunk = aRev[q].chunk
               /\ aRev'[q].frozen = aRev[q].frozen
               /\ aRev'[q].st = "none" => aRev[q].st = "none"
               /\ aRev'[q].st = "ACTIVE" => \/ aRev[q].st = "ACTIVE"
                                            \/ q = r /\ Admission!Due(r, aRev, rows)
    BY <1>2, <1>3, <1>4, ActivatedRow DEF RevisionsShape
  <1>6. RevisionsShape' /\ RowsOK'
    BY <1>4, <1>5 DEF RevisionsShape, RowsOK, RowOK, Admission!Due
  <1>7. RowsKept /\ \A j \in DOMAIN aMutations :
              aMutations[j].st = "COMMITTED" => aMutations'[j].st = "COMMITTED"
    BY <1>1, <1>3 DEF RowsKept, SameRow
  <1>8. AdmissionShape'
    BY <1>1, <1>3, <1>6 DEF AdmissionInv, AdmissionShape
  <1>9. ASSUME NEW c \in Content PROVE HeadCommitted(c)'
    <2>0. c \in Admission!Revision
      BY DEF Admission!Revision
    <2>1. ASSUME aRev'[c].st = "ACTIVE" => aRev[c].st = "ACTIVE" PROVE HeadCommitted(c)'
      BY <1>5, <1>7, <2>0, <2>1, HeadKept DEF RowsKept
    <2>2. ASSUME c = r, Admission!Due(r, aRev, rows) PROVE HeadCommitted(c)'
      <3>1. \A o \in Admission!Chunks(c) : HasCommitted(c, o)'
        BY <1>3, <2>2 DEF Admission!Due, Admission!Complete, HasCommitted
      <3>2. Admission!Chunks(c)' = Admission!Chunks(c)
        BY <1>5, <2>0 DEF Admission!Chunks
      <3> QED BY <3>1, <3>2 DEF HeadCommitted
    <2> QED BY <1>5, <2>0, <2>1, <2>2
  <1>10. Quiet
    BY <1>5 DEF Quiet, Admission!Revision
  <1>11. Sending'
    BY <1>3, <1>7, SendingKept DEF AdmissionInv
  <1>12. Receipts' /\ Keys' /\ Placed' /\ Uploads'
    BY <1>3, <1>7, <1>9, <1>10, QuietKeeps
  <1> QED BY <1>6, <1>8, <1>11, <1>12 DEF AdmissionInv

(* A purge erases revisions and mutations by state (dao.py:1391-1538). *)
LEMMA PurgeKeepsManifests ==
  ASSUME AdmissionInv, Admission!Purge PROVE AdmissionInv'
  <1>1. aRev' \in [Admission!Revision -> RevisionRow] /\ \A r \in Admission!Revision :
           /\ aRev'[r].chunk = aRev[r].chunk /\ aRev'[r].frozen = aRev[r].frozen
           /\ aRev'[r].st = "none" => aRev[r].st = "none"
           /\ aRev'[r].st # "ACTIVE"
    <2>1. aRev' = [r \in Admission!Revision |-> IF aRev[r].st = "none" THEN aRev[r]
                                                ELSE [aRev[r] EXCEPT !.st = "PURGED"]]
      BY DEF Admission!Purge
    <2>2. aRev \in [Admission!Revision -> RevisionRow]
      BY DEF AdmissionInv, AdmissionShape, RevisionsShape
    <2>3. ASSUME NEW r \in Admission!Revision
          PROVE  /\ aRev'[r] \in RevisionRow
                 /\ aRev'[r].chunk = aRev[r].chunk /\ aRev'[r].frozen = aRev[r].frozen
                 /\ aRev'[r].st = "none" => aRev[r].st = "none"
                 /\ aRev'[r].st # "ACTIVE"
      <3>1. \/ aRev'[r] = aRev[r] /\ aRev[r].st = "none"
            \/ aRev'[r] = [aRev[r] EXCEPT !.st = "PURGED"]
        BY <2>1
      <3>2. aRev[r] \in RevisionRow
        BY <2>2
      <3>3. \A row \in RevisionRow : \A new : new = [row EXCEPT !.st = "PURGED"] =>
               /\ new \in RevisionRow /\ new.chunk = row.chunk /\ new.frozen = row.frozen
               /\ new.st = "PURGED"
        BY DEF RevisionRow, RevisionState
      <3>4. ASSUME aRev'[r] = aRev[r], aRev[r].st = "none"
            PROVE  /\ aRev'[r] \in RevisionRow
                   /\ aRev'[r].chunk = aRev[r].chunk /\ aRev'[r].frozen = aRev[r].frozen
                   /\ aRev'[r].st = "none" => aRev[r].st = "none"
                   /\ aRev'[r].st # "ACTIVE"
        BY <3>2, <3>4
      <3>5. ASSUME aRev'[r] = [aRev[r] EXCEPT !.st = "PURGED"]
            PROVE  /\ aRev'[r] \in RevisionRow
                   /\ aRev'[r].chunk = aRev[r].chunk /\ aRev'[r].frozen = aRev[r].frozen
                   /\ aRev'[r].st = "none" => aRev[r].st = "none"
                   /\ aRev'[r].st # "ACTIVE"
        BY <3>2, <3>3, <3>5
      <3> QED BY <3>1, <3>4, <3>5
    <2>4. aRev' = [r \in Admission!Revision |-> aRev'[r]]
      BY <2>1
    <2>5. aRev' \in [Admission!Revision -> RevisionRow]
      BY <2>3, <2>4
    <2> QED BY <2>3, <2>5
  <1>2. aReceipt' = aReceipt /\ aUpload' = aUpload /\ aChunking' = aChunking
    BY DEF Admission!Purge
  <1>3. aMutations' = [i \in DOMAIN aMutations |-> [aMutations[i] EXCEPT !.st = "PURGED"]]
    BY DEF Admission!Purge
  <1>4. aMutations \in Seq(MutationRow)
        /\ \A i \in DOMAIN aMutations : aMutations[i] \in MutationRow
    BY ElementOfSeq DEF AdmissionInv, AdmissionShape
  <1>5. RowsKept
    BY <1>3, <1>4 DEF RowsKept, SameRow, MutationRow
  <1>6. aMutations' \in Seq(MutationRow)
    <2>1. \A i \in DOMAIN aMutations : [aMutations[i] EXCEPT !.st = "PURGED"] \in MutationRow
      BY <1>4 DEF MutationRow
    <2>2. DOMAIN aMutations = 1..Len(aMutations) /\ Len(aMutations) \in Nat
      BY <1>4, LenProperties
    <2>3. aMutations' \in [1..Len(aMutations) -> MutationRow]
      BY <1>3, <2>1, <2>2
    <2> QED BY <2>2, <2>3, SeqDef
  <1>7. AdmissionShape' /\ RowsOK'
    BY <1>1, <1>2, <1>6 DEF AdmissionInv, AdmissionShape, RevisionsShape, RowsOK, RowOK
  <1>8. \A c \in Content : HeadCommitted(c)'
    BY <1>1 DEF HeadCommitted, Admission!Revision
  <1>9. Quiet
    BY <1>1 DEF Quiet, Admission!Revision
  <1>10. Sending'
    BY <1>2, <1>5, SendingKept DEF AdmissionInv
  <1>11. Receipts' /\ Keys' /\ Placed' /\ Uploads'
    BY <1>2, <1>5, <1>8, <1>9, QuietKeeps
  <1> QED BY <1>7, <1>10, <1>11 DEF AdmissionInv

(* The next number of a revision is a number (v4_router.py:1314-1326). *)
LEMMA NextNumberIsNumber ==
  ASSUME RevisionsShape, Admission!Revision # {}, Admission!NextNumber <= MaxNumber
  PROVE  Admission!NextNumber \in 0..MaxNumber
  <1> DEFINE L == Admission!Latest
             D == {k \in Nat : MaxNumber - k \in L}
  <1>1. MaxNumber \in Nat
    BY RequestsAssumption
  <1>2. L \subseteq 0..MaxNumber /\ L # {}
    BY DEF Admission!Latest, RevisionsShape, RevisionRow
  <1>3. D # {} /\ D \in SUBSET Nat
    <2>1. PICK n \in L : TRUE
      BY <1>2
    <2>2. n \in 0..MaxNumber
      BY <1>2
    <2>3. MaxNumber - n \in Nat /\ MaxNumber - (MaxNumber - n) = n
      BY <1>1, <2>2
    <2>4. MaxNumber - n \in D
      BY <2>1, <2>3
    <2> QED BY <2>4
  <1>4. PICK k \in D : \A j \in D : k <= j
    BY <1>3, Least
  <1>5. MaxNumber - k \in L /\ \A m \in L : m <= MaxNumber - k
    <2>1. ASSUME NEW m \in L PROVE m <= MaxNumber - k
      <3>1. m \in 0..MaxNumber
        BY <1>2
      <3>2. MaxNumber - m \in Nat /\ MaxNumber - (MaxNumber - m) = m
        BY <1>1, <3>1
      <3>3. MaxNumber - m \in D
        BY <3>2
      <3>4. k <= MaxNumber - m /\ k \in Nat
        BY <1>4, <3>3
      <3> QED BY <1>1, <3>1, <3>4
    <2> QED BY <1>4, <2>1
  <1> DEFINE top == CHOOSE n \in L : \A m \in L : m <= n
  <1> HIDE DEF D, L
  <1>6. top \in L
    BY <1>5
  <1> HIDE DEF top
  <1>7. Admission!NextNumber = 1 + top
    BY DEF Admission!NextNumber, top, L
  <1>8. top \in 0..MaxNumber
    BY <1>2, <1>6
  <1> QED BY <1>1, <1>7, <1>8

(* An upload that moves on keeps its revision (v4_router.py:1286-1336). *)
LEMMA UploadRowMoves ==
  ASSUME aUpload \in UploadRow, NEW step \in {"idle", "create", "plan", "send"},
         NEW new, new = [aUpload EXCEPT !.step = step]
  PROVE  new \in UploadRow /\ new.step = step /\ new.rev = aUpload.rev
  BY DEF UploadRow

NewUpload(step, c, num, sup) ==
  [step |-> step, rev |-> c, num |-> num, sup |-> sup, plan |-> << >>, sent |-> {}]

(* What an upload starts with (v4_router.py:1286-1336). *)
LEMMA NewUploadRow ==
  ASSUME NEW step \in {"create", "plan"}, NEW c \in Content, NEW num \in 0..MaxNumber,
         NEW sup \in Admission!Revision \cup {None}
  PROVE  NewUpload(step, c, num, sup) \in UploadRow
  BY DEF NewUpload, UploadRow

(* No upload (v4_router.py:1470-1477). *)
LEMMA IdleRow == Admission!NoUpload \in UploadRow /\ Admission!NoUpload.step = "idle"
  BY RequestsAssumption DEF Admission!NoUpload, UploadRow

\* Steps of an upload that leave the tables alone.
(* Steps of an upload that leave the tables alone keep AdmissionInv
   (v4_router.py:1259-1477). *)
LEMMA OnlyUpload ==
  ASSUME AdmissionInv, aUpload' \in UploadRow, aUpload'.step # "idle" => aUpload'.rev \in Content,
         aRev' = aRev, aMutations' = aMutations, aReceipt' = aReceipt, aChunking' \in Chunkings,
         Sending'
  PROVE  AdmissionInv'
  <1>1. AdmissionShape' /\ RowsOK'
    BY DEF AdmissionInv, AdmissionShape, RevisionsShape, RowsOK
  <1>2. Receipts' /\ Keys' /\ Placed'
    BY DEF AdmissionInv, Receipts, Keys, Placed
  <1>3. Uploads'
    BY DEF AdmissionInv, Uploads, Upload, ChunksAdmitted, FrozenIsPlan, HeadCommitted, IsPlan,
       Admission!Chunks, HasMutation, HasCommitted
  <1> QED BY <1>1, <1>2, <1>3 DEF AdmissionInv

(* An upload starts, with the revision it finds or a new number (v4_router.py:1286-1336). *)
LEMMA StartKeeps ==
  ASSUME AdmissionInv, NEW c \in Content, Admission!UploadStart(c) PROVE AdmissionInv'
  <1>1. /\ aRev' = aRev /\ aMutations' = aMutations /\ aReceipt' = aReceipt
        /\ aChunking' = aChunking
    BY DEF Admission!UploadStart
  <1>2. c \in Admission!Revision /\ RevisionsShape /\ aChunking \in Chunkings
    BY DEF Admission!Revision, AdmissionInv, AdmissionShape
  <1>3. \E step \in {"create", "plan"} : \E num \in 0..MaxNumber :
        \E sup \in Admission!Revision \cup {None} : aUpload' = NewUpload(step, c, num, sup)
    <2>1. ASSUME aUpload' = [Admission!NoUpload EXCEPT !.step = "plan", !.rev = c,
                                        !.num = aRev[c].num, !.sup = aRev[c].sup]
          PROVE  aUpload' = NewUpload("plan", c, aRev[c].num, aRev[c].sup)
      BY <2>1 DEF Admission!NoUpload, NewUpload
    <2>2. aRev[c].num \in 0..MaxNumber /\ aRev[c].sup \in Admission!Revision \cup {None}
      BY <1>2 DEF RevisionsShape, RevisionRow
    <2>3. ASSUME NEW num, NEW sup,
                 aUpload' = [Admission!NoUpload EXCEPT !.step = "create", !.rev = c,
                                        !.num = num, !.sup = sup]
          PROVE  aUpload' = NewUpload("create", c, num, sup)
      BY <2>3 DEF Admission!NoUpload, NewUpload
    <2> DEFINE s == IF Admission!Active = {} THEN None ELSE CHOOSE r \in Admission!Active : TRUE
    <2>4. s \in Admission!Revision \cup {None}
      BY DEF Admission!Active
    <2>5. \/ aUpload' = NewUpload("plan", c, aRev[c].num, aRev[c].sup)
          \/ /\ Admission!NextNumber <= MaxNumber
             /\ aUpload' = NewUpload("create", c, Admission!NextNumber, s)
      BY ZenonT(60), <2>1, <2>3 DEF Admission!UploadStart
    <2>6. Admission!NextNumber <= MaxNumber => Admission!NextNumber \in 0..MaxNumber
      BY <1>2, NextNumberIsNumber
    <2> HIDE DEF s
    <2> QED BY <2>2, <2>4, <2>5, <2>6
  <1>4. /\ aUpload' \in UploadRow /\ aUpload'.rev = c /\ aUpload'.step # "send"
    BY <1>3, NewUploadRow DEF NewUpload
  <1> QED BY <1>1, <1>2, <1>4, OnlyUpload DEF Sending

(* An upload that ends, or whose process dies, keeps AdmissionInv (v4_router.py:1470-1477). *)
LEMMA EndKeeps ==
  ASSUME AdmissionInv, Admission!UploadEnd \/ Admission!Restart PROVE AdmissionInv'
  <1>1. /\ aRev' = aRev /\ aMutations' = aMutations /\ aReceipt' = aReceipt
        /\ aChunking' \in Chunkings /\ aUpload' = Admission!NoUpload
    BY DEF Admission!UploadEnd, Admission!Restart, AdmissionInv, AdmissionShape
  <1> QED BY <1>1, IdleRow, OnlyUpload DEF Sending

(* A resumed upload takes a plan that every admitted chunk fits (v4_router.py:1348-1393). *)
LEMMA PlanKeeps ==
  ASSUME AdmissionInv, Admission!UploadPlan PROVE AdmissionInv'
  <1> DEFINE c == aUpload.rev
  <1>1. /\ aRev' = aRev /\ aMutations' = aMutations /\ aReceipt' = aReceipt
        /\ aChunking' = aChunking /\ aUpload.step = "plan"
    BY DEF Admission!UploadPlan
  <1>2. c \in Content /\ aUpload \in UploadRow /\ aChunking \in Chunkings
        /\ \A i \in DOMAIN aMutations : aMutations[i] \in MutationRow
    BY <1>1, ElementOfSeq DEF AdmissionInv, AdmissionShape
  <1>3. PICK plan \in Admission!Usable(c) :
           aUpload' = [aUpload EXCEPT !.step = "send", !.plan = plan,
                               !.sent = Admission!Admitted(c)]
    BY ZenonT(60) DEF Admission!UploadPlan
  <1>4. (\E m \in Chunkings : plan = Plan[c][m]) /\ Admission!Matches(plan, c)
    BY <1>2 DEF Admission!Usable, Admission!Preferred, Admission!Others, Admission!Matches,
       Admission!MutationsOf
  <1>5. /\ aUpload' \in UploadRow /\ aUpload'.step = "send" /\ aUpload'.rev = c
        /\ aUpload'.plan = plan /\ aUpload'.sent = Admission!Admitted(c)
    <2>1. Admission!Admitted(c) \in SUBSET Admission!Ordinal
      BY <1>2 DEF Admission!Admitted, Admission!MutationsOf, MutationRow
    <2>2. plan \in AnyPlan
      BY <1>2, <1>4 DEF AnyPlan
    <2> DEFINE sent == Admission!Admitted(c)
    <2> HIDE DEF sent
    <2>3. \A new : new = [aUpload EXCEPT !.step = "send", !.plan = plan, !.sent = sent] =>
             /\ new \in UploadRow /\ new.step = "send" /\ new.rev = c
             /\ new.plan = plan /\ new.sent = sent
      <3>1. sent \in SUBSET Admission!Ordinal
        BY <2>1 DEF sent
      <3> QED BY ZenonT(60), <1>2, <2>2, <3>1 DEF UploadRow
    <2> QED BY <1>3, <2>3 DEF sent
  <1>6. Sending'
    BY <1>1, <1>4, <1>5 DEF Sending, HasMutation, Admission!Admitted, Admission!MutationsOf,
       Admission!Matches
  <1> QED BY <1>1, <1>2, <1>5, <1>6, OnlyUpload

(* A new revision is open and has no chunk (dao.py:889-927). *)
LEMMA CreatedRow ==
  ASSUME NEW num, NEW sup, NEW row, row = Admission!Created(num, sup)
  PROVE  row = [st |-> "PENDING", num |-> num, sup |-> sup, frozen |-> FALSE,
                chunk |-> [o \in Admission!Ordinal |-> None]]
  BY DEF Admission!Created, Admission!NoRevision

(* Creating the revision of an upload keeps AdmissionInv (dao.py:812-927). *)
LEMMA CreateKeeps ==
  ASSUME AdmissionInv, Admission!UploadCreate PROVE AdmissionInv'
  <1> DEFINE c == aUpload.rev
  <1>1. /\ aMutations' = aMutations /\ aReceipt' = aReceipt
        /\ aChunking' = aChunking /\ aUpload.step = "create" /\ aRev[c].st = "none"
        /\ aRev' = [aRev EXCEPT ![c] = Admission!Created(aUpload.num, aUpload.sup)]
        /\ aUpload' = [aUpload EXCEPT !.step = "plan"]
    BY DEF Admission!UploadCreate, Admission!CanCreate
  <1>2. c \in Content /\ c \in Admission!Revision /\ aUpload \in UploadRow
    BY <1>1 DEF AdmissionInv, AdmissionShape, Admission!Revision
  <1>3. aUpload' \in UploadRow /\ aUpload'.step = "plan" /\ aUpload'.rev = c
    BY <1>1, <1>2, UploadRowMoves
  <1> DEFINE new == Admission!Created(aUpload.num, aUpload.sup)
  <1>4. /\ new \in RevisionRow /\ new.st = "PENDING" /\ new.frozen = FALSE
        /\ new.chunk = [o \in Admission!Ordinal |-> None]
    <2>1. aUpload.num \in 0..MaxNumber /\ aUpload.sup \in Admission!Revision \cup {None}
      BY <1>2 DEF UploadRow
    <2>2. new = [st |-> "PENDING", num |-> aUpload.num, sup |-> aUpload.sup, frozen |-> FALSE,
                 chunk |-> [o \in Admission!Ordinal |-> None]]
      BY CreatedRow
    <2> HIDE DEF new
    <2>3. new \in RevisionRow
      BY <2>1, <2>2 DEF RevisionRow, RevisionState
    <2> QED BY <2>2, <2>3
  <1> HIDE DEF new, c
  <1>5. aRev \in [Admission!Revision -> RevisionRow] /\ RowsOK
    BY DEF AdmissionInv, AdmissionShape, RevisionsShape
  <1>6. /\ aRev' \in [Admission!Revision -> RevisionRow]
        /\ aRev'[c] = new
        /\ \A q \in Admission!Revision : q # c => aRev'[q] = aRev[q]
    BY <1>1, <1>2, <1>4, <1>5 DEF new
  <1>7. RowsOK'
    BY <1>4, <1>5, <1>6 DEF RowsOK, RowOK
  <1>8. Quiet
    <2>1. aRev[c].frozen = FALSE /\ aRev[c].chunk = [o \in Admission!Ordinal |-> None]
      BY <1>1, <1>2, <1>5 DEF RowsOK, RowOK, RevisionRow
    <2> QED BY <1>4, <1>6, <2>1 DEF Quiet, Admission!Revision
  <1>9. RowsKept
    BY <1>1 DEF RowsKept, SameRow
  <1>10. \A k \in Content : HeadCommitted(k)'
    <2>1. ASSUME NEW k \in Content PROVE aRev'[k].st = "ACTIVE" => aRev[k].st = "ACTIVE"
      BY <1>4, <1>6 DEF Admission!Revision
    <2> QED BY <1>1, <1>8, <1>9, <2>1, HeadKept DEF Quiet, RowsKept
  <1>11. Receipts' /\ Keys' /\ Placed' /\ Uploads'
    BY <1>1, <1>8, <1>9, <1>10, QuietKeeps
  <1>12. AdmissionShape'
    BY <1>1, <1>2, <1>3, <1>6 DEF AdmissionInv, AdmissionShape, RevisionsShape
  <1> QED BY <1>3, <1>7, <1>11, <1>12 DEF AdmissionInv, Sending

(* Single inserts name revisions of their own (v4_router.py:1175-1256). *)
LEMMA DirectRequest ==
  ASSUME NEW p \in Sent
  PROVE  /\ p \in Requests /\ p.rev \in DirectRev /\ p.rev \in Admission!Revision
         /\ \A c \in Content : c \in Admission!Revision /\ c # p.rev
  <1>1. p \in Requests /\ p.rev \in DirectRev /\ Content \cap DirectRev = {}
    BY RequestsAssumption
  <1> QED BY <1>1 DEF Admission!Revision

(* A chunk stored without an insert keeps AdmissionInv (dao.py:986-1183). *)
LEMMA CreateChunkKeeps ==
  ASSUME AdmissionInv, NEW p \in Sent, Admission!CreateChunk(p) PROVE AdmissionInv'
  <1> DEFINE now == Admission!Stored(p)
             act == Admission!Activated(p.rev, now, aMutations)
  <1>1. /\ p \in Requests /\ p.rev \in Admission!Revision /\ Admission!Accepts(p)
        /\ \A c \in Content : c \in Admission!Revision /\ c # p.rev
    BY DirectRequest DEF Admission!CreateChunk
  <1>2. RevisionsShape /\ RowsOK
    BY DEF AdmissionInv, AdmissionShape
  <1>3. /\ now \in [Admission!Revision -> RevisionRow]
        /\ \A r \in Admission!Revision \ {p.rev} : now[r] = aRev[r]
        /\ RowOK(now[p.rev])
    BY <1>1, <1>2, StoredRow
  <1>4. /\ aMutations' = aMutations /\ aReceipt' = aReceipt /\ aUpload' = aUpload
        /\ aChunking' = aChunking
        /\ aRev' = now \/ aRev' = act
    BY DEF Admission!CreateChunk
  <1> HIDE DEF now
  <1>5. /\ act \in [Admission!Revision -> RevisionRow]
        /\ \A q \in Admission!Revision :
               /\ act[q].chunk = now[q].chunk
               /\ act[q].frozen = now[q].frozen
               /\ act[q].st = "none" => now[q].st = "none"
               /\ act[q].st = "ACTIVE" =>
                    \/ now[q].st = "ACTIVE"
                    \/ q = p.rev /\ Admission!Due(p.rev, now, aMutations)
    BY <1>1, <1>3, ActivatedRow
  <1> HIDE DEF act
  <1>6. RevisionsShape' /\ RowsOK'
    <2>1. \A q \in Admission!Revision : RowOK(now[q])
      BY <1>2, <1>3 DEF RowsOK
    <2>2. \A q \in Admission!Revision : RowOK(act[q])
      BY <1>5, <2>1 DEF RowOK, Admission!Due
    <2> QED BY <1>3, <1>4, <1>5, <2>1, <2>2 DEF RevisionsShape, RowsOK
  <1>7. ASSUME NEW c \in Content
        PROVE  /\ aRev'[c].chunk = aRev[c].chunk /\ aRev'[c].frozen = aRev[c].frozen
               /\ aRev'[c].st = "ACTIVE" => aRev[c].st = "ACTIVE"
    <2>1. now[c] = aRev[c] /\ c \in Admission!Revision /\ c # p.rev
      BY <1>1, <1>3
    <2> QED BY <1>4, <1>5, <2>1
  <1>8. RowsKept /\ Quiet
    BY <1>4, <1>7 DEF RowsKept, SameRow, Quiet
  <1>9. \A c \in Content : HeadCommitted(c)'
    BY <1>4, <1>7, <1>8, HeadKept DEF RowsKept
  <1>10. Receipts' /\ Keys' /\ Placed' /\ Uploads'
    BY <1>4, <1>8, <1>9, QuietKeeps
  <1>11. Sending'
    BY <1>4, <1>8, SendingKept DEF AdmissionInv
  <1>12. AdmissionShape'
    BY <1>4, <1>6 DEF AdmissionInv, AdmissionShape
  <1> QED BY <1>6, <1>10, <1>11, <1>12 DEF AdmissionInv

\* What an admission does to the mutations: Len(aMutations) + 1 is new.
Latest == Len(aMutations) + 1
Added(k, p) ==
    /\ aMutations' \in Seq(MutationRow)
    /\ DOMAIN aMutations' = DOMAIN aMutations \cup {Latest} /\ Latest \notin DOMAIN aMutations
    /\ \A i \in DOMAIN aMutations : aMutations'[i] = aMutations[i]
    /\ aMutations'[Latest] = [rev |-> p.rev, ord |-> p.ord, key |-> k, text |-> p.text,
                               st |-> "OPEN"]

(* What Append does to the rows of a sequence. *)
LEMMA AppendRows ==
  ASSUME NEW S, NEW s \in Seq(S), NEW e \in S, NEW t, t = Append(s, e), NEW l, l = Len(s) + 1
  PROVE  /\ t \in Seq(S) /\ DOMAIN t = DOMAIN s \cup {l} /\ l \notin DOMAIN s
         /\ l \in Nat
         /\ \A i \in DOMAIN s : t[i] = s[i]
         /\ t[l] = e
  <1>1. Len(s) \in Nat /\ DOMAIN s = 1..Len(s)
    BY LenProperties
  <1>2. t \in Seq(S) /\ Len(t) = l /\ t[l] = e /\ \A i \in 1..Len(s) : t[i] = s[i]
    BY AppendProperties
  <1>3. DOMAIN t = 1..l
    BY <1>2, LenProperties
  <1>4. 1..l = 1..Len(s) \cup {l} /\ l \notin 1..Len(s)
    BY <1>1
  <1> QED BY <1>1, <1>2, <1>3, <1>4

(* An admission adds one mutation and, under a key, its receipt; other receipts still name
   their mutations (dao.py:2035-2379). *)
LEMMA AdmitMoves ==
  ASSUME AdmissionInv, NEW p \in Requests, NEW k \in AnyKey \cup {None}, Admission!Admit(k, p)
  PROVE  /\ Added(k, p)
         /\ aRev' = Admission!Stored(p) /\ Admission!Accepts(p)
         /\ RevisionsShape' /\ RowsOK'
         /\ aReceipt' \in [AnyKey -> ReceiptRow]
         /\ Receipts' /\ Keys'
  <1>1. /\ Admission!Fresh(k) /\ Admission!Accepts(p) /\ aRev' = Admission!Stored(p)
        /\ aMutations' = Append(aMutations, [rev |-> p.rev, ord |-> p.ord, key |-> k,
                                       text |-> p.text, st |-> "OPEN"])
        /\ aReceipt' = IF k = None THEN aReceipt
                  ELSE [aReceipt EXCEPT ![k] = [hash |-> p, mut |-> Len(aMutations) + 1]]
    BY DEF Admission!Admit, Admission!CanInsert, Admission!Inserted
  <1>2. /\ RevisionsShape /\ RowsOK /\ aMutations \in Seq(MutationRow)
        /\ aReceipt \in [AnyKey -> ReceiptRow]
    BY DEF AdmissionInv, AdmissionShape
  <1>3. p.rev \in Admission!Revision /\ p.ord \in Admission!Ordinal /\ p.text \in Texts
    BY DEF Requests, Admission!Revision, Admission!Ordinal
  <1> DEFINE e == [rev |-> p.rev, ord |-> p.ord, key |-> k, text |-> p.text, st |-> "OPEN"]
  <1>4. e \in MutationRow
    BY <1>3 DEF MutationRow
  <1> HIDE DEF e
  <1>5. Added(k, p) /\ Latest \in Nat
    <2>1. aMutations' = Append(aMutations, e)
      BY <1>1 DEF e
    <2>2. /\ aMutations' \in Seq(MutationRow)
          /\ DOMAIN aMutations' = DOMAIN aMutations \cup {Latest} /\ Latest \notin DOMAIN aMutations
          /\ Latest \in Nat
          /\ \A i \in DOMAIN aMutations : aMutations'[i] = aMutations[i]
          /\ aMutations'[Latest] = e
      BY <1>2, <1>4, <2>1, AppendRows DEF Latest
    <2> QED BY <2>2 DEF Added, e
  <1>6. RevisionsShape' /\ RowsOK'
    <2>1. /\ aRev' \in [Admission!Revision -> RevisionRow] /\ RowOK(aRev'[p.rev])
          /\ \A r \in Admission!Revision \ {p.rev} : aRev'[r] = aRev[r]
      BY <1>1, <1>2, StoredRow
    <2> QED BY <1>2, <2>1 DEF RevisionsShape, RowsOK
  <1>7. p # None /\ None \notin AnyKey
    BY RequestsAssumption DEF AnyKey, Admission!UploadKey, Admission!Ordinal
  <1>8. \A q \in AnyKey : \/ q = k /\ aReceipt'[q] = [hash |-> p, mut |-> Latest]
                             /\ aReceipt[q].hash = None
                          \/ q # k /\ aReceipt'[q] = aReceipt[q]
    BY <1>1, <1>2, <1>7 DEF Latest, Admission!Fresh
  <1>9. aReceipt' \in [AnyKey -> ReceiptRow]
    <2>1. [hash |-> p, mut |-> Latest] \in ReceiptRow
      BY <1>5 DEF ReceiptRow
    <2>2. aReceipt' = aReceipt \/ aReceipt' = [aReceipt EXCEPT ![k] = [hash |-> p, mut |-> Latest]]
      BY <1>1 DEF Latest
    <2> QED BY <1>2, <2>1, <2>2
  <1>10. Receipts'
    <2>1. ASSUME NEW q \in AnyKey, aReceipt'[q].hash # None
          PROVE  /\ aReceipt'[q].mut \in DOMAIN aMutations'
                 /\ aMutations'[aReceipt'[q].mut].key = q
                 /\ aMutations'[aReceipt'[q].mut].text = aReceipt'[q].hash.text
      <3>1. CASE q = k /\ aReceipt'[q] = [hash |-> p, mut |-> Latest]
        BY <1>5, <3>1 DEF Added
      <3>2. CASE aReceipt'[q] = aReceipt[q]
        BY <1>5, <2>1, <3>2 DEF Added, AdmissionInv, Receipts
      <3> QED BY <1>8, <3>1, <3>2
    <2> QED BY <2>1 DEF Receipts
  <1>11. Keys'
    <2>1. ASSUME NEW i \in DOMAIN aMutations', aMutations'[i].key # None
          PROVE  /\ aReceipt'[aMutations'[i].key].hash # None
                 /\ aReceipt'[aMutations'[i].key].mut = i
      <3>1. CASE i = Latest
        <4>1. aMutations'[i].key = k /\ k \in AnyKey
          BY <1>5, <2>1, <3>1 DEF Added
        <4>2. aReceipt'[k] = [hash |-> p, mut |-> Latest]
          BY <1>8, <4>1
        <4> QED BY <1>7, <3>1, <4>1, <4>2
      <3>2. CASE i \in DOMAIN aMutations
        <4>1. aMutations'[i] = aMutations[i] /\ aMutations[i].key \in AnyKey
          <5>1. aMutations[i] \in MutationRow
            BY <1>2, <3>2, ElementOfSeq
          <5> QED BY <1>5, <2>1, <3>2, <5>1 DEF Added, MutationRow
        <4>2. aReceipt[aMutations[i].key].hash # None /\ aReceipt[aMutations[i].key].mut = i
          BY <2>1, <3>2, <4>1 DEF AdmissionInv, Keys
        <4> QED BY <1>8, <4>1, <4>2
      <3> QED BY <1>5, <3>1, <3>2 DEF Added
    <2> QED BY <2>1 DEF Keys
  <1> QED BY <1>1, <1>5, <1>6, <1>9, <1>10, <1>11

(* A single insert keeps AdmissionInv (v4_router.py:1175-1256). *)
LEMMA DirectKeeps ==
  ASSUME AdmissionInv, NEW p \in Sent, NEW k \in Key \cup {None}, Admission!Insert(k, p)
  PROVE  AdmissionInv'
  <1>1. /\ p \in Requests /\ p.rev \in Admission!Revision /\ Admission!Admit(k, p)
        /\ p.rev \notin Content
        /\ aUpload' = aUpload /\ aChunking' = aChunking
        /\ \A c \in Content : c \in Admission!Revision /\ c # p.rev
    BY DirectRequest DEF Admission!Insert
  <1>2. k \in AnyKey \cup {None} /\ k \notin Admission!UploadKey
    BY RequestsAssumption DEF AnyKey, Admission!UploadKey, Admission!Ordinal
  <1>3. /\ Added(k, p)
        /\ aRev' = Admission!Stored(p) /\ Admission!Accepts(p)
        /\ RevisionsShape' /\ RowsOK'
        /\ aReceipt' \in [AnyKey -> ReceiptRow]
        /\ Receipts' /\ Keys'
    BY <1>1, <1>2, AdmitMoves
  <1>4. \A c \in Content : aRev'[c] = aRev[c]
    BY <1>1, <1>3, StoredRow DEF AdmissionInv, AdmissionShape
  <1>5. AdmissionShape'
    BY <1>1, <1>3 DEF AdmissionInv, AdmissionShape, Added
  <1>6. Placed'
    BY <1>1, <1>2, <1>3, <1>4 DEF AdmissionInv, Placed, Added
  <1>7. ASSUME NEW c \in Content PROVE Upload(c)'
    <2>1. \A o : /\ HasMutation(c, o) => HasMutation(c, o)'
                 /\ HasCommitted(c, o) => HasCommitted(c, o)'
      BY <1>3 DEF Added, HasMutation, HasCommitted
    <2>2. Admission!Chunks(c)' = Admission!Chunks(c)
      BY <1>4 DEF Admission!Chunks
    <2>3. Upload(c)
      BY DEF AdmissionInv, Uploads
    <2> QED BY <1>4, <2>1, <2>2, <2>3 DEF Upload, ChunksAdmitted, FrozenIsPlan, IsPlan,
       HeadCommitted
  <1>8. Sending'
    <2>1. aUpload.step = "send" => aUpload.rev \in Content
      BY DEF AdmissionInv, AdmissionShape
    <2>2. ASSUME aUpload.step = "send"
          PROVE  /\ \A i \in DOMAIN aMutations' : aMutations'[i].rev = aUpload.rev =>
                       i \in DOMAIN aMutations /\ aMutations'[i] = aMutations[i]
                 /\ \A o : HasMutation(aUpload.rev, o)' <=> HasMutation(aUpload.rev, o)
      BY <1>1, <1>3, <2>1, <2>2 DEF Added, HasMutation
    <2> QED BY <1>1, <2>2 DEF AdmissionInv, Sending
  <1> QED BY <1>3, <1>5, <1>6, <1>7, <1>8 DEF AdmissionInv, Uploads

(* The next chunk of an upload: it was not admitted before, so its key is fresh and its
   revision open; the last chunk of the plan freezes exactly the plan (v4_router.py:1433-1469). *)
LEMMA SendKeeps ==
  ASSUME AdmissionInv, Admission!UploadSend PROVE AdmissionInv' /\ Manifests
  <1> DEFINE R == Admission!Remaining
  <1>c. PICK c \in Content : c = aUpload.rev
    BY DEF AdmissionInv, AdmissionShape, Admission!UploadSend
  <1>p. PICK plan : plan = aUpload.plan
    OBVIOUS
  <1>o. PICK o : o = CHOOSE n \in R : \A m \in R : n <= m
    OBVIOUS
  <1>q. PICK p : p = [rev |-> c, num |-> aUpload.num, sup |-> aUpload.sup, ord |-> o,
                   text |-> plan[o], last |-> Admission!LastOfPlan(o)]
    OBVIOUS
  <1> DEFINE key == <<c, o>>
  <1>1. /\ aUpload.step = "send" /\ R # {} /\ aChunking' = aChunking
        /\ Admission!Admit(key, p) \/ Admission!Duplicate(key, p)
        /\ aUpload' = [aUpload EXCEPT !.sent = @ \cup {o}]
    BY <1>c, <1>p, <1>o, <1>q DEF Admission!UploadSend
  <1>2. /\ c \in Content /\ c \in Admission!Revision /\ aUpload \in UploadRow
        /\ aUpload.num \in 0..MaxNumber /\ aUpload.sup \in Admission!Revision \cup {None}
        /\ aUpload.sent \in SUBSET Admission!Ordinal
    BY <1>1 DEF AdmissionInv, AdmissionShape, Admission!Revision, UploadRow
  <1>3. PICK m \in Chunkings : plan = Plan[c][m]
    BY <1>1, <1>c, <1>p DEF AdmissionInv, Sending
  <1>4. /\ \A n \in Admission!Ordinal : n \in aUpload.sent <=> HasMutation(c, n)
        /\ \A i \in DOMAIN aMutations : aMutations[i].rev = c =>
              aMutations[i].ord \in DOMAIN plan /\ plan[aMutations[i].ord] = aMutations[i].text
    BY <1>1, <1>c, <1>p DEF AdmissionInv, Sending
  <1>5. /\ Len(plan) \in 0..MaxChunks /\ DOMAIN plan = 1..Len(plan) /\ MaxChunks \in Nat
        /\ DOMAIN plan \subseteq Admission!Ordinal
        /\ \A n \in DOMAIN plan : plan[n] \in Texts
    <2>1. Len(plan) \in 0..MaxChunks /\ DOMAIN plan = 1..Len(plan) /\ MaxChunks \in Nat
      BY <1>2, <1>3, RequestsAssumption
    <2>2. DOMAIN plan \subseteq Admission!Ordinal
      BY <2>1 DEF Admission!Ordinal
    <2>3. \A n \in DOMAIN plan : plan[n] \in Texts
      <3>1. \A n \in DOMAIN plan : plan[n] \in TextsOf(plan)
        BY DEF TextsOf
      <3>2. TextsOf(plan) \subseteq Texts
        BY <1>2, <1>3 DEF Texts
      <3> QED BY <3>1, <3>2
    <2> QED BY <2>1, <2>2, <2>3
  <1>6. o \in DOMAIN plan /\ o \notin aUpload.sent /\ \A n \in DOMAIN plan \ aUpload.sent : o <= n
    <2>1. R = DOMAIN plan \ aUpload.sent /\ R \in SUBSET Nat
      BY <1>5, <1>p DEF Admission!Remaining
    <2>2. \E n \in R : \A k \in R : n <= k
      BY <1>1, <2>1, Least
    <2> HIDE DEF R
    <2>3. o \in R /\ \A n \in R : o <= n
      BY <1>o, <2>2
    <2> QED BY <2>1, <2>3
  <1> HIDE DEF R
  <1>7. o \in Admission!Ordinal /\ ~HasMutation(c, o) /\ plan[o] \in Texts
    BY <1>4, <1>5, <1>6
  <1>8. p \in Requests
    <2>1. Admission!LastOfPlan(o) \in BOOLEAN
      BY DEF Admission!LastOfPlan
    <2>2. c \in Content \cup DirectRev /\ aUpload.sup \in Content \cup DirectRev \cup {None}
          /\ o \in 1..MaxChunks
      BY <1>2, <1>7 DEF Admission!Revision, Admission!Ordinal
    <2> QED BY <1>2, <1>7, <1>q, <2>1, <2>2 DEF Requests
  <1>9. /\ p.rev = c /\ p.ord = o /\ p.text = plan[o]
        /\ p.last <=> o = Len(plan)
    BY <1>q, <1>p DEF Admission!LastOfPlan
  <1>10. key \in Admission!UploadKey /\ key \in AnyKey
    BY <1>2, <1>7 DEF Admission!UploadKey, AnyKey
  <1>11. ~Admission!Duplicate(key, p)
    <2>1. ASSUME Admission!Duplicate(key, p) PROVE FALSE
      <3>1. aReceipt[key].hash # None
        BY <1>8, <2>1, RequestsAssumption DEF Admission!Duplicate
      <3>2. PICK i \in DOMAIN aMutations : aMutations[i].key = key
        BY <1>10, <3>1 DEF AdmissionInv, Receipts
      <3>3. key = <<aMutations[i].rev, aMutations[i].ord>>
        BY <1>10, <3>2 DEF AdmissionInv, Placed
      <3> QED BY <1>7, <3>3 DEF HasMutation
    <2> QED BY <2>1
  <1>12. /\ Added(key, p)
         /\ aRev' = Admission!Stored(p) /\ Admission!Accepts(p)
         /\ RevisionsShape' /\ RowsOK'
         /\ aReceipt' \in [AnyKey -> ReceiptRow]
         /\ Receipts' /\ Keys'
    BY <1>1, <1>8, <1>10, <1>11, AdmitMoves
  <1>13. /\ \A r \in Admission!Revision : r # c => aRev'[r] = aRev[r]
         /\ aRev'[c].chunk[o] = plan[o]
         /\ \A n \in Admission!Ordinal : n # o => aRev'[c].chunk[n] = aRev[c].chunk[n]
         /\ aRev'[c].frozen => aRev[c].frozen \/ o = Len(plan)
         /\ aRev'[c].st = "ACTIVE" => aRev[c].st = "ACTIVE"
    BY <1>8, <1>9, <1>12, StoredRow DEF AdmissionInv, AdmissionShape
  \* A frozen revision takes no new chunk.
  <1>14. ~aRev[c].frozen /\ aRev[c].st # "ACTIVE"
    <2>1. aRev[c].chunk[o] = None
      BY <1>2, <1>7 DEF AdmissionInv, Uploads, Upload, ChunksAdmitted
    <2>2. RowOK(aRev[c])
      BY <1>2 DEF AdmissionInv, RowsOK
    <2> QED BY <1>9, <1>12, <2>1, <2>2 DEF Admission!Accepts, Admission!ChunkAllowed,
       Admission!Chunks, RowOK
  <1>15. plan[o] # None
    BY <1>7, RequestsAssumption
  <1>16. /\ aUpload' \in UploadRow /\ aUpload'.step = "send" /\ aUpload'.rev = c
         /\ aUpload'.plan = plan /\ aUpload'.sent = aUpload.sent \cup {o}
    <2>1. \A new : new = [aUpload EXCEPT !.sent = @ \cup {o}] =>
             /\ new \in UploadRow /\ new.step = aUpload.step /\ new.rev = aUpload.rev
             /\ new.plan = aUpload.plan /\ new.sent = aUpload.sent \cup {o}
      BY <1>2, <1>7 DEF UploadRow
    <2> QED BY <1>1, <1>c, <1>p, <2>1
  <1>17. \A r, n : HasMutation(r, n)' <=> HasMutation(r, n) \/ (r = c /\ n = o)
    BY <1>9, <1>12 DEF Added, HasMutation
  <1>18. AdmissionShape'
    BY <1>1, <1>2, <1>12, <1>16 DEF AdmissionInv, AdmissionShape, Added
  <1>19. Placed'
    <2>1. ASSUME NEW i \in DOMAIN aMutations
          PROVE  /\ aMutations'[i] = aMutations[i] /\ aMutations[i].rev \in Content =>
                      aRev'[aMutations[i].rev].chunk[aMutations[i].ord] = aMutations[i].text
      <3>1. aMutations[i] \in MutationRow
        BY ElementOfSeq DEF AdmissionInv, AdmissionShape
      <3>2. aMutations[i].rev = c => aMutations[i].ord # o
        BY <1>7 DEF HasMutation
      <3> QED BY <1>12, <1>13, <3>1, <3>2 DEF AdmissionInv, Placed, MutationRow
    <2> QED BY <1>9, <1>12, <1>13, <2>1 DEF AdmissionInv, Placed, Added
  <1>20. ASSUME NEW k \in Content, k # c PROVE Upload(k)'
    <2>1. aRev'[k] = aRev[k]
      BY <1>13, <1>20 DEF Admission!Revision
    <2>2. \A n : /\ HasMutation(k, n) => HasMutation(k, n)'
                 /\ HasCommitted(k, n) => HasCommitted(k, n)'
      BY <1>12 DEF Added, HasMutation, HasCommitted
    <2>3. Admission!Chunks(k)' = Admission!Chunks(k)
      BY <2>1 DEF Admission!Chunks
    <2>4. Upload(k)
      BY DEF AdmissionInv, Uploads
    <2> QED BY <2>1, <2>2, <2>3, <2>4 DEF Upload, ChunksAdmitted, FrozenIsPlan, IsPlan,
       HeadCommitted
  <1>21. ChunksAdmitted(c)'
    BY <1>2, <1>13, <1>17 DEF AdmissionInv, Uploads, Upload, ChunksAdmitted
  <1>22. HeadCommitted(c)'
    BY <1>13, <1>14 DEF HeadCommitted
  <1>23. FrozenIsPlan(c)'
    <2>1. SUFFICES ASSUME aRev'[c].frozen PROVE IsPlan(c, m)'
      BY <1>3 DEF FrozenIsPlan
    <2>2. o = Len(plan)
      BY <1>13, <1>14, <2>1
    <2>3. \A n \in DOMAIN plan : n # o => n \in aUpload.sent
      <3>1. ASSUME NEW n \in DOMAIN plan, n # o, n \notin aUpload.sent PROVE FALSE
        BY <1>5, <1>6, <2>2, <3>1
      <3> QED BY <3>1
    <2>4. \A n \in DOMAIN plan : aRev'[c].chunk[n] = plan[n]
      <3>1. ASSUME NEW n \in DOMAIN plan, n # o PROVE aRev'[c].chunk[n] = plan[n]
        <4>1. PICK i \in DOMAIN aMutations : aMutations[i].rev = c /\ aMutations[i].ord = n
          BY <1>4, <1>5, <2>3, <3>1 DEF HasMutation
        <4>2. aRev[c].chunk[n] = aMutations[i].text /\ aMutations[i].text = plan[n]
          BY <1>2, <1>4, <4>1 DEF AdmissionInv, Placed
        <4> QED BY <1>5, <1>13, <3>1, <4>2
      <3> QED BY <1>13, <3>1
    <2>5. \A n \in Admission!Ordinal : aRev'[c].chunk[n] # None => n \in DOMAIN plan
      <3>1. ASSUME NEW n \in Admission!Ordinal, n # o, aRev'[c].chunk[n] # None
            PROVE  n \in DOMAIN plan
        <4>1. HasMutation(c, n)
          BY <1>2, <1>13, <3>1 DEF AdmissionInv, Uploads, Upload, ChunksAdmitted
        <4> QED BY <1>4, <4>1 DEF HasMutation
      <3> QED BY <1>6, <3>1
    <2>6. \A n \in DOMAIN plan : plan[n] # None /\ n \in Admission!Ordinal
      BY <1>5, RequestsAssumption
    <2>7. DOMAIN plan = Admission!Chunks(c)'
      BY <2>4, <2>5, <2>6 DEF Admission!Chunks
    <2> QED BY <1>3, <2>4, <2>7 DEF IsPlan
  <1>24. Sending'
    <2>1. \A n \in Admission!Ordinal : n \in aUpload'.sent <=> HasMutation(c, n)'
      BY <1>4, <1>16, <1>17
    <2>2. \A i \in DOMAIN aMutations' : aMutations'[i].rev = c =>
             aMutations'[i].ord \in DOMAIN plan /\ plan[aMutations'[i].ord] = aMutations'[i].text
      BY <1>4, <1>6, <1>9, <1>12 DEF Added
    <2> QED BY <1>3, <1>16, <2>1, <2>2 DEF Sending
  <1>25. Manifests
    BY <1>13, <1>14 DEF Manifests
  <1> QED BY <1>12, <1>18, <1>19, <1>20, <1>21, <1>22, <1>23, <1>24, <1>25 DEF AdmissionInv,
     Uploads, Upload

AdmissionStepOf == \/ Admission!UploadCreate \/ Admission!UploadPlan \/ Admission!UploadSend
                   \/ Admission!UploadEnd \/ Admission!Restart \/ Admission!Purge
                   \/ \E c \in Content : Admission!UploadStart(c)
                   \/ \E i \in DOMAIN aMutations : Admission!Commit(i) \/ Admission!Reject(i)
                   \/ \E p \in Sent : Admission!CreateChunk(p)
                   \/ \E p \in Sent, k \in Key \cup {None} : Admission!Insert(k, p)

(* The steps of Admission, each by its name. *)
LEMMA AdmissionSteps == Admission!Next => AdmissionStepOf
  BY DEF Admission!Next, Admission!Upload, Admission!Direct, Admission!Settle, AdmissionStepOf

(* Every step of an admission keeps AdmissionInv (dao.py:812-2379). *)
LEMMA AdmissionStep ==
  ASSUME AdmissionInv, [Admission!Next]_(Admission!vars) PROVE AdmissionInv'
  <1>1. CASE UNCHANGED Admission!vars
    <2>1. /\ aRev' = aRev /\ aMutations' = aMutations /\ aReceipt' = aReceipt
          /\ aUpload' = aUpload /\ aChunking' = aChunking
      BY <1>1 DEF Admission!vars
    <2>2. aUpload' \in UploadRow /\ aChunking' \in Chunkings
          /\ (aUpload'.step # "idle" => aUpload'.rev \in Content)
      BY <2>1 DEF AdmissionInv, AdmissionShape
    <2>3. Sending'
      BY <2>1, SendingKept DEF AdmissionInv, RowsKept, SameRow
    <2> QED BY <2>1, <2>2, <2>3, OnlyUpload
  <1>2. ASSUME AdmissionStepOf PROVE AdmissionInv'
    BY <1>2, CreateKeeps, PlanKeeps, SendKeeps, EndKeeps, PurgeKeepsManifests, StartKeeps,
       CommitKeeps, RejectKeeps, CreateChunkKeeps, DirectKeeps DEF AdmissionStepOf
  <1> QED BY <1>1, <1>2, AdmissionSteps

(* An empty catalog satisfies AdmissionInv (dao.py:728-786). *)
LEMMA AdmissionInit == Admission!Init => AdmissionInv
  <1> SUFFICES ASSUME Admission!Init PROVE AdmissionInv
    OBVIOUS
  <1>1. /\ aRev = [r \in Admission!Revision |-> Admission!NoRevision]
        /\ aMutations = << >> /\ aUpload = Admission!NoUpload /\ aChunking \in Chunkings
        /\ aReceipt = [k \in AnyKey |-> [hash |-> None, mut |-> 0]]
    BY DEF Admission!Init, AnyKey
  <1> DEFINE none == Admission!NoRevision
  <1>2. /\ none \in RevisionRow /\ none.st = "none" /\ ~none.frozen
        /\ \A o \in Admission!Ordinal : none.chunk[o] = None
    <2>1. none = [st |-> "none", num |-> 0, sup |-> None, frozen |-> FALSE,
                  chunk |-> [o \in Admission!Ordinal |-> None]]
      BY DEF Admission!NoRevision
    <2>2. 0 \in 0..MaxNumber
      BY RequestsAssumption
    <2> HIDE DEF none
    <2>3. none \in RevisionRow
      BY <2>1, <2>2 DEF RevisionRow, RevisionState
    <2> QED BY <2>1, <2>3
  <1> HIDE DEF none
  <1>3. RevisionsShape /\ RowsOK
    BY <1>1, <1>2 DEF RevisionsShape, RowsOK, RowOK, none
  <1>4. [hash |-> None, mut |-> 0] \in ReceiptRow
    BY DEF ReceiptRow
  <1>5. aMutations \in Seq(MutationRow) /\ DOMAIN aMutations = {}
    BY <1>1
  <1>6. AdmissionShape
    BY <1>1, <1>3, <1>4, <1>5, IdleRow DEF AdmissionShape
  <1>7. Receipts /\ Keys /\ Placed
    BY <1>1, <1>5 DEF Receipts, Keys, Placed
  <1>8. ASSUME NEW c \in Content PROVE Upload(c)
    <2>1. aRev[c] = none /\ c \in Admission!Revision
      BY <1>1 DEF none, Admission!Revision
    <2> QED BY <1>2, <2>1 DEF Upload, ChunksAdmitted, FrozenIsPlan, HeadCommitted
  <1>9. Sending
    BY <1>1, IdleRow DEF Sending
  <1> QED BY <1>3, <1>6, <1>7, <1>8, <1>9 DEF AdmissionInv, Uploads

(* AdmissionInv has the two invariants as consequences (dao.py:2035-2078, 3131). *)
LEMMA AdmissionSays == AdmissionInv => AdmittedOnce /\ HeadIsWhole
  <1> SUFFICES ASSUME AdmissionInv PROVE AdmittedOnce /\ HeadIsWhole
    OBVIOUS
  <1>1. \A i \in DOMAIN aMutations : aMutations[i] \in MutationRow
    BY ElementOfSeq DEF AdmissionInv, AdmissionShape
  <1>2. None \notin Admission!UploadKey
    BY RequestsAssumption DEF Admission!UploadKey, Admission!Ordinal
  <1>3. ASSUME NEW c \in Content, NEW o \in Admission!Ordinal
        PROVE  Admission!Cardinality({i \in Admission!MutationsOf(c) : aMutations[i].ord = o}) <= 1
    <2> DEFINE S == {i \in Admission!MutationsOf(c) : aMutations[i].ord = o}
    <2>1. ASSUME NEW i \in S PROVE i = aReceipt[<<c, o>>].mut
      <3>1. i \in DOMAIN aMutations /\ aMutations[i].rev = c /\ aMutations[i].ord = o
        BY DEF Admission!MutationsOf
      <3>2. aMutations[i].key = <<c, o>>
        BY <3>1 DEF AdmissionInv, Placed
      <3>3. <<c, o>> # None
        BY <1>2 DEF Admission!UploadKey
      <3> QED BY <3>1, <3>2, <3>3 DEF AdmissionInv, Keys
    <2> HIDE DEF S
    <2>2. S \subseteq {aReceipt[<<c, o>>].mut}
      BY <2>1
    <2> DEFINE T == {aReceipt[<<c, o>>].mut}
    <2>3. IsFiniteSet(T) /\ Cardinality(T) = 1
      BY FS_Singleton
    <2> HIDE DEF T
    <2>4. S \subseteq T
      BY <2>2 DEF T
    <2>5. Cardinality(S) <= Cardinality(T)
      BY <2>3, <2>4, FS_Subset
    <2>6. Admission!Cardinality(S) = Cardinality(S)
      BY Zenon DEF Cardinality, Admission!Cardinality
    <2> QED BY <2>3, <2>5, <2>6 DEF S
  <1>4. \A i, j \in DOMAIN aMutations :
          aMutations[i].key # None /\ aMutations[i].key = aMutations[j].key => i = j
    BY DEF AdmissionInv, Keys
  <1>5. \A k \in DOMAIN aReceipt : aReceipt[k].hash # None =>
          /\ aMutations[aReceipt[k].mut].key = k
          /\ aMutations[aReceipt[k].mut].text = aReceipt[k].hash.text
    BY DEF AdmissionInv, AdmissionShape, Receipts
  <1>6. AdmittedOnce
    BY <1>3, <1>4, <1>5 DEF AdmittedOnce, Admission!AdmittedOnce
  <1>7. ASSUME NEW c \in Content, aRev[c].st = "ACTIVE"
        PROVE  /\ \E m \in Chunkings : IsPlan(c, m)
               /\ \A o \in Admission!Chunks(c) : HasCommitted(c, o)
    <2>1. RowOK(aRev[c])
      BY DEF AdmissionInv, RowsOK, Admission!Revision
    <2> QED BY <1>7, <2>1 DEF RowOK, AdmissionInv, Uploads, Upload, FrozenIsPlan, HeadCommitted
  <1>8. HeadIsWhole
    BY <1>7 DEF HeadIsWhole, Admission!HeadIsWhole, IsPlan, HasCommitted, Admission!MutationsOf
  <1> QED BY <1>6, <1>8

(* A frozen revision accepts only chunks it has (dao.py:986-1075). *)
LEMMA StoredManifests ==
  ASSUME AdmissionInv, NEW p \in Requests, Admission!Accepts(p)
  PROVE  \A r \in Admission!Revision : aRev[r].frozen =>
            Admission!Stored(p)[r].frozen /\ Admission!Stored(p)[r].chunk = aRev[r].chunk
  BY StoredRow DEF AdmissionInv, AdmissionShape

(* No step changes a frozen manifest (dao.py:986-1224). *)
LEMMA ManifestStep ==
  ASSUME AdmissionInv, [Admission!Next]_(Admission!vars) PROVE Manifests
  <1>1. aRev \in [Admission!Revision -> RevisionRow]
    BY DEF AdmissionInv, AdmissionShape, RevisionsShape
  <1>2. CASE aRev' = aRev
    BY <1>2 DEF Manifests
  <1>3. ASSUME Admission!UploadCreate PROVE Manifests
    <2>1. /\ aRev[aUpload.rev].st = "none"
          /\ \A r \in Admission!Revision : r # aUpload.rev => aRev'[r] = aRev[r]
      BY <1>1, <1>3 DEF Admission!UploadCreate, Admission!CanCreate
    <2> QED BY <2>1 DEF Manifests, AdmissionInv, RowsOK, RowOK
  <1>4. ASSUME NEW k, NEW p \in Requests, Admission!Admit(k, p) PROVE Manifests
    BY <1>4, StoredManifests DEF Admission!Admit, Admission!CanInsert, Admission!Inserted,
       Manifests
  <1>5. ASSUME NEW p \in Sent, Admission!CreateChunk(p) PROVE Manifests
    <2>1. p \in Requests /\ Admission!Accepts(p) /\ p.rev \in Admission!Revision
      BY <1>5, DirectRequest DEF Admission!CreateChunk
    <2>2. PICK now : now = Admission!Stored(p)
      OBVIOUS
    <2>3. now \in [Admission!Revision -> RevisionRow]
      BY <2>1, <2>2, StoredRow DEF AdmissionInv, AdmissionShape
    <2>4. \A q \in Admission!Revision :
             /\ Admission!Activated(p.rev, now, aMutations)[q].chunk = now[q].chunk
             /\ Admission!Activated(p.rev, now, aMutations)[q].frozen = now[q].frozen
      BY <2>1, <2>3, ActivatedRow
    <2>5. aRev' = now \/ aRev' = Admission!Activated(p.rev, now, aMutations)
      BY <1>5, <2>2 DEF Admission!CreateChunk
    <2> QED BY <2>1, <2>2, <2>4, <2>5, StoredManifests DEF Manifests
  <1>6. ASSUME NEW i \in DOMAIN aMutations, Admission!Commit(i) PROVE Manifests
    <2>1. PICK rows : rows = [aMutations EXCEPT ![i].st = "COMMITTED"]
      OBVIOUS
    <2>2. aMutations[i].rev \in Admission!Revision
      <3>1. aMutations[i] \in MutationRow
        BY ElementOfSeq DEF AdmissionInv, AdmissionShape
      <3> QED BY <3>1 DEF MutationRow
    <2>3. aRev' = Admission!Activated(aMutations[i].rev, aRev, rows)
      BY <1>6, <2>1 DEF Admission!Commit
    <2> QED BY <1>1, <2>2, <2>3, ActivatedRow DEF Manifests
  <1>7. ASSUME Admission!Purge PROVE Manifests
    <2>1. ASSUME NEW r \in Admission!Revision
          PROVE  aRev'[r] = aRev[r] \/ aRev'[r] = [aRev[r] EXCEPT !.st = "PURGED"]
      BY <1>7 DEF Admission!Purge
    <2>2. ASSUME NEW r \in Admission!Revision
          PROVE  aRev'[r].frozen = aRev[r].frozen /\ aRev'[r].chunk = aRev[r].chunk
      <3>1. aRev[r] \in RevisionRow
        BY <1>1
      <3> QED BY <2>1, <3>1 DEF RevisionRow
    <2> QED BY <2>2 DEF Manifests
  <1>8. ASSUME NEW p \in Sent, NEW k, Admission!Insert(k, p) PROVE Manifests
    BY <1>4, <1>8, DirectRequest DEF Admission!Insert
  <1>9. ASSUME \/ UNCHANGED Admission!vars
               \/ Admission!UploadPlan \/ Admission!UploadEnd \/ Admission!Restart
               \/ \E c \in Content : Admission!UploadStart(c)
               \/ \E i \in DOMAIN aMutations : Admission!Reject(i)
        PROVE  aRev' = aRev
    BY ZenonT(60), <1>9 DEF Admission!vars, Admission!UploadPlan, Admission!UploadEnd,
       Admission!Restart, Admission!UploadStart, Admission!Reject
  <1> QED
    BY <1>2, <1>3, <1>5, <1>6, <1>7, <1>8, <1>9, SendKeeps, AdmissionSteps DEF AdmissionStepOf

(* AdmissionInv is an invariant (dao.py:812-2379). *)
LEMMA AdmissionHolds == Spec => []AdmissionInv
  <1>1. Init => AdmissionInv
    BY AdmissionInit DEF Init
  <1>2. AdmissionInv /\ [Next]_vars => AdmissionInv'
    BY AdmissionStep, CatalogParted
  <1> QED BY <1>1, <1>2, PTL DEF Spec

(* A request that is sent again is admitted once: a key names one mutation and one payload
   for ever, and no chunk of an upload has two mutations (dao.py:2035-2078). *)
THEOREM AdmittedAtMostOnce == Spec => []AdmittedOnce
  <1>1. AdmissionInv => AdmittedOnce
    BY AdmissionSays
  <1> QED BY <1>1, AdmissionHolds, PTL

(* The revision of an upload that becomes the head of its document holds the whole text
   under one plan, every chunk committed (v4_router.py:1256-1500, dao.py:3131). *)
THEOREM HeadsAreWhole == Spec => []HeadIsWhole
  <1>1. AdmissionInv => HeadIsWhole
    BY AdmissionSays
  <1> QED BY <1>1, AdmissionHolds, PTL

(* A frozen revision keeps its manifest (dao.py:986-1224). *)
THEOREM ManifestsAreFinal == Spec => ManifestIsFinal
  <1>1. AdmissionInv /\ [Next]_vars => [\A r \in Admission!Revision : aRev[r].frozen =>
           aRev'[r].frozen /\ aRev'[r].chunk = aRev[r].chunk]_(Admission!vars)
    BY ManifestStep, CatalogParted DEF Manifests
  <1>2. Spec => []AdmissionInv
    BY AdmissionHolds
  <1>3. (Spec => []AdmissionInv) => (Spec => ManifestIsFinal)
    BY <1>1, PTL DEF Spec, ManifestIsFinal, Admission!ManifestIsFinal
  <1> QED BY <1>2, <1>3
=============================================================================
