---------------------------- MODULE RebuildProofs ----------------------------
(***************************************************************************)
(* The rebuild and its operations for any number of operations, runners,   *)
(* rows, versions and attempts: the rows of the operations are a fenced    *)
(* lease, the pointer is consistent, and what is served is complete,       *)
(* current and can be rolled back.                                         *)
(***************************************************************************)
EXTENDS RebuildCutover, FiniteSetTheorems, TLAPS

-----------------------------------------------------------------------------
(* Operation rows                                                          *)

\* A row of an operation after a transition is a row (transition).
LEMMA MovedType ==
  ASSUME NEW row \in OperationRow, NEW to \in OperationState,
         NEW done \in 0..Rows, NEW total \in 0..Rows, NEW link \in Link
  PROVE  Moved(row, to, done, total, link) \in OperationRow
  BY DEF Moved, OperationRow

\* The states a transition leads to are states.
LEMMA AllowedType == \A st : AllowedFrom(st) \subseteq OperationState
  BY DEF AllowedFrom, OperationState, Executing, Final, Failing

\* Every call of the repository and every expiry leaves well-typed rows.
LEMMA OperationSteps ==
  ASSUME OpTypeOK, NEW o \in Operation
  PROVE  /\ \A k \in Key, d \in Digest : Submit(o, k, d) => OpTypeOK'
         /\ \A r \in Runner : Claim(o, r) => OpTypeOK'
         /\ Cancel(o) => OpTypeOK'
         /\ Retry(o) => OpTypeOK'
         /\ Expire(o) => OpTypeOK'
<1>1. op \in [Operation -> OperationRow] /\ op[o] \in OperationRow
  BY DEF OpTypeOK
<1>2. ASSUME NEW k \in Key, NEW d \in Digest, Submit(o, k, d) PROVE OpTypeOK'
  BY <1>1, <1>2 DEF Submit, OpTypeOK, OperationRow, OperationState
<1>3. ASSUME NEW r \in Runner, Claim(o, r) PROVE OpTypeOK'
  <2>1. op[o].fence + 1 \in Nat /\ op[o].tries + 1 \in Nat
    BY <1>1 DEF OperationRow
  <2> QED
    BY <1>1, <1>3, <2>1 DEF Claim, OpTypeOK, OperationRow, OperationState, Executing
<1>4. ASSUME Cancel(o) PROVE OpTypeOK'
  BY <1>1, <1>4 DEF Cancel, OpTypeOK, OperationRow, OperationState, Final
<1>5. ASSUME Retry(o) PROVE OpTypeOK'
  BY <1>1, <1>5 DEF Retry, OpTypeOK, OperationRow, OperationState
<1>6. ASSUME Expire(o) PROVE OpTypeOK'
  BY <1>1, <1>6 DEF Expire, OpTypeOK, OperationRow
<1> QED
  BY <1>2, <1>3, <1>4, <1>5, <1>6

\* A transition with an admissible link leaves well-typed rows; its progress lies
\* in the range of the rows because it never passes the total.
LEMMA TransitionType ==
  ASSUME OpTypeOK, NEW o \in Operation, NEW r, NEW f, NEW to,
         NEW done \in Nat, NEW total \in 0..Rows, NEW link \in Link,
         Transition(o, r, f, to, done, total, link)
  PROVE  /\ OpTypeOK'
         /\ op' = [op EXCEPT ![o] = Moved(op[o], to, done, total, link)]
         /\ done \in 0..Rows
<1>1. op[o] \in OperationRow
  BY DEF OpTypeOK
<1>2. done \in 0..Rows
  BY OperationAssumption DEF Transition, Progresses
<1>3. to \in OperationState
  BY AllowedType DEF Transition, MayTransition
<1>4. Moved(op[o], to, done, total, link) \in OperationRow
  BY <1>1, <1>2, <1>3, MovedType
<1> QED
  BY <1>2, <1>4 DEF OpTypeOK, Transition

\* A failure recorded by a runner leaves well-typed rows.
LEMMA MarkedType ==
  ASSUME OpTypeOK, NEW o \in Operation, NEW r
  PROVE  Marked(o, r) \in [Operation -> OperationRow]
<1>1. op[o] \in OperationRow
  BY DEF OpTypeOK
<1>2. FailedAs(op[o]) \in OperationState
  BY DEF FailedAs, OperationState, Final
<1>3. Moved(op[o], FailedAs(op[o]), op[o].done, op[o].total, op[o].link) \in OperationRow
  BY <1>1, <1>2, MovedType DEF OperationRow
<1> QED
  BY <1>3 DEF Marked, OpTypeOK

-----------------------------------------------------------------------------
(* The inductive invariant                                                 *)

\* The runner holds the lock and works on an operation it claimed; once it is
\* past the backup, that backup has the current data.
RunnerOK ==
    /\ run.pc = "idle" => writer # "runner"
    /\ run.pc # "idle" => /\ writer = "runner" /\ run.o \in Operation
                          /\ op[run.o].st \in Executing
    /\ run.pc \notin {"idle", "claimed"} => backup[run.o] = source
    /\ passed => writer = "server"

\* What is staged is neither served nor kept, and a verified operation has a
\* staged generation.
StagingOK ==
    /\ run.pc \in {"staged", "replay", "applied"} =>
          gen[run.o] = "STAGING" /\ op[run.o].st = "RUNNING"
    /\ \A o \in Operation : op[o].st = "VERIFYING" => gen[o] = "STAGING"

\* The recorded progress of an operation is in its stores, all of it once it is
\* verified or once a generation is served or kept.
ProgressOK ==
    /\ \A o \in Operation :
          /\ 1..op[o].done \subseteq store[o]
          /\ op[o].st \in {"VERIFYING", "READY_TO_CUTOVER"} => op[o].done = Rows
          /\ \/ op[o].st \in {"VERIFYING", "READY_TO_CUTOVER", "COMPLETED"}
             \/ o \in {pointer.active, pointer.previous}
             => store[o] = Snapshot
    /\ run.pc = "applied" => Page(run.o) \subseteq store[run.o]

\* While an operation is under way nothing is admitted behind its backup, and
\* what it has written has the version of that backup.
CurrencyOK ==
    /\ \A o \in Operation :
          /\ op[o].st = "NONE" => op[o].link.hash = None /\ op[o].done = 0
          /\ op[o].st \in Maintenance /\ op[o].link.hash # None =>
                op[o].link.hash = source /\ ~passed
          /\ op[o].st \in Maintenance /\ op[o].done > 0 =>
                op[o].link.hash # None /\ ver[o] = source
          /\ op[o].st = "READY_TO_CUTOVER" /\ pointer.active = o =>
                ver[pointer.previous] = source
    /\ run.pc = "applied" => op[run.o].link.hash # None /\ ver[run.o] = source

IndInv ==
    /\ TypeOK /\ RunnerOK /\ OneRebuild /\ PointerConsistent /\ StagingOK
    /\ ProgressOK /\ CanRollBack /\ CurrencyOK /\ ServedIsCurrent

-----------------------------------------------------------------------------
(* Steps of the server and of the runner that change no table              *)

\* The parameters a step of the proof needs are facts about the constants.
USE OperationAssumption, RebuildAssumption

\* The invariant holds at first: no operation, and the generation of the
\* unversioned paths in service.
LEMMA InitInd == Init => IndInv
<1> SUFFICES ASSUME Init PROVE IndInv
  OBVIOUS
<1> USE DEF Init, OpInit, Idle, NoLink, Generation
<1>1. TypeOK
  <2>1. OpTypeOK
    BY DEF OpTypeOK, OperationRow, OperationState
  <2>2. /\ gen \in [Generation -> Lifecycle] /\ graph \in [Generation -> BOOLEAN]
        /\ store \in [Generation -> SUBSET (1..Rows)]
        /\ ver \in [Generation -> 0..MaxVersion]
    BY DEF Lifecycle
  <2>3. /\ pointer \in [active: Generation, previous: Generation \cup {None}, fence: Nat]
        /\ run \in [pc: Steps, id: Runner \cup {None}, o: Operation \cup {None},
                    fence: Nat, graph: BOOLEAN]
    BY DEF Steps
  <2> QED
    BY <2>1, <2>2, <2>3 DEF TypeOK
<1>2. RunnerOK /\ StagingOK
  BY DEF RunnerOK, StagingOK
<1>3. OneRebuild /\ CanRollBack /\ CurrencyOK /\ ServedIsCurrent
  BY DEF OneRebuild, CanRollBack, CurrencyOK, ServedIsCurrent, Maintenance, Executing
<1>4. PointerConsistent
  BY DEF PointerConsistent
<1>5. ProgressOK
  BY DEF ProgressOK, Snapshot
<1> QED
  BY <1>1, <1>2, <1>3, <1>4, <1>5 DEF IndInv

RunType == [pc: Steps, id: Runner \cup {None}, o: Operation \cup {None},
            fence: Nat, graph: BOOLEAN]

\* The runner stays well typed when it moves on or ends.
LEMMA RunMoves ==
  ASSUME TypeOK
  PROVE  /\ run \in RunType /\ Idle \in RunType
         /\ \A pc \in Steps : [run EXCEPT !.pc = pc] \in RunType
<1>1. run \in RunType
  BY DEF TypeOK, RunType
<1>2. Idle \in RunType
  BY DEF Idle, RunType, Steps
<1>3. \A pc \in Steps : [run EXCEPT !.pc = pc] \in RunType
  BY <1>1 DEF RunType
<1> QED
  BY <1>1, <1>2, <1>3

\* A step that changes neither an operation nor the data, enters no step of the
\* staging and lets a request in only when no maintenance is pending.
LEMMA ControlStep ==
  ASSUME IndInv, TypeOK', RunnerOK', UNCHANGED <<op, source, stores>>,
         run'.pc \in {"staged", "replay", "applied"} => run' = run,
         passed' => passed \/ ~Pending
  PROVE  IndInv'
<1> USE DEF IndInv, stores
<1>1. OneRebuild' /\ PointerConsistent' /\ CanRollBack' /\ ServedIsCurrent'
  BY DEF OneRebuild, PointerConsistent, CanRollBack, ServedIsCurrent
<1>2. StagingOK' /\ ProgressOK'
  BY DEF StagingOK, ProgressOK, Page, Snapshot
<1>3. CurrencyOK'
  BY DEF CurrencyOK, Pending
<1> QED
  BY <1>1, <1>2, <1>3

\* ServerStart, ServerStop and CheckAdmission: only the lock and the admission
\* check.
LEMMA ServerSteps ==
  ASSUME IndInv, ServerStart \/ ServerStop \/ CheckAdmission
  PROVE  IndInv'
<1> USE DEF IndInv, stores, ServerStart, ServerStop, CheckAdmission
<1>1. TypeOK'
  BY DEF TypeOK, OpTypeOK
<1>2. RunnerOK'
  BY DEF RunnerOK
<1> QED
  BY <1>1, <1>2, ControlStep

\* Steps of the runner that only move it on.
LEMMA RunnerSteps ==
  ASSUME IndInv,
         ResumeCutover \/ Verify \/ AlreadyActive \/ PostVerify \/ Publish \/ Crash
  PROVE  IndInv'
<1> USE DEF IndInv, stores, ResumeCutover, Verify, AlreadyActive, PostVerify, Publish,
        Crash, At, To, Exit
<1>1. TypeOK'
  <2>1. run' = Idle \/ \E pc \in Steps : run' = [run EXCEPT !.pc = pc]
    BY DEF Steps
  <2>2. run' \in RunType
    BY <2>1, RunMoves
  <2> QED
    BY <2>2 DEF TypeOK, OpTypeOK, RunType
<1>2. RunnerOK'
  <2>1. CASE ResumeCutover
    <3>1. op[run.o].link.hash = source /\ backup[run.o] = op[run.o].link.hash
      BY <2>1 DEF CurrencyOK, RunnerOK, Recoverable, Maintenance, Executing
    <3> QED
      BY <2>1, <3>1 DEF RunnerOK, TypeOK
  <2>2. CASE Crash
    BY <2>2 DEF RunnerOK, Idle
  <2>3. CASE Verify \/ AlreadyActive \/ PostVerify \/ Publish
    BY <2>3 DEF RunnerOK, TypeOK
  <2> QED
    BY <2>1, <2>2, <2>3
<1>3. run'.pc \notin {"staged", "replay", "applied"}
  BY DEF TypeOK, Idle, RunType
<1> QED
  BY <1>1, <1>2, <1>3, ControlStep

-----------------------------------------------------------------------------
(* Steps that change the data                                              *)

\* Admit changes the data and the generation in service with it, and there is
\* no operation with a backup under way.
LEMMA AdmitStep == IndInv /\ Admit => IndInv'
<1> SUFFICES ASSUME IndInv, Admit PROVE IndInv'
  OBVIOUS
<1> USE DEF IndInv, Admit
<1>1. TypeOK'
  <2>1. source' \in 0..MaxVersion
    BY DEF TypeOK
  <2>2. ver' \in [Generation -> 0..MaxVersion]
    BY DEF TypeOK
  <2> QED
    BY <2>1, <2>2 DEF TypeOK, OpTypeOK
<1>2. RunnerOK' /\ StagingOK'
  BY DEF RunnerOK, StagingOK
<1>3. OneRebuild' /\ PointerConsistent' /\ CanRollBack'
  BY DEF OneRebuild, PointerConsistent, CanRollBack
<1>4. ProgressOK'
  BY DEF ProgressOK, Snapshot, Page
<1>5. CurrencyOK'
  <2>1. \A o \in Operation : op[o].st \in Maintenance => op[o].link.hash = None
    BY DEF CurrencyOK
  <2>2. "READY_TO_CUTOVER" \in Maintenance
    BY DEF Maintenance, Executing
  <2>3. \A o \in Operation : op[o].st = "READY_TO_CUTOVER" => op[o].done > 0
    BY DEF ProgressOK
  <2> QED
    BY <2>1, <2>2, <2>3 DEF CurrencyOK, RunnerOK
<1>6. ServedIsCurrent'
  BY DEF ServedIsCurrent, TypeOK
<1> QED
  BY <1>1, <1>2, <1>3, <1>4, <1>5, <1>6

\* BackUp keeps a backup or takes one of the current data.
LEMMA BackUpStep == IndInv /\ BackUp => IndInv'
<1> SUFFICES ASSUME IndInv, BackUp PROVE IndInv'
  OBVIOUS
<1> USE DEF IndInv, BackUp, At, To
<1>1. TypeOK'
  <2>1. run' \in RunType
    BY RunMoves DEF Steps
  <2> QED
    BY <2>1 DEF TypeOK, OpTypeOK, RunType
<1>2. RunnerOK' /\ StagingOK'
  BY RunMoves DEF RunnerOK, StagingOK, RunType, TypeOK
<1>3. OneRebuild' /\ PointerConsistent' /\ CanRollBack' /\ ServedIsCurrent'
  BY DEF OneRebuild, PointerConsistent, CanRollBack, ServedIsCurrent
<1>4. ProgressOK' /\ CurrencyOK'
  BY RunMoves DEF ProgressOK, CurrencyOK, Snapshot, Page, RunType
<1> QED
  BY <1>1, <1>2, <1>3, <1>4

\* Stage makes a staged generation of one that the pointer does not name.
LEMMA StageStep == IndInv /\ Stage => IndInv'
<1> SUFFICES ASSUME IndInv, Stage PROVE IndInv'
  OBVIOUS
<1> USE DEF IndInv, Stage, At, To
<1>0. run.o \in Operation /\ run.o \in Generation
  BY DEF RunnerOK, Generation
<1>1. TypeOK'
  <2>1. run' \in RunType
    BY RunMoves DEF Steps
  <2>2. gen' \in [Generation -> Lifecycle] /\ graph' \in [Generation -> BOOLEAN]
    BY <1>0 DEF TypeOK, Lifecycle
  <2> QED
    BY <2>1, <2>2 DEF TypeOK, OpTypeOK, RunType
<1>2. run.o # pointer.active /\ run.o # pointer.previous
  BY <1>0 DEF Stageable, PointerConsistent
<1>3. RunnerOK' /\ StagingOK'
  BY <1>0, RunMoves DEF RunnerOK, StagingOK, RunType, TypeOK
<1>4. OneRebuild' /\ CanRollBack' /\ ServedIsCurrent'
  BY DEF OneRebuild, CanRollBack, ServedIsCurrent
<1>5. PointerConsistent'
  BY <1>0, <1>2 DEF PointerConsistent, TypeOK
<1>6. ProgressOK' /\ CurrencyOK'
  BY RunMoves DEF ProgressOK, CurrencyOK, Snapshot, Page, RunType
<1> QED
  BY <1>1, <1>3, <1>4, <1>5, <1>6

\* ApplyBatch adds rows of the backup to a staged generation.
LEMMA ApplyBatchStep == IndInv /\ ApplyBatch => IndInv'
<1> SUFFICES ASSUME IndInv, ApplyBatch PROVE IndInv'
  OBVIOUS
<1> USE DEF IndInv, ApplyBatch, Applied, At, To
<1>0. /\ run.o \in Operation /\ run.o \in Generation
      /\ op[run.o].st = "RUNNING" /\ gen[run.o] = "STAGING"
      /\ backup[run.o] = source /\ op[run.o].link.hash = source
  BY DEF RunnerOK, Generation, StagingOK, Resumable
<1>1. source \in 0..MaxVersion /\ source # None
  BY DEF TypeOK
<1>2. TypeOK'
  <2>1. run' \in RunType
    BY RunMoves DEF Steps
  <2>2. store' \in [Generation -> SUBSET (1..Rows)]
    BY <1>0 DEF TypeOK, Page, Snapshot
  <2>3. ver' \in [Generation -> 0..MaxVersion]
    BY <1>0, <1>1 DEF TypeOK
  <2> QED
    BY <2>1, <2>2, <2>3 DEF TypeOK, OpTypeOK, RunType
<1>3. run.o # pointer.active
  BY <1>0 DEF PointerConsistent
<1>4. RunnerOK' /\ StagingOK'
  BY <1>0, RunMoves DEF RunnerOK, StagingOK, RunType, TypeOK
<1>5. OneRebuild' /\ PointerConsistent' /\ CanRollBack'
  BY DEF OneRebuild, PointerConsistent, CanRollBack
<1>6. ServedIsCurrent'
  BY <1>0, <1>3 DEF ServedIsCurrent, TypeOK
<1>7. ProgressOK'
  <2>1. \A o \in Operation : store[o] \subseteq store'[o] /\ store'[o] \subseteq Snapshot
    BY <1>0 DEF TypeOK, Page, Snapshot, Generation
  <2>2. Page(run.o) \subseteq store'[run.o]
    BY <1>0 DEF TypeOK
  <2>3. run'.o = run.o /\ op' = op /\ pointer' = pointer
    BY RunMoves DEF RunType
  <2>4. Page(run.o)' = Page(run.o)
    BY <2>3 DEF Page, Snapshot
  <2> HIDE DEF ApplyBatch, Page
  <2>5. \A q \in Operation : store[q] = Snapshot => store'[q] = Snapshot
    BY <2>1
  <2>6. \A q \in Operation : 1..op[q].done \subseteq store'[q]
    <3>1. ProgressOK
      OBVIOUS
    <3> QED
      BY <2>1, <3>1, Zenon DEF ProgressOK
  <2> QED
    BY <2>2, <2>3, <2>4, <2>5, <2>6 DEF ProgressOK, Snapshot
<1>8. CurrencyOK'
  <2>1. \A o \in Operation : op[o].st = "READY_TO_CUTOVER" => o # run.o
    BY <1>0
  <2>2. \A o \in Operation : op[o].st # "READY_TO_CUTOVER"
    BY <1>0, <2>1 DEF OneRebuild, Maintenance, Executing
  <2>3. ver'[run.o] = source /\ \A o \in Operation : o # run.o => ver'[o] = ver[o]
    BY <1>0 DEF TypeOK, Generation
  <2>4. run'.o = run.o
    BY RunMoves DEF RunType
  <2> QED
    BY <1>0, <1>1, <2>2, <2>3, <2>4 DEF CurrencyOK
<1> QED
  BY <1>2, <1>4, <1>5, <1>6, <1>7, <1>8

\* Activate puts a complete and current generation into service and keeps the
\* one it replaces.
LEMMA ActivateStep == IndInv /\ Activate => IndInv'
<1> DEFINE o == run.o
           src == op[run.o].link.source
<1> SUFFICES ASSUME IndInv, Activate PROVE IndInv'
  OBVIOUS
<1> USE DEF IndInv, Activate, Switched, Activatable, At, To
<1>u. UNCHANGED <<op, writer, passed, source, graph, store, ver, backup>>
  OBVIOUS
<1>0. /\ o \in Operation /\ o \in Generation /\ src \in Generation
      /\ op[o].st = "READY_TO_CUTOVER" /\ pointer.active = src
      /\ gen[o] = "STAGING" /\ gen[src] = "ACTIVE" /\ o # src
  BY DEF RunnerOK, Generation, TypeOK
<1>1. /\ pointer'.active = o /\ pointer'.previous = src
      /\ \A g \in Generation : gen'[g] = IF g = o THEN "ACTIVE"
                                         ELSE IF g = src THEN "RETAINED" ELSE gen[g]
  BY <1>0 DEF TypeOK
<1>2. TypeOK'
  <2>1. run' \in RunType
    BY RunMoves DEF Steps
  <2>2. gen' \in [Generation -> Lifecycle]
    BY <1>0 DEF TypeOK, Lifecycle
  <2>3. pointer' \in [active: Generation, previous: Generation \cup {None}, fence: Nat]
    BY <1>0 DEF TypeOK
  <2> QED
    BY <2>1, <2>2, <2>3 DEF TypeOK, OpTypeOK, RunType
<1>3. RunnerOK'
  BY <1>0, RunMoves DEF RunnerOK, RunType, TypeOK
<1>4. OneRebuild'
  BY DEF OneRebuild
<1>6. run'.pc = "activated" /\ run'.o = o
  BY RunMoves DEF RunType
<1> HIDE DEF Activate
<1>5. PointerConsistent'
  <2>1. \A g \in Generation : gen[g] = "ACTIVE" <=> g = src
    BY <1>0 DEF PointerConsistent
  <2> QED
    BY <1>0, <1>1, <2>1 DEF PointerConsistent
<1>7. StagingOK'
  <2>1. \A q \in Operation : op[q].st = "VERIFYING" => q # o /\ q # src
    BY <1>0 DEF StagingOK
  <2>2. \A q \in Operation : op[q].st = "VERIFYING" => gen'[q] = "STAGING"
    BY <1>1, <2>1 DEF StagingOK, Generation
  <2> QED
    BY <1>u, <1>6, <2>2 DEF StagingOK
<1>8. ProgressOK'
  BY <1>u, <1>0, <1>1, <1>6 DEF ProgressOK, Snapshot, Page
<1>9. CanRollBack'
  BY <1>u, <1>0, <1>1 DEF CanRollBack
<1>10. op[o].done > 0 /\ ver[o] = source /\ ver[src] = source
  BY <1>0 DEF ProgressOK, CurrencyOK, Maintenance, Executing, ServedIsCurrent
<1>11. CurrencyOK' /\ ServedIsCurrent'
  BY <1>u, <1>0, <1>1, <1>6, <1>10 DEF CurrencyOK, ServedIsCurrent
<1> QED
  BY <1>2, <1>3, <1>4, <1>5, <1>7, <1>8, <1>9, <1>11

\* RollBack returns to a generation that is still complete and current.
LEMMA RollBackStep == IndInv /\ RollBack => IndInv'
<1> DEFINE o == run.o
           old == pointer.previous
<1> SUFFICES ASSUME IndInv, RollBack PROVE IndInv'
  OBVIOUS
<1> USE DEF IndInv, RollBack, SwitchedBack, At, To
<1>u. UNCHANGED <<op, writer, passed, source, graph, store, ver, backup>>
  OBVIOUS
<1>0. /\ o \in Operation /\ o \in Generation /\ old \in Generation
      /\ op[o].st = "READY_TO_CUTOVER" /\ pointer.active = o
      /\ gen[o] = "ACTIVE" /\ gen[old] = "RETAINED" /\ o # old
  BY DEF RunnerOK, Generation, TypeOK
<1>1. /\ pointer'.active = old /\ pointer'.previous = None
      /\ \A g \in Generation : gen'[g] = IF g = o THEN "FAILED"
                                         ELSE IF g = old THEN "ACTIVE" ELSE gen[g]
  BY <1>0 DEF TypeOK
<1>2. TypeOK'
  <2>1. run' \in RunType
    BY RunMoves DEF Steps
  <2>2. gen' \in [Generation -> Lifecycle]
    BY <1>0 DEF TypeOK, Lifecycle
  <2>3. pointer' \in [active: Generation, previous: Generation \cup {None}, fence: Nat]
    BY <1>0 DEF TypeOK
  <2> QED
    BY <2>1, <2>2, <2>3 DEF TypeOK, OpTypeOK, RunType
<1>3. run'.pc = "rolledback" /\ run'.o = o
  BY RunMoves DEF RunType
<1>4. RunnerOK'
  BY <1>0, <1>3, RunMoves DEF RunnerOK, RunType, TypeOK
<1>5. OneRebuild'
  BY DEF OneRebuild
<1> HIDE DEF RollBack
<1>6. PointerConsistent'
  <2>1. \A g \in Generation : gen[g] = "ACTIVE" <=> g = o
    BY <1>0 DEF PointerConsistent
  <2> QED
    BY <1>0, <1>1, <2>1 DEF PointerConsistent
<1>7. \A q \in Operation : op[q].st \in {"VERIFYING", "READY_TO_CUTOVER"} => q = o
  BY <1>0 DEF OneRebuild, Maintenance, Executing
<1>8. StagingOK' /\ CanRollBack'
  BY <1>u, <1>0, <1>1, <1>3, <1>7 DEF StagingOK, CanRollBack
<1>9. ProgressOK'
  BY <1>u, <1>0, <1>1, <1>3 DEF ProgressOK, Snapshot, Page, Generation
<1>10. CurrencyOK' /\ ServedIsCurrent'
  BY <1>u, <1>0, <1>1, <1>3, <1>7 DEF CurrencyOK, ServedIsCurrent
<1> QED
  BY <1>2, <1>4, <1>5, <1>6, <1>8, <1>9, <1>10

-----------------------------------------------------------------------------
(* Steps that change an operation                                          *)

\* A step that gives one operation a state, and takes from it neither progress
\* nor links, keeps the invariant: it reaches no verified state that the
\* operation was not in, and starts maintenance only of a new operation alone.
LEMMA RowStep ==
  ASSUME IndInv, TypeOK', RunnerOK', UNCHANGED <<passed, source, stores>>,
         NEW o \in Operation, NEW row,
         op' = [op EXCEPT ![o] = row],
         row.link = op[o].link, row.done = op[o].done,
         row.st = "NONE" => op[o].st = "NONE",
         row.st \in {"VERIFYING", "READY_TO_CUTOVER", "COMPLETED"} => row.st = op[o].st,
         row.st \in Maintenance =>
           \/ op[o].st \in Maintenance
           \/ op[o].st = "NONE" /\ \A q \in Operation : op[q].st \notin Maintenance,
         run'.pc \in {"idle", "claimed"} \/ (run' = run /\ row.st = op[o].st)
  PROVE  IndInv'
<1>1. op'[o] = row /\ \A q \in Operation : q # o => op'[q] = op[q]
  BY DEF IndInv, TypeOK, OpTypeOK
<1>2. \A q \in Operation :
        /\ op'[q].link = op[q].link /\ op'[q].done = op[q].done
        /\ op'[q].st = "NONE" => op[q].st = "NONE"
        /\ op'[q].st \in {"VERIFYING", "READY_TO_CUTOVER", "COMPLETED"} => op'[q].st = op[q].st
        /\ op'[q].st \in Maintenance => op[q].st \in Maintenance \/ op[q].st = "NONE"
  BY <1>1
<1>3. /\ UNCHANGED <<gen, graph, pointer, store, ver, backup>>
      /\ PointerConsistent' /\ ServedIsCurrent'
  BY DEF stores, IndInv, PointerConsistent, ServedIsCurrent
<1>4. OneRebuild'
  BY <1>1 DEF IndInv, OneRebuild
<1>5. StagingOK'
  <2>1. run'.pc \in {"staged", "replay", "applied"} => run' = run /\ op'[run.o].st = op[run.o].st
    BY <1>1 DEF IndInv, RunnerOK
  <2> QED
    BY <1>2, <1>3, <2>1 DEF IndInv, StagingOK
<1>6. run'.pc = "applied" => run' = run /\ run.o \in Operation
  BY DEF IndInv, RunnerOK
<1>7. ProgressOK'
  <2>1. run'.pc = "applied" => Page(run.o)' = Page(run.o)
    BY <1>2, <1>6 DEF Page, Snapshot
  <2>2. run'.pc = "applied" => Page(run.o)' \subseteq store'[run'.o]
    BY <1>3, <1>6, <2>1 DEF IndInv, ProgressOK
  <2> QED
    BY <1>2, <1>3, <2>2 DEF IndInv, ProgressOK, Snapshot
<1>8. CanRollBack'
  BY <1>2, <1>3 DEF IndInv, CanRollBack
<1>9. CurrencyOK'
  <2>1. \A q \in Operation : op[q].st = "NONE" => op[q].link.hash = None /\ op[q].done = 0
    BY DEF IndInv, CurrencyOK
  <2> QED
    BY <1>2, <1>3, <1>6, <2>1 DEF IndInv, CurrencyOK
<1> QED
  BY <1>3, <1>4, <1>5, <1>7, <1>8, <1>9 DEF IndInv

\* Submissions, cancellations and retries: the server runs, so no runner does.
LEMMA OperateStep == IndInv /\ Operate => IndInv'
<1> SUFFICES ASSUME IndInv, Operate PROVE IndInv'
  OBVIOUS
<1>1. PICK o \in Operation : \/ \E k \in Key, d \in Digest : Submit(o, k, d)
                             \/ Cancel(o) \/ Retry(o)
  BY DEF Operate
<1>2. run.pc = "idle" /\ UNCHANGED <<passed, source, stores, run, writer>>
  BY DEF Operate, IndInv, RunnerOK
<1>3. OpTypeOK'
  BY <1>1, OperationSteps DEF IndInv, TypeOK
<1>4. TypeOK' /\ RunnerOK'
  BY <1>2, <1>3 DEF IndInv, TypeOK, RunnerOK, stores
<1>5. op[o] \in OperationRow /\ op \in [Operation -> OperationRow]
  BY DEF IndInv, TypeOK, OpTypeOK
<1>6. CASE \E k \in Key, d \in Digest : Submit(o, k, d)
  <2>1. PICK k \in Key, d \in Digest : Submit(o, k, d)
    BY <1>6
  <2> DEFINE row == [op[o] EXCEPT !.st = "PENDING", !.key = k, !.digest = d]
  <2>2. op' = [op EXCEPT ![o] = row]
    BY <2>1 DEF Submit
  <2>3. row.st = "PENDING" /\ row.link = op[o].link /\ row.done = op[o].done
    BY <1>5 DEF OperationRow
  <2>4. op[o].st = "NONE" /\ \A q \in Operation : op[q].st \notin Maintenance
    BY <2>1 DEF Submit, Indexed
  <2> HIDE DEF row
  <2> QED
    BY <1>2, <1>4, <2>2, <2>3, <2>4, RowStep
<1>7. CASE Cancel(o)
  <2> DEFINE row == [op[o] EXCEPT !.st = "CANCELLED", !.by = None, !.live = FALSE]
  <2>1. op' = [op EXCEPT ![o] = row]
    BY <1>7 DEF Cancel
  <2>2. row.st = "CANCELLED" /\ row.link = op[o].link /\ row.done = op[o].done
    BY <1>5 DEF OperationRow
  <2>3. row.st \notin Maintenance
    BY <2>2 DEF Maintenance, Executing
  <2> HIDE DEF row
  <2> QED
    BY <1>2, <1>4, <2>1, <2>2, <2>3, RowStep
<1>8. CASE Retry(o)
  <2> DEFINE row == [op[o] EXCEPT !.st = "PENDING", !.by = None, !.live = FALSE]
  <2>1. op' = [op EXCEPT ![o] = row]
    BY <1>8 DEF Retry
  <2>2. row.st = "PENDING" /\ row.link = op[o].link /\ row.done = op[o].done
    BY <1>5 DEF OperationRow
  <2>3. op[o].st \in Maintenance
    BY <1>8 DEF Retry, Maintenance
  <2> HIDE DEF row
  <2> QED
    BY <1>2, <1>4, <2>1, <2>2, <2>3, RowStep
<1> QED
  BY <1>1, <1>6, <1>7, <1>8

\* A claim makes an operation execute that was pending or executed before.
LEMMA LaunchStep ==
  ASSUME IndInv, NEW r \in Runner, NEW o \in Operation, Launch(r, o)
  PROVE  IndInv'
<1>1. Claim(o, r) /\ writer = None /\ writer' = "runner" /\ UNCHANGED <<passed, source, stores>>
  BY DEF Launch
<1>2. OpTypeOK' /\ op[o] \in OperationRow /\ op \in [Operation -> OperationRow]
  BY <1>1, OperationSteps DEF IndInv, TypeOK, OpTypeOK
<1>3. PICK g \in GraphSettings :
        run' = [pc |-> "claimed", id |-> r, o |-> o, fence |-> op[o].fence + 1, graph |-> g]
  BY DEF Launch
<1>4. run' \in RunType
  BY <1>2, <1>3 DEF RunType, Steps, OperationRow
<1>5. TypeOK'
  BY <1>1, <1>2, <1>4 DEF IndInv, TypeOK, RunType, stores
<1> DEFINE row == [op[o] EXCEPT !.st = IF @ = "PENDING" THEN "CLAIMED" ELSE @,
                                !.by = r, !.live = TRUE, !.fence = @ + 1, !.tries = @ + 1]
<1>6. op' = [op EXCEPT ![o] = row]
  BY <1>1 DEF Claim
<1>7. /\ row.st = IF op[o].st = "PENDING" THEN "CLAIMED" ELSE op[o].st
      /\ row.link = op[o].link /\ row.done = op[o].done
  BY <1>2 DEF OperationRow
<1>8. op[o].st \in {"PENDING"} \cup Executing /\ row.st \in Executing
  BY <1>1, <1>7 DEF Claim, Claimable, Executing
<1> HIDE DEF row
<1>9. RunnerOK'
  <2>1. op'[o].st \in Executing
    BY <1>2, <1>6, <1>8
  <2> QED
    BY <1>1, <1>3, <2>1 DEF IndInv, RunnerOK
<1>10. op[o].st \in Maintenance
  BY <1>8 DEF Maintenance
<1> QED
  BY <1>1, <1>3, <1>5, <1>6, <1>7, <1>8, <1>9, <1>10, RowStep DEF Executing

\* A failure, recorded by the runner that meets it or by the next one, leaves
\* the operation failed or as it was.
LEMMA FailedStep ==
  ASSUME IndInv, NEW o \in Operation, NEW r, op' = Marked(o, r),
         TypeOK', RunnerOK', UNCHANGED <<passed, source, stores>>, run'.pc = "idle"
  PROVE  IndInv'
<1>1. op \in [Operation -> OperationRow] /\ op[o] \in OperationRow
  BY DEF IndInv, TypeOK, OpTypeOK
<1>2. CASE op' = op
  <2>1. op' = [op EXCEPT ![o] = op[o]]
    BY <1>1, <1>2
  <2> QED
    BY <2>1, RowStep
<1>3. CASE op' # op
  <2> DEFINE row == Moved(op[o], FailedAs(op[o]), op[o].done, op[o].total, op[o].link)
  <2>1. op[o].st \in Executing /\ op' = [op EXCEPT ![o] = row]
    BY <1>3 DEF Marked
  <2>2. /\ row.st \in {"FINAL_FAILED", "RETRYABLE_FAILED"}
        /\ row.link = op[o].link /\ row.done = op[o].done
    BY <1>1 DEF Moved, FailedAs, OperationRow
  <2>3. op[o].st \in Maintenance
    BY <2>1 DEF Maintenance
  <2> HIDE DEF row
  <2> QED
    BY <2>1, <2>2, <2>3, RowStep
<1> QED
  BY <1>2, <1>3

\* A run that fails records it on its operation and ends (_mark_operation_failure).
LEMMA FailStep == IndInv /\ Fail => IndInv'
<1> SUFFICES ASSUME IndInv, Fail PROVE IndInv'
  OBVIOUS
<1>1. /\ run.o \in Operation /\ op' = Marked(run.o, run.id)
      /\ run' = Idle /\ writer' = None /\ UNCHANGED <<passed, source, stores>>
  BY DEF Fail, Exit, At, IndInv, RunnerOK
<1>2. OpTypeOK'
  BY <1>1, MarkedType DEF IndInv, TypeOK, OpTypeOK
<1>3. TypeOK'
  BY <1>1, <1>2, RunMoves DEF IndInv, TypeOK, RunType, stores
<1>4. ~passed
  BY DEF Fail, At, IndInv, RunnerOK
<1>5. RunnerOK'
  BY <1>1, <1>4 DEF RunnerOK, Idle
<1> QED
  BY <1>1, <1>3, <1>5, FailedStep DEF Idle

\* A launch that finds no writer lock to take records a failure and ends.
LEMMA LaunchRefusedStep ==
  ASSUME IndInv, NEW r \in Runner, NEW o \in Operation, LaunchRefused(r, o)
  PROVE  IndInv'
<1>1. /\ op' = Marked(o, r) /\ writer = None
      /\ UNCHANGED <<writer, passed, source, stores, run>>
  BY DEF LaunchRefused
<1>2. run.pc = "idle"
  BY <1>1 DEF IndInv, RunnerOK
<1>3. OpTypeOK'
  BY <1>1, MarkedType DEF IndInv, TypeOK, OpTypeOK
<1>4. TypeOK' /\ RunnerOK'
  BY <1>1, <1>2, <1>3 DEF IndInv, TypeOK, RunnerOK, stores
<1> QED
  BY <1>1, <1>2, <1>4, FailedStep

\* The lease of an operation runs out under whoever works on it.
LEMMA LapseStep == IndInv /\ Lapse => IndInv'
<1> SUFFICES ASSUME IndInv, Lapse PROVE IndInv'
  OBVIOUS
<1>1. PICK o \in Operation : Expire(o) /\ UNCHANGED <<writer, passed, source, stores, run>>
  BY DEF Lapse
<1>2. OpTypeOK' /\ op[o] \in OperationRow /\ op \in [Operation -> OperationRow]
  BY <1>1, OperationSteps DEF IndInv, TypeOK, OpTypeOK
<1> DEFINE row == [op[o] EXCEPT !.live = FALSE]
<1>3. op' = [op EXCEPT ![o] = row]
  BY <1>1 DEF Expire
<1>4. row.st = op[o].st /\ row.link = op[o].link /\ row.done = op[o].done
  BY <1>2 DEF OperationRow
<1> HIDE DEF row
<1>5. \A q \in Operation : op'[q].st = op[q].st
  BY <1>2, <1>3, <1>4
<1>6. TypeOK' /\ RunnerOK'
  BY <1>1, <1>2, <1>5 DEF IndInv, TypeOK, RunnerOK, stores
<1> QED
  BY <1>1, <1>3, <1>4, <1>6, RowStep

\* What a transition by the runner does to the rows.
LEMMA MoveFacts ==
  ASSUME IndInv, run.pc # "idle", NEW to, NEW done \in Nat, NEW link \in Link,
         NEW total \in 0..Rows, Move(to, done, total, link)
  PROVE  /\ OpTypeOK' /\ run.o \in Operation /\ done \in 0..Rows
         /\ to \in AllowedFrom(op[run.o].st)
         /\ op'[run.o].st = to /\ op'[run.o].done = done /\ op'[run.o].link = link
         /\ \A q \in Operation : q # run.o => op'[q] = op[q]
<1>1. run.o \in Operation /\ op \in [Operation -> OperationRow]
  BY DEF IndInv, RunnerOK, TypeOK, OpTypeOK
<1>2. Transition(run.o, run.id, run.fence, to, done, total, link)
  BY DEF Move
<1>3. /\ OpTypeOK' /\ done \in 0..Rows
      /\ op' = [op EXCEPT ![run.o] = Moved(op[run.o], to, done, total, link)]
  BY <1>1, <1>2, TransitionType DEF OpTypeOK
<1>4. op'[run.o] = Moved(op[run.o], to, done, total, link)
  BY <1>1, <1>3
<1>5. op'[run.o].st = to /\ op'[run.o].done = done /\ op'[run.o].link = link
  BY <1>1, <1>4 DEF Moved, OperationRow
<1>6. to \in AllowedFrom(op[run.o].st)
  BY <1>2 DEF Transition, MayTransition
<1> QED
  BY <1>1, <1>3, <1>5, <1>6

\* The offsets, links and totals a runner passes on are of their types.
LEMMA RowFields ==
  ASSUME IndInv, run.pc # "idle"
  PROVE  /\ run.o \in Operation
         /\ op[run.o].done \in Nat /\ op[run.o].done \in 0..Rows
         /\ op[run.o].total \in 0..Rows /\ op[run.o].link \in Link
         /\ op[run.o].st \in Executing /\ Rows \in Nat /\ Rows \in 0..Rows
         /\ \A q \in Operation : op[q].st \in Maintenance => q = run.o
  BY DEF IndInv, RunnerOK, TypeOK, OpTypeOK, OperationRow, OneRebuild, Maintenance

\* A transition of the operation at work keeps it the only one under way.
LEMMA OnlyRow ==
  ASSUME IndInv, run.pc # "idle",
         \A q \in Operation : q # run.o => op'[q] = op[q]
  PROVE  OneRebuild'
  BY RowFields DEF OneRebuild

\* MarkRunning records the version of the backup.
LEMMA MarkRunningStep == IndInv /\ MarkRunning => IndInv'
<1> DEFINE o == run.o
           link == [op[run.o].link EXCEPT !.hash = source, !.source = pointer.active]
<1> SUFFICES ASSUME IndInv, MarkRunning PROVE IndInv'
  OBVIOUS
<1>1. /\ run.pc = "backed" /\ Move("RUNNING", op[o].done, op[o].total, link)
      /\ run' = [run EXCEPT !.pc = "running"]
      /\ UNCHANGED <<writer, passed, source, stores>>
  BY DEF MarkRunning, At, To
<1>2. /\ link \in Link /\ link.hash = source /\ source # None
  BY <1>1, RowFields DEF IndInv, TypeOK
<1> HIDE DEF link
<1>3. /\ OpTypeOK' /\ o \in Operation
      /\ op'[o].st = "RUNNING" /\ op'[o].done = op[o].done /\ op'[o].link = link
      /\ \A q \in Operation : q # o => op'[q] = op[q]
  BY <1>1, <1>2, RowFields, MoveFacts
<1>4. run' \in RunType /\ run'.o = o /\ run'.pc = "running"
  BY <1>1, RunMoves DEF IndInv, Steps, RunType
<1>5. /\ TypeOK' /\ OneRebuild' /\ PointerConsistent' /\ ServedIsCurrent'
      /\ UNCHANGED <<gen, graph, pointer, store, ver, backup>>
  BY <1>1, <1>3, <1>4, OnlyRow
     DEF IndInv, TypeOK, RunType, PointerConsistent, ServedIsCurrent, stores
<1>6. RunnerOK' /\ StagingOK'
  BY <1>1, <1>3, <1>4, <1>5 DEF IndInv, RunnerOK, StagingOK, Executing
<1>7. ProgressOK'
  BY <1>1, <1>3, <1>4, <1>5 DEF IndInv, ProgressOK, Snapshot
<1>8. CanRollBack'
  BY <1>1, <1>3, <1>4, <1>5 DEF IndInv, CanRollBack
<1>9. CurrencyOK'
  <2>1. op[o].st \in Maintenance /\ ~passed
    BY <1>1, RowFields DEF IndInv, RunnerOK, Maintenance
  <2> QED
    BY <1>1, <1>2, <1>3, <1>4, <1>5, <2>1 DEF IndInv, CurrencyOK
<1> QED
  BY <1>5, <1>6, <1>7, <1>8, <1>9 DEF IndInv

\* MarkPrepared names the staged generation in the row.
LEMMA MarkPreparedStep == IndInv /\ MarkPrepared => IndInv'
<1> DEFINE o == run.o
           link == [op[run.o].link EXCEPT !.target = run.o]
<1> SUFFICES ASSUME IndInv, MarkPrepared PROVE IndInv'
  OBVIOUS
<1>1. /\ run.pc = "staged" /\ Move("RUNNING", op[o].done, op[o].total, link)
      /\ run' = [run EXCEPT !.pc = "replay"]
      /\ UNCHANGED <<writer, passed, source, stores>>
  BY DEF MarkPrepared, At, To
<1>2. link \in Link /\ link.hash = op[o].link.hash
  BY <1>1, RowFields
<1> HIDE DEF link
<1>3. /\ OpTypeOK' /\ o \in Operation
      /\ op'[o].st = "RUNNING" /\ op'[o].done = op[o].done /\ op'[o].link = link
      /\ \A q \in Operation : q # o => op'[q] = op[q]
  BY <1>1, <1>2, RowFields, MoveFacts
<1>4. run' \in RunType /\ run'.o = o /\ run'.pc = "replay"
  BY <1>1, RunMoves DEF IndInv, Steps, RunType
<1>5. /\ TypeOK' /\ OneRebuild' /\ PointerConsistent' /\ ServedIsCurrent'
      /\ UNCHANGED <<gen, graph, pointer, store, ver, backup>>
  BY <1>1, <1>3, <1>4, OnlyRow
     DEF IndInv, TypeOK, RunType, PointerConsistent, ServedIsCurrent, stores
<1>6. RunnerOK' /\ StagingOK'
  BY <1>1, <1>3, <1>4, <1>5 DEF IndInv, RunnerOK, StagingOK, Executing
<1>7. ProgressOK' /\ CanRollBack'
  BY <1>1, <1>3, <1>4, <1>5 DEF IndInv, ProgressOK, CanRollBack, Snapshot
<1>8. CurrencyOK'
  BY <1>1, <1>2, <1>3, <1>4, <1>5, RowFields
     DEF IndInv, CurrencyOK, Maintenance
<1> QED
  BY <1>5, <1>6, <1>7, <1>8 DEF IndInv

\* A page has as many rows as the progress grows by, none beyond the last.
LEMMA PageSize ==
  ASSUME IndInv, run.pc # "idle"
  PROVE  /\ IsFiniteSet(Page(run.o)) /\ Cardinality(Page(run.o)) \in Nat
         /\ 1..(op[run.o].done + Cardinality(Page(run.o)))
              \subseteq 1..op[run.o].done \cup Page(run.o)
         /\ Page(run.o) = {} => op[run.o].done = Rows
<1> DEFINE d == op[run.o].done
           last == IF d + BatchSize <= Rows THEN d + BatchSize ELSE Rows
<1>1. d \in Nat /\ d <= Rows /\ last \in Nat /\ d <= last /\ BatchSize \in Nat \ {0} /\ Rows \in Nat
  BY RowFields
<1>2. Page(run.o) = d+1..last
  BY <1>1 DEF Page, Snapshot
<1> HIDE DEF d, last
<1>3. /\ IsFiniteSet(Page(run.o))
      /\ Cardinality(Page(run.o)) = IF d + 1 > last THEN 0 ELSE last - (d + 1) + 1
  <2>1. d + 1 \in Int /\ last \in Int
    BY <1>1
  <2> QED
    BY <1>2, <2>1, FS_Interval
<1>4. d + Cardinality(Page(run.o)) = last /\ Cardinality(Page(run.o)) \in Nat
  BY <1>1, <1>3
<1>5. 1..last \subseteq 1..d \cup Page(run.o)
  BY <1>1, <1>2
<1>6. ASSUME Page(run.o) = {} PROVE d = Rows
  <2>1. last = d
    BY <1>1, <1>3, <1>4, <1>6, FS_EmptySet
  <2> QED
    BY <1>1, <2>1 DEF last
<1> QED
  BY <1>3, <1>4, <1>5, <1>6 DEF d

\* Checkpoint counts the page that was applied.
LEMMA CheckpointStep == IndInv /\ Checkpoint => IndInv'
<1> DEFINE o == run.o
           link == op[run.o].link
           done == op[run.o].done + Cardinality(Page(run.o))
<1> SUFFICES ASSUME IndInv, Checkpoint PROVE IndInv'
  OBVIOUS
<1>1. /\ run.pc = "applied" /\ Move("RUNNING", done, Rows, link)
      /\ run' = [run EXCEPT !.pc = "replay"]
      /\ UNCHANGED <<writer, passed, source, stores>>
  BY DEF Checkpoint, At, To
<1>2. done \in Nat /\ 1..done \subseteq 1..op[o].done \cup Page(o)
  BY <1>1, RowFields, PageSize
<1> HIDE DEF done
<1>3. /\ OpTypeOK' /\ o \in Operation
      /\ op'[o].st = "RUNNING" /\ op'[o].done = done /\ op'[o].link = link
      /\ \A q \in Operation : q # o => op'[q] = op[q]
  <2>1. link \in Link /\ Rows \in 0..Rows
    BY <1>1, RowFields
  <2> HIDE DEF link
  <2> QED
    BY <1>1, <1>2, <2>1, MoveFacts
<1>4. run' \in RunType /\ run'.o = o /\ run'.pc = "replay"
  BY <1>1, RunMoves DEF IndInv, Steps, RunType
<1>5. /\ TypeOK' /\ OneRebuild' /\ PointerConsistent' /\ ServedIsCurrent'
      /\ UNCHANGED <<gen, graph, pointer, store, ver, backup>>
  BY <1>1, <1>3, <1>4, OnlyRow
     DEF IndInv, TypeOK, RunType, PointerConsistent, ServedIsCurrent, stores
<1>6. RunnerOK' /\ StagingOK'
  BY <1>1, <1>3, <1>4, <1>5 DEF IndInv, RunnerOK, StagingOK, Executing
<1>7. ProgressOK'
  <2>1. 1..done \subseteq store[o]
    BY <1>1, <1>2, <1>3 DEF IndInv, ProgressOK
  <2> QED
    BY <1>1, <1>3, <1>4, <1>5, <2>1 DEF IndInv, ProgressOK, Snapshot
<1>8. CanRollBack'
  BY <1>1, <1>3, <1>4, <1>5 DEF IndInv, CanRollBack
<1>9. CurrencyOK'
  BY <1>1, <1>3, <1>4, <1>5, RowFields DEF IndInv, CurrencyOK, Maintenance
<1> QED
  BY <1>5, <1>6, <1>7, <1>8, <1>9 DEF IndInv

\* The replay ends only when every row of the snapshot is in the stores.
LEMMA FinishReplayStep == IndInv /\ FinishReplay => IndInv'
<1> DEFINE o == run.o
           link == op[run.o].link
<1> SUFFICES ASSUME IndInv, FinishReplay PROVE IndInv'
  OBVIOUS
<1>1. /\ run.pc = "replay" /\ Page(o) = {} /\ Move("VERIFYING", Rows, Rows, link)
      /\ run' = [run EXCEPT !.pc = "verify"]
      /\ UNCHANGED <<writer, passed, source, stores>>
  BY DEF FinishReplay, At, To
<1>2. op[o].done = Rows
  BY <1>1, PageSize
<1>3. /\ OpTypeOK' /\ o \in Operation
      /\ op'[o].st = "VERIFYING" /\ op'[o].done = Rows /\ op'[o].link = link
      /\ \A q \in Operation : q # o => op'[q] = op[q]
  <2>1. link \in Link /\ Rows \in Nat /\ Rows \in 0..Rows
    BY <1>1, RowFields
  <2> HIDE DEF link
  <2> QED
    BY <1>1, <2>1, MoveFacts
<1>4. run' \in RunType /\ run'.o = o /\ run'.pc = "verify"
  BY <1>1, RunMoves DEF IndInv, Steps, RunType
<1>5. /\ TypeOK' /\ OneRebuild' /\ PointerConsistent' /\ ServedIsCurrent'
      /\ UNCHANGED <<gen, graph, pointer, store, ver, backup>>
  BY <1>1, <1>3, <1>4, OnlyRow
     DEF IndInv, TypeOK, RunType, PointerConsistent, ServedIsCurrent, stores
<1>6. RunnerOK' /\ StagingOK'
  BY <1>1, <1>3, <1>4, <1>5 DEF IndInv, RunnerOK, StagingOK, Executing
<1>7. ProgressOK'
  <2>1. store[o] = Snapshot
    BY <1>2, <1>3 DEF IndInv, ProgressOK, TypeOK, Snapshot, Generation
  <2> QED
    BY <1>1, <1>2, <1>3, <1>4, <1>5, <2>1 DEF IndInv, ProgressOK, Snapshot
<1>8. CanRollBack'
  BY <1>1, <1>3, <1>4, <1>5 DEF IndInv, CanRollBack
<1>9. CurrencyOK'
  BY <1>1, <1>2, <1>3, <1>4, <1>5, RowFields DEF IndInv, CurrencyOK, Maintenance
<1> QED
  BY <1>5, <1>6, <1>7, <1>8, <1>9 DEF IndInv

\* An operation is ready after its verification, when its generation is still
\* staged, or was ready before a crash.
LEMMA MarkReadyStep == IndInv /\ MarkReady => IndInv'
<1> DEFINE o == run.o
           link == op[run.o].link
<1> SUFFICES ASSUME IndInv, MarkReady PROVE IndInv'
  OBVIOUS
<1>1. /\ run.pc = "ready" /\ Move("READY_TO_CUTOVER", Rows, Rows, link)
      /\ run' = [run EXCEPT !.pc = "switch"]
      /\ UNCHANGED <<writer, passed, source, stores>>
  BY DEF MarkReady, At, To
<1>2. /\ OpTypeOK' /\ o \in Operation
      /\ "READY_TO_CUTOVER" \in AllowedFrom(op[o].st)
      /\ op'[o].st = "READY_TO_CUTOVER" /\ op'[o].done = Rows /\ op'[o].link = link
      /\ \A q \in Operation : q # o => op'[q] = op[q]
  <2>1. link \in Link /\ Rows \in Nat /\ Rows \in 0..Rows
    BY <1>1, RowFields
  <2> HIDE DEF link
  <2> QED
    BY <1>1, <2>1, MoveFacts
<1>3. op[o].st \in {"VERIFYING", "READY_TO_CUTOVER"}
  BY <1>2 DEF AllowedFrom, Failing
<1>4. run' \in RunType /\ run'.o = o /\ run'.pc = "switch"
  BY <1>1, RunMoves DEF IndInv, Steps, RunType
<1>5. /\ TypeOK' /\ OneRebuild' /\ PointerConsistent' /\ ServedIsCurrent'
      /\ UNCHANGED <<gen, graph, pointer, store, ver, backup>>
  BY <1>1, <1>2, <1>4, OnlyRow
     DEF IndInv, TypeOK, RunType, PointerConsistent, ServedIsCurrent, stores
<1>6. RunnerOK' /\ StagingOK'
  BY <1>1, <1>2, <1>4, <1>5 DEF IndInv, RunnerOK, StagingOK, Executing
<1>7. op[o].done = Rows /\ store[o] = Snapshot
  BY <1>2, <1>3 DEF IndInv, ProgressOK
<1>8. op[o].st = "VERIFYING" => pointer.active # o
  BY <1>2 DEF IndInv, StagingOK, PointerConsistent, Generation
<1>9. ProgressOK'
  BY <1>1, <1>2, <1>4, <1>5, <1>7 DEF IndInv, ProgressOK, Snapshot
<1>10. CanRollBack'
  BY <1>1, <1>2, <1>3, <1>4, <1>5, <1>8 DEF IndInv, CanRollBack
<1>11. CurrencyOK'
  BY <1>1, <1>2, <1>3, <1>4, <1>5, <1>7, <1>8, RowFields
     DEF IndInv, CurrencyOK, Maintenance
<1> QED
  BY <1>5, <1>6, <1>9, <1>10, <1>11 DEF IndInv

\* The completion ends the operation and the runner.
LEMMA CompleteStep == IndInv /\ Complete => IndInv'
<1> DEFINE o == run.o
           link == op[run.o].link
<1> SUFFICES ASSUME IndInv, Complete PROVE IndInv'
  OBVIOUS
<1>1. /\ run.pc = "complete" /\ Move("COMPLETED", Rows, Rows, link)
      /\ run' = Idle /\ writer' = None /\ UNCHANGED <<passed, source, stores>>
  BY DEF Complete, At, Exit
<1>2. /\ OpTypeOK' /\ o \in Operation
      /\ "COMPLETED" \in AllowedFrom(op[o].st)
      /\ op'[o].st = "COMPLETED" /\ op'[o].done = Rows /\ op'[o].link = link
      /\ \A q \in Operation : q # o => op'[q] = op[q]
  <2>1. link \in Link /\ Rows \in Nat /\ Rows \in 0..Rows
    BY <1>1, RowFields
  <2> HIDE DEF link
  <2> QED
    BY <1>1, <2>1, MoveFacts
<1>3. op[o].st = "READY_TO_CUTOVER"
  BY <1>2 DEF AllowedFrom, Failing
<1>4. run' \in RunType /\ run'.pc = "idle"
  BY <1>1, RunMoves DEF IndInv, Idle
<1>5. /\ TypeOK' /\ OneRebuild' /\ PointerConsistent' /\ ServedIsCurrent'
      /\ UNCHANGED <<gen, graph, pointer, store, ver, backup>>
  BY <1>1, <1>2, <1>4, OnlyRow
     DEF IndInv, TypeOK, RunType, PointerConsistent, ServedIsCurrent, stores
<1>6. RunnerOK' /\ StagingOK'
  BY <1>1, <1>2, <1>4, <1>5 DEF IndInv, RunnerOK, StagingOK
<1>7. ProgressOK'
  BY <1>1, <1>2, <1>3, <1>4, <1>5 DEF IndInv, ProgressOK, Snapshot
<1>8. CanRollBack' /\ CurrencyOK'
  BY <1>1, <1>2, <1>3, <1>4, <1>5
     DEF IndInv, CanRollBack, CurrencyOK, Maintenance, Executing
<1> QED
  BY <1>5, <1>6, <1>7, <1>8 DEF IndInv

-----------------------------------------------------------------------------
(* The invariant                                                           *)

\* Every step keeps the invariant.
LEMMA NextInd == IndInv /\ [Next]_vars => IndInv'
<1> SUFFICES ASSUME IndInv, [Next]_vars PROVE IndInv'
  OBVIOUS
<1>1. CASE UNCHANGED vars
  <2>1. TypeOK' /\ RunnerOK'
    BY <1>1 DEF vars, IndInv, TypeOK, OpTypeOK, RunnerOK
  <2> QED
    BY <1>1, <2>1, ControlStep DEF vars, stores
<1>2. CASE ServerStart \/ ServerStop \/ CheckAdmission
  BY <1>2, ServerSteps
<1>3. CASE Operate \/ Admit
  BY <1>3, OperateStep, AdmitStep
<1>4. CASE \E r \in Runner, o \in Operation : Launch(r, o) \/ LaunchRefused(r, o)
  BY <1>4, LaunchStep, LaunchRefusedStep
<1>5. CASE Prepare
  BY <1>5, BackUpStep, MarkRunningStep, StageStep, MarkPreparedStep DEF Prepare
<1>6. CASE Replay
  BY <1>6, ApplyBatchStep, CheckpointStep, FinishReplayStep DEF Replay
<1>7. CASE Cutover
  BY <1>7, RunnerSteps, MarkReadyStep, ActivateStep, RollBackStep, CompleteStep DEF Cutover
<1>8. CASE Fail \/ Crash \/ Lapse
  BY <1>8, FailStep, RunnerSteps, LapseStep
<1> QED
  BY <1>1, <1>2, <1>3, <1>4, <1>5, <1>6, <1>7, <1>8 DEF Next

\* The inductive invariant holds in every reachable state: it is the conjunction of
\* what a running rebuild has checked, what its stores hold and what the pointer names.
THEOREM RebuildInvariant == Spec => []IndInv
  BY InitInd, NextInd, PTL DEF Spec

\* Rows, generations, pointer, backups and the runner stay well typed.
THEOREM RebuildTypeCorrect == Spec => []TypeOK
<1>1. IndInv => TypeOK
  BY DEF IndInv
<1> QED
  BY RebuildInvariant, <1>1, PTL

\* At most one rebuild is under way (submit, claim, retry and the partial index).
THEOREM RebuildIsAlone == Spec => []OneRebuild
<1>1. IndInv => OneRebuild
  BY DEF IndInv
<1> QED
  BY RebuildInvariant, <1>1, PTL

\* Exactly the generation that the pointer names is active, and the one it keeps
\* is retained (activate, rollback, create_staging).
THEOREM PointerStaysConsistent == Spec => []PointerConsistent
<1>1. IndInv => PointerConsistent
  BY DEF IndInv
<1> QED
  BY RebuildInvariant, <1>1, PTL

\* A verified, completed or served rebuild has every row of its snapshot,
\* however often its replay was interrupted and resumed (ProjectionReplayer).
THEOREM ReplayStaysComplete == Spec => []ReplayIsComplete
<1>1. IndInv => ReplayIsComplete
  BY DEF IndInv, ProgressOK, ReplayIsComplete
<1> QED
  BY RebuildInvariant, <1>1, PTL

\* The generation in service always reflects all admitted data
\* (require_mutation_admission, the writer lock, the manifest hash).
THEOREM ServedStaysCurrent == Spec => []ServedIsCurrent
<1>1. IndInv => ServedIsCurrent
  BY DEF IndInv
<1> QED
  BY RebuildInvariant, <1>1, PTL

\* An operation that may still fail after its cutover has what it replaced at hand.
THEOREM RebuildCanRollBack == Spec => []CanRollBack
<1>1. IndInv => CanRollBack
  BY DEF IndInv
<1> QED
  BY RebuildInvariant, <1>1, PTL

-----------------------------------------------------------------------------
(* Operations: the retry budget and the lease                              *)

\* What a step may do to the operations.
Transitions(o) ==
    \E r, f, to : \E done \in Nat, total \in 0..Rows, link \in Link :
        Transition(o, r, f, to, done, total, link)
\* Every step that changes a row of system_operations changes exactly one, in one of these ways.
LEMMA OperationCases ==
  ASSUME IndInv, [Next]_vars
  PROVE  \/ op' = op
         \/ \E o \in Operation :
              \/ \E k \in Key, d \in Digest : Submit(o, k, d)
              \/ \E r \in Runner : Claim(o, r)
              \/ Cancel(o) \/ Retry(o) \/ Expire(o)
              \/ \E r : op' = Marked(o, r)
              \/ Transitions(o)
<1>1. CASE \/ UNCHANGED vars \/ ServerStart \/ ServerStop \/ CheckAdmission \/ Admit \/ Crash
           \/ BackUp \/ Stage \/ ApplyBatch \/ ResumeCutover \/ Verify \/ Activate
           \/ AlreadyActive \/ PostVerify \/ RollBack \/ Publish
  BY <1>1 DEF vars, ServerStart, ServerStop, CheckAdmission, Admit, Crash, BackUp, Stage,
     ApplyBatch, ResumeCutover, Verify, Activate, AlreadyActive, PostVerify, RollBack, Publish
<1>2. CASE Operate
  BY <1>2 DEF Operate
<1>3. CASE \E r \in Runner, o \in Operation : Launch(r, o) \/ LaunchRefused(r, o)
  BY <1>3 DEF Launch, LaunchRefused
<1>4. CASE Fail
  BY <1>4 DEF Fail, At, IndInv, RunnerOK
<1>5. CASE Lapse
  BY <1>5 DEF Lapse
<1>6. CASE MarkRunning
  <2>1. run.pc # "idle" /\ Move("RUNNING", op[run.o].done, op[run.o].total,
          [op[run.o].link EXCEPT !.hash = source, !.source = pointer.active])
    BY <1>6 DEF MarkRunning, At
  <2>2. [op[run.o].link EXCEPT !.hash = source, !.source = pointer.active] \in Link
    BY <2>1, RowFields DEF IndInv, TypeOK
  <2> QED
    BY <2>1, <2>2, RowFields DEF Move, Transitions
<1>7. CASE MarkPrepared
  <2>1. run.pc # "idle" /\ Move("RUNNING", op[run.o].done, op[run.o].total,
          [op[run.o].link EXCEPT !.target = run.o])
    BY <1>7 DEF MarkPrepared, At
  <2>2. [op[run.o].link EXCEPT !.target = run.o] \in Link
    BY <2>1, RowFields
  <2> QED
    BY <2>1, <2>2, RowFields DEF Move, Transitions
<1>8. CASE Checkpoint
  <2>1. /\ run.pc # "idle"
        /\ Move("RUNNING", op[run.o].done + Cardinality(Page(run.o)), Rows, op[run.o].link)
    BY <1>8 DEF Checkpoint, At
  <2>2. op[run.o].done + Cardinality(Page(run.o)) \in Nat
    BY <2>1, RowFields, PageSize
  <2> QED
    BY <2>1, <2>2, RowFields DEF Move, Transitions
<1>9. CASE FinishReplay \/ MarkReady \/ Complete
  <2>1. run.pc # "idle" /\ \E to : Move(to, Rows, Rows, op[run.o].link)
    BY <1>9 DEF FinishReplay, MarkReady, Complete, At
  <2> QED
    BY <2>1, RowFields DEF Move, Transitions
<1> QED
  BY <1>1, <1>2, <1>3, <1>4, <1>5, <1>6, <1>7, <1>8, <1>9
     DEF Next, Prepare, Replay, Cutover

\* The rows of a lease: a lease in force belongs to an operation that executes.
LeaseOK == \A o \in Operation : op[o].live => op[o].st \in Executing

\* What a step does to the fields of one row that the budget and the lease look at.
RowChange(old, new) ==
    \/ /\ new.st = "PENDING" /\ new.fence = old.fence /\ new.done = old.done
       /\ old.live = FALSE /\ new.live = FALSE
    \/ /\ new.st = "CANCELLED" /\ new.fence = old.fence /\ new.done = old.done
       /\ old.live = FALSE /\ new.live = FALSE
    \/ /\ old.live = FALSE /\ new.live = TRUE /\ new.st \in Executing
       /\ new.fence = old.fence + 1 /\ new.done = old.done
    \/ /\ old.live = TRUE /\ new.live = FALSE /\ new.st = old.st /\ new.tries = old.tries
       /\ new.fence = old.fence /\ new.done = old.done
    \/ /\ old.live = TRUE /\ new.live \in BOOLEAN /\ new.fence = old.fence
       /\ new.done >= old.done
       /\ new.live => new.st \in Executing
       /\ new.st = "RETRYABLE_FAILED" => new.tries < RetryLimit

\* Such a step moves the lease of that row by the rules of RowChange.
LEMMA RowChanges ==
  ASSUME IndInv, LeaseOK, [Next]_vars, op' # op
  PROVE  \E o \in Operation :
           /\ RowChange(op[o], op'[o])
           /\ op' = [op EXCEPT ![o] = op'[o]]
<1>0. /\ op \in [Operation -> OperationRow]
      /\ \A o \in Operation : op[o] \in OperationRow
  BY DEF IndInv, TypeOK, OpTypeOK
<1>1. PICK o \in Operation :
              \/ \E k \in Key, d \in Digest : Submit(o, k, d)
              \/ \E r \in Runner : Claim(o, r)
              \/ Cancel(o) \/ Retry(o) \/ Expire(o)
              \/ \E r : op' = Marked(o, r)
              \/ Transitions(o)
  BY OperationCases
<1>2. op[o].live \in BOOLEAN /\ op[o].live => op[o].st \in Executing
  BY <1>0 DEF LeaseOK, OperationRow
<1>3. CASE \E k \in Key, d \in Digest : Submit(o, k, d)
  <2>1. PICK k \in Key, d \in Digest : Submit(o, k, d)
    BY <1>3
  <2> DEFINE row == [op[o] EXCEPT !.st = "PENDING", !.key = k, !.digest = d]
  <2>2. op' = [op EXCEPT ![o] = row] /\ op'[o] = row
    BY <1>0, <2>1 DEF Submit
  <2>3. op[o].live = FALSE
    BY <1>0, <2>1 DEF Submit, LeaseOK, OperationRow, Executing
  <2>4. row.st = "PENDING" /\ row.fence = op[o].fence /\ row.done = op[o].done /\ row.live = FALSE
    BY <1>0, <2>3 DEF OperationRow
  <2> HIDE DEF row
  <2> QED
    BY <2>2, <2>3, <2>4 DEF RowChange
<1>4. CASE \E r \in Runner : Claim(o, r)
  <2>1. PICK r \in Runner : Claim(o, r)
    BY <1>4
  <2> DEFINE row == [op[o] EXCEPT !.st = IF @ = "PENDING" THEN "CLAIMED" ELSE @,
                                  !.by = r, !.live = TRUE, !.fence = @ + 1, !.tries = @ + 1]
  <2>2. op' = [op EXCEPT ![o] = row] /\ op'[o] = row
    BY <1>0, <2>1 DEF Claim
  <2>3. op[o].live = FALSE
    BY <1>0, <2>1 DEF Claim, Claimable, LeaseOK, OperationRow, Executing
  <2>4. row.st \in Executing
    BY <1>0, <2>1 DEF OperationRow, Claim, Claimable, Executing
  <2>5. row.fence = op[o].fence + 1 /\ row.done = op[o].done /\ row.live = TRUE
    BY <1>0 DEF OperationRow
  <2> HIDE DEF row
  <2> QED
    BY <2>2, <2>3, <2>4, <2>5 DEF RowChange
<1>5. CASE Cancel(o)
  <2> DEFINE row == [op[o] EXCEPT !.st = "CANCELLED", !.by = None, !.live = FALSE]
  <2>1. op' = [op EXCEPT ![o] = row] /\ op'[o] = row
    BY <1>0, <1>5 DEF Cancel
  <2>2. op[o].live = FALSE
    BY <1>0, <1>5 DEF Cancel, LeaseOK, OperationRow, Executing
  <2>3. row.st = "CANCELLED" /\ row.fence = op[o].fence /\ row.done = op[o].done /\ row.live = FALSE
    BY <1>0 DEF OperationRow
  <2> HIDE DEF row
  <2> QED
    BY <2>1, <2>2, <2>3 DEF RowChange
<1>6. CASE Retry(o)
  <2> DEFINE row == [op[o] EXCEPT !.st = "PENDING", !.by = None, !.live = FALSE]
  <2>1. op' = [op EXCEPT ![o] = row] /\ op'[o] = row
    BY <1>0, <1>6 DEF Retry
  <2>2. op[o].live = FALSE
    BY <1>0, <1>6 DEF Retry, LeaseOK, OperationRow, Executing
  <2>3. row.st = "PENDING" /\ row.fence = op[o].fence /\ row.done = op[o].done /\ row.live = FALSE
    BY <1>0 DEF OperationRow
  <2> HIDE DEF row
  <2> QED
    BY <2>1, <2>2, <2>3 DEF RowChange
<1>7. CASE Expire(o)
  <2> DEFINE row == [op[o] EXCEPT !.live = FALSE]
  <2>1. op[o].live = TRUE /\ op' = [op EXCEPT ![o] = row] /\ op'[o] = row
    BY <1>0, <1>2, <1>7 DEF Expire
  <2>2. /\ row.st = op[o].st /\ row.tries = op[o].tries /\ row.fence = op[o].fence
        /\ row.done = op[o].done /\ row.live = FALSE
    BY <1>0 DEF OperationRow
  <2> HIDE DEF row
  <2> QED
    BY <2>1, <2>2 DEF RowChange
<1>8. CASE \E r : op' = Marked(o, r)
  <2> DEFINE row == Moved(op[o], FailedAs(op[o]), op[o].done, op[o].total, op[o].link)
  <2>1. op[o].live = TRUE /\ op' = [op EXCEPT ![o] = row] /\ op'[o] = row
    BY <1>0, <1>2, <1>8 DEF Marked
  <2>2. /\ row.st = FailedAs(op[o]) /\ row.fence = op[o].fence /\ row.tries = op[o].tries
        /\ row.done = op[o].done /\ row.live = FALSE
    BY <1>0 DEF Moved, FailedAs, OperationRow, Final
  <2>3. row.st = "RETRYABLE_FAILED" => row.tries < RetryLimit
    BY <1>0, <2>2 DEF FailedAs, OperationRow
  <2>4. row.done >= op[o].done
    BY <1>0, <2>2 DEF OperationRow
  <2> HIDE DEF row
  <2> QED
    BY <2>1, <2>2, <2>3, <2>4 DEF RowChange
<1>9. CASE Transitions(o)
  <2>1. PICK r, f, to : \E done \in Nat, total \in 0..Rows, link \in Link :
                          Transition(o, r, f, to, done, total, link)
    BY <1>9 DEF Transitions
  <2>2. PICK done \in Nat, total \in 0..Rows, link \in Link :
                          Transition(o, r, f, to, done, total, link)
    BY <2>1
  <2> DEFINE row == Moved(op[o], to, done, total, link)
  <2>3. op[o].live = TRUE /\ op' = [op EXCEPT ![o] = row] /\ op'[o] = row
    BY <1>0, <1>2, <2>2 DEF Transition, Fenced
  <2>4. /\ row.st = to /\ row.fence = op[o].fence /\ row.tries = op[o].tries
        /\ row.done = done /\ row.live = (IF to \in Final THEN FALSE ELSE op[o].live)
    BY <1>0 DEF Moved, OperationRow
  <2>5. done >= op[o].done /\ (to = "RETRYABLE_FAILED" => op[o].tries < RetryLimit)
    BY <2>2 DEF Transition, Progresses, MayTransition
  <2>6. to \in AllowedFrom(op[o].st)
    BY <2>2 DEF Transition, MayTransition
  <2>7. to \in Final \/ to \in Executing
    BY <2>6 DEF AllowedFrom, Final, Executing, Failing
  <2> HIDE DEF row
  <2> QED
    BY <1>2, <2>3, <2>4, <2>5, <2>7 DEF RowChange
<1> QED
  BY <1>1, <1>3, <1>4, <1>5, <1>6, <1>7, <1>8, <1>9

BudgetInv == LeaseOK /\ RetryableHasBudget
\* Every step keeps an open lease on an executing row, and a retryable row an attempt.
LEMMA BudgetStep == IndInv /\ BudgetInv /\ [Next]_vars => BudgetInv'
<1> SUFFICES ASSUME IndInv, BudgetInv, [Next]_vars PROVE BudgetInv'
  OBVIOUS
<1>1. CASE op' = op
  BY <1>1 DEF BudgetInv, LeaseOK, RetryableHasBudget
<1>2. CASE op' # op
  <2>1. PICK o \in Operation : RowChange(op[o], op'[o]) /\ op' = [op EXCEPT ![o] = op'[o]]
    BY <1>2, RowChanges DEF BudgetInv
  <2>2. \A q \in Operation : q # o => op'[q] = op[q]
    BY <2>1 DEF IndInv, TypeOK, OpTypeOK
  <2>3. op'[o].live => op'[o].st \in Executing
    BY <2>1 DEF RowChange
  <2>4. op'[o].st = "RETRYABLE_FAILED" => op'[o].tries < RetryLimit
    <3>1. op[o].live = TRUE => op[o].st # "RETRYABLE_FAILED"
      BY DEF BudgetInv, LeaseOK, Executing
    <3> QED
      BY <2>1, <3>1 DEF RowChange, Executing
  <2> QED
    BY <2>2, <2>3, <2>4 DEF BudgetInv, LeaseOK, RetryableHasBudget
<1> QED
  BY <1>1, <1>2

\* Whatever fails, crashes or lapses, an operation reported as retryable has an
\* attempt left (transition, _mark_operation_failure, retry).
THEOREM RetryableKeepsBudget == Spec => []RetryableHasBudget
<1>1. Init => BudgetInv
  BY DEF Init, OpInit, BudgetInv, LeaseOK, RetryableHasBudget
<1>2. BudgetInv => RetryableHasBudget
  BY DEF BudgetInv
<1> QED
  BY RebuildInvariant, <1>1, <1>2, BudgetStep, PTL DEF Spec

\* The rows of the operations implement a fenced lease: each step is a grant, a
\* lapse, work under a lease in force, or none of the lease's business.
THEOREM RebuildImplementsLease == Spec => ImplementsLease
<1>1. Init => Lease!Init
  BY DEF Init, OpInit, Lease!Init
<1>2. IndInv /\ BudgetInv /\ [Next]_vars => [Lease!Next]_Lease!vars
  <2> SUFFICES ASSUME IndInv, BudgetInv, [Next]_vars PROVE [Lease!Next]_Lease!vars
    OBVIOUS
  <2>1. CASE op' = op
    BY <2>1 DEF Lease!vars
  <2>2. CASE op' # op
    <3>1. PICK o \in Operation : RowChange(op[o], op'[o]) /\ op' = [op EXCEPT ![o] = op'[o]]
      BY <2>2, RowChanges DEF BudgetInv
    <3>2. \A q \in Operation : q # o => op'[q] = op[q]
      BY <3>1 DEF IndInv, TypeOK, OpTypeOK
    <3>3. CASE op'[o].fence = op[o].fence /\ op'[o].done = op[o].done /\ op'[o].live = op[o].live
      BY <3>2, <3>3 DEF Lease!vars
    <3>4. CASE /\ op[o].live = FALSE /\ op'[o].live = TRUE
               /\ op'[o].fence = op[o].fence + 1 /\ op'[o].done = op[o].done
      <4>1. Lease!Grant(o)
        BY <3>2, <3>4 DEF Lease!Grant
      <4> QED
        BY <4>1 DEF Lease!Next
    <3>5. CASE /\ op[o].live = TRUE /\ op'[o].fence = op[o].fence
               /\ op'[o].done >= op[o].done
      <4>1. Lease!Advance(o)
        BY <3>2, <3>5 DEF Lease!Advance
      <4> QED
        BY <4>1 DEF Lease!Next
    <3>6. op[o].done >= op[o].done
      <4>1. op[o].done \in Nat
        BY RebuildAssumption, OperationAssumption DEF IndInv, TypeOK, OpTypeOK, OperationRow
      <4> QED
        BY <4>1
    <3>7. \/ /\ op'[o].fence = op[o].fence /\ op'[o].done = op[o].done
             /\ op'[o].live = op[o].live
          \/ /\ op[o].live = FALSE /\ op'[o].live = TRUE
             /\ op'[o].fence = op[o].fence + 1 /\ op'[o].done = op[o].done
          \/ /\ op[o].live = TRUE /\ op'[o].fence = op[o].fence
             /\ op'[o].done >= op[o].done
      BY <3>1, <3>6, ZenonT(30) DEF RowChange
    <3> QED
      BY <3>3, <3>4, <3>5, <3>7
  <2> QED
    BY <2>1, <2>2
<1>3. Init => BudgetInv
  BY DEF Init, OpInit, BudgetInv, LeaseOK, RetryableHasBudget
<1> QED
  BY RebuildInvariant, BudgetStep, <1>1, <1>2, <1>3, PTL DEF Spec, ImplementsLease, Lease!Spec
=============================================================================
