----------------------------- MODULE Components -----------------------------
(***************************************************************************)
(* The components that share no state with the projection pipeline.  A     *)
(* behaviour is about one of them, chosen when it starts; the variables of *)
(* the others keep their initial values.  A constant that has the name of  *)
(* a constant of a component is that constant of it.                       *)
(***************************************************************************)
EXTENDS Integers, Sequences, FiniteSets

CONSTANTS
    Parts,                                          \* components to look at
    None,
    Content, DirectRev, Key, Plan, Chunkings, Sent, MaxChunks, MaxNumber,
    MaxMutations,                                                \* Admission
    Name, Uri, Rank, MaxAliases, MaxForgot,                      \* EntityIdentity
    Entry, WithGraph, RetryLimit, MaxEpoch, WalFaults,           \* VectorWal
    PurgeRetries, LegacyFaults,                                  \* LegacyStore
    Assertion, AgentOf, TopicOf, ChunkOf, Cited, Earlier, Projected, SearchScope,
    GraphPath, Limit, MaxExact, Pool, Near, Best, SearchSeeds, MaxCached, MaxEvents,
    MaxSearches, RetrievalFaults,                                \* Retrieval
    Vector, MaxSpace, TableFaults,                               \* VectorTables
    Node, Triple, SubjectOf, ObjectOf, StoreFaults,              \* GraphStore
    Edge, EdgeFrom, EdgeTo, Weak, WalkScope, MaxHops, MaxSeeds, MaxFrontier,
    MinRows, MaxRows, MaxFanout, MaxChanges, MaxWalks,           \* GraphWalk
    Op, Forgetting, Payload, Caller, Approver, Threshold, MaxApprovals,
    MaxRequests, GatewayFaults,                                  \* Gateway
    Memory, MaxAttempts, Batch, MaxLetters, LetterFaults,        \* DeadLetters
    Process, MaxRestarts, RootFaults,                            \* StorageRoot
    Fact, Unsafe, Server, MigrationFaults,                       \* GraphMigration
    Record, TenantOf, Bytes, MaxRecords, MaxBytes, MaxInFlight, MaxRetrying,
    QueueAttempts, QueueRetries, QueueFaults                     \* DispatchQueue

ASSUME ComponentsAssumption ==
    /\ MaxAttempts \in Nat /\ MaxLetters \in Nat /\ MigrationFaults \in Nat /\ MaxHops \in Nat
    /\ MaxCached \in Nat \ {0}
    /\ None \notin Triple
    /\ None \notin Process \cup {Server}
    /\ "none" \notin Payload
    /\ None # "backup" /\ "backup" \notin Process
    /\ None \notin [schema : {"old", "current"}, whole : BOOLEAN, facts : SUBSET Fact]

\* What Admission may be sent: the texts of single inserts and of the chunks of every
\* plan, and requests for them.  Single inserts name revisions of their own.
TextsOf(plan) == {plan[o] : o \in DOMAIN plan}
Texts == {p.text : p \in Sent} \cup UNION {TextsOf(Plan[c][m]) : c \in Content, m \in Chunkings}
Requests == [rev: Content \cup DirectRev, num: 0..MaxNumber,
             sup: Content \cup DirectRev \cup {None}, ord: 1..MaxChunks, text: Texts,
             last: BOOLEAN]
ASSUME RequestsAssumption ==
    /\ MaxChunks \in Nat /\ MaxNumber \in Nat
    /\ Content \cap DirectRev = {} /\ Key \cap (Content \X (1..MaxChunks)) = {}
    /\ None \notin Content \cup DirectRev \cup Key \cup (Content \X (1..MaxChunks))
    /\ None \notin Texts \cup Requests
    /\ \A c \in Content, m \in Chunkings :
          Len(Plan[c][m]) \in 0..MaxChunks /\ DOMAIN Plan[c][m] = 1..Len(Plan[c][m])
    /\ \A p \in Sent : p \in Requests /\ p.rev \in DirectRev

\* The rows of the dispatch queue have a size each.
ASSUME QueueAssumption == Bytes \in [Record -> Nat]

\* What Retrieval walks and ranks: non-empty paths of assertions, finitely many of which
\* a database holds; and its limits.
ASSUME PathsAssumption ==
    /\ GraphPath \subseteq Seq(Assertion) \ {<< >>}
    /\ IsFiniteSet(Assertion) /\ Limit \in Nat /\ MaxExact \in Nat
    /\ Pool \in Nat /\ Limit <= Pool

VARIABLE part      \* the component the behaviour is about
VARIABLES qLog, qItem, qMut, qFin, qJob, qPhase, qTodo, qFaults
VARIABLES aDoc, aRev, aMutations, aReceipt, aUpload, aChunking
VARIABLES iCalled, iRedirect, iAlias, iExt, iForgot
VARIABLES wRow, wVec, wGraph, wErased, wJob, wMigrating, wFaults
VARIABLES lSql, lVec, lGraph, lQueued, lMigrating, lIns, lPurge, lAt, lFaults
VARIABLES rMem, rCommits, rVec, rGraph, rCached, rConn, rScopes, rVersion, rOwner,
          rSearch, rMade, rDone, rFaults
VARIABLES tMain, tBackup, tNew, tAlign, tBegan, tKept, tExposed, tFaults
VARIABLES gDisk, gWork, gOpen, gKnownN, gKnownA, gStagedN, gStagedA, gUp,
          gOperational, gTask, gFaults
VARIABLES kGraph, kWalk, kChanges, kWalks
VARIABLES mOp, mApproval, mPolicy, mEnabled, mBreaker, mAt, mV4, mAllowed,
          mRequests, mFaults
VARIABLES dLine, dAbout, dReceipt, dTorn, dQuarantined, dNode, dWorker, dDeferred,
          dFaults
VARIABLES sRoot, sLock, sProc, sLate, sStaging, sTool, sBackup, sRestored, sFaults
VARIABLES fDisk, fJournal, fLock, fRun, fServing, fStored, fUnread, fFaults

queue == <<qLog, qItem, qMut, qFin, qJob, qPhase, qTodo, qFaults>>
admission == <<aDoc, aRev, aMutations, aReceipt, aUpload, aChunking>>
identity == <<iCalled, iRedirect, iAlias, iExt, iForgot>>
wal == <<wRow, wVec, wGraph, wErased, wJob, wMigrating, wFaults>>
legacy == <<lSql, lVec, lGraph, lQueued, lMigrating, lIns, lPurge, lAt, lFaults>>
retrieval == <<rMem, rCommits, rVec, rGraph, rCached, rConn, rScopes, rVersion,
               rOwner, rSearch, rMade, rDone, rFaults>>
tables == <<tMain, tBackup, tNew, tAlign, tBegan, tKept, tExposed, tFaults>>
store == <<gDisk, gWork, gOpen, gKnownN, gKnownA, gStagedN, gStagedA, gUp,
           gOperational, gTask, gFaults>>
walk == <<kGraph, kWalk, kChanges, kWalks>>
gateway == <<mOp, mApproval, mPolicy, mEnabled, mBreaker, mAt, mV4, mAllowed,
             mRequests, mFaults>>
letters == <<dLine, dAbout, dReceipt, dTorn, dQuarantined, dNode, dWorker,
             dDeferred, dFaults>>
root == <<sRoot, sLock, sProc, sLate, sStaging, sTool, sBackup, sRestored, sFaults>>
migration == <<fDisk, fJournal, fLock, fRun, fServing, fStored, fUnread, fFaults>>
vars == <<part, queue, admission, identity, wal, legacy, retrieval, tables, store,
                walk, gateway, letters, root, migration>>

Queue == INSTANCE DispatchQueue WITH
    MaxAttempts <- QueueAttempts, RetryLimit <- QueueRetries, FaultLimit <- QueueFaults,
    log <- qLog, item <- qItem, mut <- qMut, fin <- qFin, job <- qJob, phase <-
    qPhase, todo <- qTodo, faults <- qFaults
Admission == INSTANCE Admission WITH
    Chunking <- Chunkings,
    doc <- aDoc, rev <- aRev, mutations <- aMutations, receipt <- aReceipt, upload
    <- aUpload, chunking <- aChunking
Identity == INSTANCE EntityIdentity WITH
    called <- iCalled, redirect <- iRedirect, alias <- iAlias, ext <- iExt, forgot
    <- iForgot
Wal == INSTANCE VectorWal WITH
    Replayer <- Process, FaultLimit <- WalFaults,
    row <- wRow, vec <- wVec, graph <- wGraph, erased <- wErased, job <- wJob,
    migrating <- wMigrating, faults <- wFaults
Legacy == INSTANCE LegacyStore WITH
    FaultLimit <- LegacyFaults,
    sql <- lSql, vec <- lVec, graph <- lGraph, queued <- lQueued, migrating <-
    lMigrating, ins <- lIns, purge <- lPurge, at <- lAt, faults <- lFaults
Retrieval == INSTANCE Retrieval WITH
    SubjectOf <- TopicOf, Scope <- SearchScope, Path <- GraphPath, MaxSeeds <- SearchSeeds,
    FaultLimit <- RetrievalFaults,
    mem <- rMem, commits <- rCommits, vec <- rVec, graph <- rGraph, cached <-
    rCached, conn <- rConn, scopes <- rScopes, version <- rVersion, owner <- rOwner,
    search <- rSearch, made <- rMade, done <- rDone, faults <- rFaults
Tables == INSTANCE VectorTables WITH
    Node <- Vector, FaultLimit <- TableFaults,
    main <- tMain, backup <- tBackup, new <- tNew, align <- tAlign, began <- tBegan,
    kept <- tKept, exposed <- tExposed, faults <- tFaults
Store == INSTANCE GraphStore WITH
    Entity <- Node, Assertion <- Triple, FaultLimit <- StoreFaults,
    disk <- gDisk, work <- gWork, open <- gOpen, knownN <- gKnownN, knownA <-
    gKnownA, stagedN <- gStagedN, stagedA <- gStagedA, up <- gUp, operational <-
    gOperational, task <- gTask, faults <- gFaults
Walk == INSTANCE GraphWalk WITH
    Entity <- Vector, Assertion <- Edge, Scope <- WalkScope,
    SubjectOf <- EdgeFrom, ObjectOf <- EdgeTo,
    graph <- kGraph, walk <- kWalk, changes <- kChanges, walks <- kWalks
Gateway == INSTANCE Gateway WITH
    Worker <- Approver, Forget <- Forgetting, FaultLimit <- GatewayFaults,
    op <- mOp, approval <- mApproval, policy <- mPolicy, enabled <- mEnabled,
    breaker <- mBreaker, at <- mAt, v4 <- mV4, allowed <- mAllowed, requests <-
    mRequests, faults <- mFaults
Letters == INSTANCE DeadLetters WITH
    FaultLimit <- LetterFaults,
    line <- dLine, about <- dAbout, receipt <- dReceipt, torn <- dTorn, quarantined
    <- dQuarantined, node <- dNode, worker <- dWorker, deferred <- dDeferred, faults
    <- dFaults
Root == INSTANCE StorageRoot WITH
    FaultLimit <- RootFaults,
    root <- sRoot, lock <- sLock, proc <- sProc, late <- sLate, staging <- sStaging,
    tool <- sTool, backup <- sBackup, restored <- sRestored, faults <- sFaults
Migration == INSTANCE GraphMigration WITH
    Tool <- Process, FaultLimit <- MigrationFaults,
    disk <- fDisk, journal <- fJournal, lock <- fLock, run <- fRun, serving <-
    fServing, stored <- fStored, unread <- fUnread, faults <- fFaults

-----------------------------------------------------------------------------
Init == /\ part \in Parts
        /\ Queue!Init /\ Admission!Init /\ Identity!Init /\ Wal!Init
        /\ Legacy!Init /\ Retrieval!Init /\ Tables!Init /\ Store!Init
        /\ Walk!Init /\ Gateway!Init /\ Letters!Init /\ Root!Init /\ Migration!Init
        /\ part # "admission" => aChunking = CHOOSE m \in Chunkings : TRUE
        /\ part # "retrieval" => rCached
        /\ part # "migration" => fDisk["live"] = None
        /\ part # "gateway" => mPolicy = "ALLOW"
        /\ part # "letters" => \A m \in Memory : dNode[m].st = "absent" /\ ~dNode[m].waits

StillQueue == UNCHANGED <<part, admission, identity, wal, legacy, retrieval, tables, store,
                      walk, gateway, letters, root, migration>>
StillAdmission == UNCHANGED <<part, queue, identity, wal, legacy, retrieval, tables, store, walk,
                      gateway, letters, root, migration>>
StillIdentity == UNCHANGED <<part, queue, admission, wal, legacy, retrieval, tables, store, walk,
                      gateway, letters, root, migration>>
StillWal == UNCHANGED <<part, queue, admission, identity, legacy, retrieval, tables, store,
                      walk, gateway, letters, root, migration>>
StillLegacy == UNCHANGED <<part, queue, admission, identity, wal, retrieval, tables, store,
                      walk, gateway, letters, root, migration>>
StillRetrieval == UNCHANGED <<part, queue, admission, identity, wal, legacy, tables, store, walk,
                      gateway, letters, root, migration>>
StillTables == UNCHANGED <<part, queue, admission, identity, wal, legacy, retrieval, store,
                      walk, gateway, letters, root, migration>>
StillStore == UNCHANGED <<part, queue, admission, identity, wal, legacy, retrieval, tables,
                      walk, gateway, letters, root, migration>>
StillWalk == UNCHANGED <<part, queue, admission, identity, wal, legacy, retrieval, tables,
                      store, gateway, letters, root, migration>>
StillGateway == UNCHANGED <<part, queue, admission, identity, wal, legacy, retrieval, tables,
                      store, walk, letters, root, migration>>
StillLetters == UNCHANGED <<part, queue, admission, identity, wal, legacy, retrieval, tables,
                      store, walk, gateway, root, migration>>
StillRoot == UNCHANGED <<part, queue, admission, identity, wal, legacy, retrieval, tables,
                      store, walk, gateway, letters, migration>>
StillMigration == UNCHANGED <<part, queue, admission, identity, wal, legacy, retrieval, tables,
                      store, walk, gateway, letters, root>>

\* The fairness of DispatchQueue, in the behaviours that are about it.
QueueStep(A) == part = "queue" /\ A /\ StillQueue
QueueConsume == QueueStep(Queue!Consume)
QueueExpire(r) == QueueStep(Queue!Expire(r))
QueueSession == QueueStep(Queue!ExpireSession)
Fairness == /\ WF_queue(QueueConsume) /\ WF_queue(QueueSession)
            /\ \A r \in Record : WF_queue(QueueExpire(r))
NextQueue == part = "queue" /\ Queue!Next /\ StillQueue
NextAdmission == part = "admission" /\ Admission!Next /\ StillAdmission
NextIdentity == part = "identity" /\ Identity!Next /\ StillIdentity
NextWal == part = "wal" /\ Wal!Next /\ StillWal
NextLegacy == part = "legacy" /\ Legacy!Next /\ StillLegacy
NextRetrieval == part = "retrieval" /\ Retrieval!Next /\ StillRetrieval
NextTables == part = "tables" /\ Tables!Next /\ StillTables
NextStore == part = "store" /\ Store!Next /\ StillStore
NextWalk == part = "walk" /\ Walk!Next /\ StillWalk
NextGateway == part = "gateway" /\ Gateway!Next /\ StillGateway
NextLetters == part = "letters" /\ Letters!Next /\ StillLetters
NextRoot == part = "root" /\ Root!Next /\ StillRoot
NextMigration == part = "migration" /\ Migration!Next /\ StillMigration
Next == NextQueue \/ NextAdmission \/ NextIdentity \/ NextWal \/ NextLegacy \/
        NextRetrieval \/ NextTables \/ NextStore \/ NextWalk \/ NextGateway \/
        NextLetters \/ NextRoot \/ NextMigration
Spec == Init /\ [][Next]_vars /\ Fairness

-----------------------------------------------------------------------------
(* Each property is stated, and described, in the module of its component; at
   the initial values of the other components it holds. *)

\* Every variable of every component has its type: rows, journals, tables and
\* caches of dao.py, vector_engine.py and sqlite_engine.py.
TypeOK == /\ part \in Parts
          /\ CASE part = "queue" -> Queue!TypeOK
               [] part = "admission" -> Admission!TypeOK
               [] part = "identity" -> Identity!TypeOK
               [] part = "wal" -> Wal!TypeOK
               [] part = "legacy" -> Legacy!TypeOK
               [] part = "retrieval" -> Retrieval!TypeOK
               [] part = "tables" -> Tables!TypeOK
               [] part = "store" -> Store!TypeOK
               [] part = "walk" -> Walk!TypeOK
               [] part = "gateway" -> Gateway!TypeOK
               [] part = "letters" -> Letters!TypeOK
               [] part = "root" -> Root!TypeOK
               [] part = "migration" -> Migration!TypeOK

\* Dispatch rows, raw logs and memories never contradict one another
\* (dao.py:10960-11096, 10497-10524).
SettledAgree == Queue!SettledAgree
\* An admission stays within the budget of records and bytes (dao.py:9909).
AdmissionKeepsBudget == Queue!AdmissionKeepsBudget
\* A completed session has no undecided memory (dao.py:10335).
CompleteMeansDecided == Queue!CompleteMeansDecided
\* Every dispatch is decided, whatever fails (ingestion_worker.py:138-350).  Once
\* they are admitted the records are alike, so that one of them stands for all.
DispatchSettles == Queue!Settles(CHOOSE r \in Record : TRUE)
\* Every session end is answered (dao.py:10215-10391).
SessionSettles == Queue!SessionSettles
\* The head of a document holds the whole text of one chunking plan
\* (v4_router.py:1256-1500, dao.py:3131).
HeadIsWhole == Admission!HeadIsWhole
\* A repeated request is admitted once (dao.py:2035-2078).
AdmittedOnce == Admission!AdmittedOnce
\* A frozen manifest does not change (dao.py:986-1224).
ManifestIsFinal == Admission!ManifestIsFinal
\* Merges and cleanups leave one entity per name (dao.py:1607-1891).
OneIdentity == Identity!OneIdentity
\* An acknowledged write of the log is in the stores (dao.py:10526-10828).
AckedIsStored == Wal!AckedIsStored
\* A finalized purge erased its targets (dao.py:9034-9234).
PurgeErases == Legacy!PurgeErases
\* A current memory has its vector (dao.py:8319-8746).
ActiveHasVector == Legacy!ActiveHasVector
\* A search answers from one moment of its scope (dao.py:5802-7824).
AnswersAreFresh == Retrieval!AnswersAreFresh
\* Temporary indexes and retained scopes match (dao.py:5856-5948).
TablesMatchScopes == Retrieval!TablesMatchScopes
\* An alignment loses no vector (vector_engine.py:1240-1679).
VectorsSurvive == Tables!VectorsSurvive
\* A rolled back alignment keeps the original table (vector_engine.py:1650).
RollbackKeepsOriginal == Tables!RollbackKeepsOriginal
\* No assertion of the graph lacks its entities (kuzu_provider.py:432-900).
GraphIsWhole == Store!GraphIsWhole
\* A walk returns the chains of its scope (kuzu_provider.py:1126-1580).
PathsAreChains == Walk!PathsAreChains
\* V4 receives only writes the policy or an operator let through
\* (mesa_mcp/gateway/operations.py:202-305).
WritesAreAuthorised == Gateway!WritesAreAuthorised
\* An operation reads COMMITTED only after V4 stored its write
\* (mesa_mcp/gateway/operations.py:606-736).
CommittedWasStored == Gateway!CommittedWasStored
\* No dead letter disappears before its memory is consolidated (loop.py:138-452).
LettersAreKept == Letters!LettersAreKept
\* Published backups and restored roots are whole (recovery.py:358-474).
PublishedIsWhole == Root!PublishedIsWhole
\* No migration of the graph loses it or lets a server serve another in its place
\* (kuzu_migration.py:85-421, kuzu_schema_migration.py:45-91).
GraphIsKept == Migration!GraphIsKept
=============================================================================
