----------------------------- MODULE Admission -----------------------------
(***************************************************************************)
(* Admission of memories into the catalog: revisions of a document, their  *)
(* immutable chunks, idempotent inserts, and the resumable upload of a     *)
(* whole document that admits its chunks one request after the other.      *)
(*                                                                         *)
(* One document in one dataset.  A revision of an upload is named by its   *)
(* content, so it is the content here; clients also insert into revisions  *)
(* of their own.  Every call of the storage layer is one transaction and   *)
(* a refused call changes nothing.  Queue capacity is in DispatchQueue.    *)
(***************************************************************************)
EXTENDS Naturals, FiniteSets, Sequences

CONSTANTS
    Content, DirectRev,      \* revisions: of uploads, and of single inserts
    Key, None,
    Plan,                    \* [Content -> [Chunking -> sequence of texts]]
    Chunking,                \* settings of MESA_CHUNKING
    Sent,                    \* payloads of single inserts and chunks
    MaxChunks, MaxNumber, MaxMutations     \* bounds

Revision == Content \cup DirectRev
Ordinal == 1..MaxChunks
UploadKey == Content \X Ordinal
VARIABLES doc, rev,      \* documents, document_revisions and source_chunks
          mutations,     \* admitted mutations, in order
          receipt,       \* v4_idempotency_receipts
          upload,        \* the request under document_admission_lock
          chunking       \* setting of the running process
vars == <<doc, rev, mutations, receipt, upload, chunking>>

NoRevision == [st |-> "none", num |-> 0, sup |-> None, frozen |-> FALSE,
               chunk |-> [o \in Ordinal |-> None]]
NoUpload == [step |-> "idle", rev |-> None, num |-> 0, sup |-> None,
             plan |-> << >>, sent |-> {}]
Init == /\ doc = "none"
        /\ rev = [r \in Revision |-> NoRevision]
        /\ mutations = << >>
        /\ receipt = [k \in Key \cup UploadKey |-> [hash |-> None, mut |-> 0]]
        /\ upload = NoUpload
        /\ chunking \in Chunking

Chunks(r) == {o \in Ordinal : rev[r].chunk[o] # None}
MutationsOf(r) == {i \in DOMAIN mutations : mutations[i].rev = r}
Active == {r \in Revision : rev[r].st = "ACTIVE"}

-----------------------------------------------------------------------------
(* Revisions                                                               *)

\* create_v4_revision's INSERT OR IGNORE and its check of what is stored: the
\* number is unique in the document, and so is the identity.
CanCreate(r, num, sup) ==
    /\ rev[r].st = "none"
    /\ sup # None => rev[sup].st # "none"
    /\ \A q \in Revision : rev[q].num # num
Created(num, sup) == [NoRevision EXCEPT !.st = "PENDING", !.num = num, !.sup = sup]

\* Nothing of the revision is undecided or lost, and every chunk is committed.
Complete(r, rows) ==
    LET own == {i \in DOMAIN rows : rows[i].rev = r}
    IN  /\ own # {}
        /\ \A i \in own : rows[i].st = "COMMITTED"
        /\ \A o \in Chunks(r) : \E i \in own : rows[i].ord = o

\* _reconcile_revision_activation_in_tx, on revisions `now` and mutations `rows`.
\* A conflict over the head raises: the transaction does not happen.
Due(r, now, rows) == now[r].st = "PENDING" /\ now[r].frozen /\ Complete(r, rows)
HeadFree(r, now) == IF now[r].sup # None THEN now[now[r].sup].st = "ACTIVE"
                    ELSE \A q \in Revision : now[q].st # "ACTIVE"
Activated(r, now, rows) ==
    [q \in Revision |->
        IF ~Due(r, now, rows) THEN now[q]
        ELSE IF q = r THEN [now[q] EXCEPT !.st = "ACTIVE"]
        ELSE IF q = now[r].sup THEN [now[q] EXCEPT !.st = "SUPERSEDED"] ELSE now[q]]
MayReconcile(r, now, rows) == Due(r, now, rows) => HeadFree(r, now)

ChunkOfOpen(p) == rev[p.rev].chunk[p.ord] \in {None, p.text}
\* The chunk is new in an open revision, or stored with the same content.
ChunkAllowed(p) ==
    /\ rev[p.rev].chunk[p.ord] \in {None, p.text}
    /\ rev[p.rev].st # "PENDING" \/ rev[p.rev].frozen => p.ord \in Chunks(p.rev)
Accepts(p) == IF rev[p.rev].st = "none"
              THEN CanCreate(p.rev, p.num, p.sup)
              ELSE rev[p.rev].num = p.num /\ rev[p.rev].sup = p.sup /\ ChunkAllowed(p)

\* The revision after the chunk is stored and, by the last chunk, frozen.
Stored(p) ==
    LET row == IF rev[p.rev].st = "none" THEN Created(p.num, p.sup) ELSE rev[p.rev]
    IN  [rev EXCEPT ![p.rev] = [row EXCEPT !.chunk[p.ord] = p.text,
           !.frozen = @ \/ (row.st = "PENDING" /\ p.last)]]

\* create_v4_source_chunk; unlike an insert it does not ask whether the
\* document was purged.
CreateChunk(p) ==
    LET now == Stored(p)
    IN  /\ Accepts(p)
        /\ p.last => MayReconcile(p.rev, now, mutations)
        /\ rev' = IF p.last THEN Activated(p.rev, now, mutations) ELSE now
        /\ doc' = IF doc = "none" THEN "ACTIVE" ELSE doc
        /\ UNCHANGED <<mutations, receipt, upload, chunking>>

-----------------------------------------------------------------------------
(* admit_v4_memory                                                         *)

FreshAlways(k) == TRUE
Fresh(k) == k \in DOMAIN receipt => receipt[k].hash = None
Duplicate(k, p) == k \in DOMAIN receipt /\ receipt[k].hash = p
CanInsert(k, p) == /\ Fresh(k)
                   /\ doc # "PURGED"
                   /\ Accepts(p)
                   /\ Len(mutations) < MaxMutations
Inserted(k, p) ==
    /\ rev' = Stored(p)      \* the new mutation is open: nothing to activate
    /\ doc' = "ACTIVE"
    /\ mutations' = Append(mutations, [rev |-> p.rev, ord |-> p.ord, key |-> k,
                                       text |-> p.text, st |-> "OPEN"])
    /\ receipt' = IF k = None THEN receipt
                  ELSE [receipt EXCEPT ![k] = [hash |-> p, mut |-> Len(mutations) + 1]]

\* The transaction of admit_v4_memory, but for a repeated key.
Admit(k, p) == CanInsert(k, p) /\ Inserted(k, p)
\* POST /memory/insert with a key or without one; a repeated key is answered
\* from its receipt and any refusal changes nothing.
Insert(k, p) == Admit(k, p) /\ UNCHANGED <<upload, chunking>>

-----------------------------------------------------------------------------
(* POST /documents: one upload at a time in the process                    *)

\* create_v4_document and list_v4_revisions
Latest == {rev[r].num : r \in Revision}
NextNumber == 1 + CHOOSE n \in Latest : \A m \in Latest : m <= n
UploadStart(c) ==
    /\ upload.step = "idle"
    /\ doc # "PURGED"
    /\ doc' = "ACTIVE"
    /\ \/ /\ rev[c].st = "PENDING"
          /\ upload' = [NoUpload EXCEPT !.step = "plan", !.rev = c,
                                        !.num = rev[c].num, !.sup = rev[c].sup]
       \/ /\ rev[c].st = "none" /\ NextNumber <= MaxNumber
          /\ upload' = [NoUpload EXCEPT !.step = "create", !.rev = c, !.num = NextNumber,
               !.sup = IF Active = {} THEN None ELSE CHOOSE r \in Active : TRUE]
    /\ UNCHANGED <<rev, mutations, receipt, chunking>>

\* create_v4_revision, with the number and predecessor read before.
UploadCreate ==
    /\ upload.step = "create"
    /\ doc # "PURGED"
    /\ CanCreate(upload.rev, upload.num, upload.sup)
    /\ rev' = [rev EXCEPT ![upload.rev] = Created(upload.num, upload.sup)]
    /\ upload' = [upload EXCEPT !.step = "plan"]
    /\ UNCHANGED <<doc, mutations, receipt, chunking>>

\* list_v4_revision_mutations; chunks admitted before pin the chunking plan,
\* and two plans that both match are not told apart.
Admitted(r) == {mutations[i].ord : i \in MutationsOf(r)}
Matches(plan, r) == \A i \in MutationsOf(r) :
    mutations[i].ord \in DOMAIN plan /\ plan[mutations[i].ord] = mutations[i].text
Preferred(c) == Plan[c][chunking]
Others(c) == {Plan[c][m] : m \in Chunking \ {chunking}}
UsableAsConfigured(c) == {Preferred(c)}
Usable(c) == IF MutationsOf(c) = {} THEN {Preferred(c)}
             ELSE LET fit == {plan \in {Preferred(c)} \cup Others(c) : Matches(plan, c)}
                  IN  IF Cardinality(fit) = 1 THEN fit ELSE {}
UploadPlan ==
    /\ upload.step = "plan"
    /\ \E plan \in Usable(upload.rev) :
          upload' = [upload EXCEPT !.step = "send", !.plan = plan,
                                   !.sent = Admitted(upload.rev)]
    /\ UNCHANGED <<doc, rev, mutations, receipt, chunking>>

\* insert_memory for the next chunk, its key the chunk's identifier; the last
\* chunk of the plan freezes the revision.
Remaining == DOMAIN upload.plan \ upload.sent
LastOfPlan(o) == o = Len(upload.plan)
UploadSend ==
    /\ upload.step = "send" /\ Remaining # {}
    /\ LET o == CHOOSE n \in Remaining : \A m \in Remaining : n <= m
           key == <<upload.rev, o>>
           p == [rev |-> upload.rev, num |-> upload.num, sup |-> upload.sup, ord |-> o,
                 text |-> upload.plan[o], last |-> LastOfPlan(o)]
       IN  /\ \/ Admit(key, p)
              \/ Duplicate(key, p) /\ UNCHANGED <<doc, rev, mutations, receipt>>
           /\ upload' = [upload EXCEPT !.sent = @ \cup {o}]
    /\ UNCHANGED chunking

\* Answered, refused, disconnected or out of patience with a full queue.
UploadEnd == /\ upload.step # "idle"
             /\ upload' = NoUpload
             /\ UNCHANGED <<doc, rev, mutations, receipt, chunking>>

\* A new process, perhaps with another chunking setting.
Restart == /\ upload' = NoUpload
           /\ chunking' \in Chunking
           /\ UNCHANGED <<doc, rev, mutations, receipt>>

-----------------------------------------------------------------------------
(* What the rest of the system does to a mutation (ProjectionPipeline)     *)

Commit(i) ==
    LET rows == [mutations EXCEPT ![i].st = "COMMITTED"]
        r == mutations[i].rev
    IN  /\ mutations[i].st = "OPEN"
        /\ MayReconcile(r, rev, rows)
        /\ mutations' = rows
        /\ rev' = Activated(r, rev, rows)
        /\ UNCHANGED <<doc, receipt, upload, chunking>>

\* The validator rejects it, or its attempts run out.
Reject(i) == /\ mutations[i].st = "OPEN"
             /\ mutations' = [mutations EXCEPT ![i].st = "DEAD"]
             /\ UNCHANGED <<doc, rev, receipt, upload, chunking>>

\* purge_v4_document: the source text of every admission is erased.
Purge == /\ doc = "ACTIVE"
         /\ doc' = "PURGED"
         /\ rev' = [r \in Revision |-> IF rev[r].st = "none" THEN rev[r]
                       ELSE [rev[r] EXCEPT !.st = "PURGED"]]
         /\ mutations' = [i \in DOMAIN mutations |-> [mutations[i] EXCEPT !.st = "PURGED"]]
         /\ UNCHANGED <<receipt, upload, chunking>>

Upload == UploadCreate \/ UploadPlan \/ UploadSend \/ UploadEnd
          \/ \E c \in Content : UploadStart(c)
Settle == \E i \in DOMAIN mutations : Commit(i) \/ Reject(i)
Direct == \E p \in Sent :
             CreateChunk(p) \/ \E k \in Key \cup {None} : Insert(k, p)
Next == Upload \/ Direct \/ Settle \/ Restart \/ Purge
Spec == Init /\ [][Next]_vars

-----------------------------------------------------------------------------
TypeOK == /\ doc \in {"none", "ACTIVE", "PURGED"}
          /\ \A r \in Revision :
                /\ rev[r].st \in {"none", "PENDING", "ACTIVE", "SUPERSEDED", "PURGED"}
                /\ DOMAIN rev[r].chunk = Ordinal /\ rev[r].num \in 0..MaxNumber
          /\ \A i \in DOMAIN mutations :
                mutations[i].st \in {"OPEN", "COMMITTED", "DEAD", "PURGED"}

\* However an upload is interrupted, resumed under another chunking setting or
\* mixed with other clients' inserts, the revision that becomes the head of the
\* document holds the whole text under one plan, every chunk of it committed.
HeadIsWhole == \A c \in Content : rev[c].st = "ACTIVE" =>
    /\ \E m \in Chunking : /\ DOMAIN Plan[c][m] = Chunks(c)
                           /\ \A o \in Chunks(c) : rev[c].chunk[o] = Plan[c][m][o]
    /\ \A o \in Chunks(c) : \E i \in MutationsOf(c) :
          mutations[i].ord = o /\ mutations[i].st = "COMMITTED"

\* The same request, sent again after any failure, is admitted once: a key
\* stands for one mutation and one payload, and names it for ever.
AdmittedOnce ==
    /\ \A i, j \in DOMAIN mutations :
          mutations[i].key # None /\ mutations[i].key = mutations[j].key => i = j
    /\ \A k \in DOMAIN receipt : receipt[k].hash # None =>
          /\ mutations[receipt[k].mut].key = k
          /\ mutations[receipt[k].mut].text = receipt[k].hash.text
    /\ \A c \in Content, o \in Ordinal :
          Cardinality({i \in MutationsOf(c) : mutations[i].ord = o}) <= 1

\* A frozen revision keeps its manifest: no later chunk, insert or upload
\* changes what was committed to.
ManifestIsFinal == [][\A r \in Revision : rev[r].frozen =>
    rev'[r].frozen /\ rev'[r].chunk = rev[r].chunk]_vars
=============================================================================
