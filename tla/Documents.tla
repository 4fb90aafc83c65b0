----------------------------- MODULE Documents -----------------------------
(***************************************************************************)
(* The life of a document (app/routers/documents.py, services/ingest.py)   *)
(* and the answers cached over the corpus it belongs to (services/cache.py *)
(* as services/pipeline.py uses it).                                       *)
(*                                                                         *)
(* Three tasks touch one document: the upload request, the background task *)
(* that indexes it, and a delete request.  They share the documents and    *)
(* chunks rows, the stored file and the cached answers, none of which are  *)
(* changed in one transaction with another.  Questions run beside them.    *)
(* Every step is one await, or the code between two of them.               *)
(***************************************************************************)
EXTENDS Integers, FiniteSets

CONSTANTS
    Document,       \* uploads that may ever happen; an accepted one is a row
    User,           \* accounts
    Owner,          \* Owner[d]: the account that uploads d
    Pages,          \* Pages[d]: pages of the file
    Readable,       \* documents whose file is a PDF with text
    Removable,      \* documents somebody may ask to delete (a bound)
    Question,       \* questions that may ever be asked
    Asker,          \* Asker[q]: who asks q
    All,            \* the scope of a question over every document (NULL)
    NoUpload,       \* "nobody" as a lock holder
    DocumentLimit,  \* settings.unverified_quota_documents; 0 is off
    PageLimit,      \* settings.unverified_quota_pages; 0 is off
    MonthlyPages,   \* settings.quota_upload_pages_per_month; 0 is off
    MaxPages,       \* settings.max_upload_pages
    Faults          \* the kinds of failure that may happen

(***************************************************************************)
(* upload   the commit that accepts an upload fails, or its file is not    *)
(*          written (documents.py:176, 183)                                *)
(* index    parsing, a model server or the commit of the chunks fails      *)
(* tail     usage.record or the invalidation after that commit fails       *)
(* handler  the failure handler of the indexing task fails itself          *)
(* remove   the commit of a deletion fails; the file cannot be removed     *)
(* answer   a question fails while it is being answered                    *)
(* crash    the process running a task dies                                *)
(***************************************************************************)
FaultKinds == {"upload", "index", "tail", "handler", "remove", "answer", "crash"}

ASSUME DocumentsOK ==
    /\ IsFiniteSet(Document) /\ NoUpload \notin Document /\ All \notin Document
    /\ Owner \in [Document -> User]
    /\ Pages \in [Document -> Nat]
    /\ Readable \subseteq Document /\ Removable \subseteq Document
    /\ Asker \in [Question -> User]
    /\ {DocumentLimit, PageLimit, MonthlyPages, MaxPages} \subseteq Nat
    /\ Faults \subseteq FaultKinds

VARIABLES
    verified,  \* verified[u]: users.email_verified_at is set
    row,       \* row[d]: documents.status, "none" before and "deleted" after
    chunks,    \* documents that have rows in chunks
    files,     \* documents whose file is in settings.storage_dir
    accepted,  \* documents with a usage_events row of kind "upload"
    ingested,  \* documents with a usage_events row of kind "ingest"
    lock,      \* lock[u]: the upload inside u's advisory lock, or NoUpload
    upload,    \* upload[d]: how far the upload request got
    taster,    \* taster[d]: its User object was loaded unverified
    index,     \* index[d]: how far index_document got
    remove,    \* remove[d]: how far the delete request got
    cached,    \* rows of query_cache
    asked,     \* asked[q]: how far question q got
    probe      \* probe[q]: its scope, the chunks it saw, and whether an
               \* invalidation overtook it since it began to look

documents == <<row, chunks, files>>
ledger    == <<accepted, ingested>>
tasks     == <<upload, taster, index, remove>>
questions == <<asked, probe>>
vars == <<verified, documents, ledger, lock, tasks, cached, questions>>

Statuses == {"none", "pending", "processing", "ready", "failed", "deleted"}
UploadPC == {"idle", "read", "lock", "count", "commit", "refresh", "write",
             "accepted", "refused", "failed"}
IndexPC  == {"none", "load", "claim", "extract", "store", "charge",
             "invalidate", "fail", "done", "dead"}
RemovePC == {"idle", "commit", "discard", "invalidate", "done", "dead"}
AskPC    == {"idle", "lookup", "sparse", "store", "ended"}

Live(d) == row[d] \notin {"none", "deleted"}
Scopes == {All} \cup {d \in Document : Live(d)}
DocumentsOf(u) == {d \in Document : Owner[d] = u}

\* A cached answer: whose, over which scope, from which documents' chunks, and
\* whether an invalidation ran between its retrieval and its insertion.
Answers == [user : User, scope : Document \cup {All}, seen : SUBSET Document,
            overtaken : BOOLEAN]

\* A question that is looking at nothing (yet, or any more).
NoProbe == [scope |-> All, seen |-> {}, overtaken |-> FALSE]

\* What a question leaves behind that was asked before u's first upload.
EarlyAnswer(u) == [user |-> u, scope |-> All, seen |-> {}, overtaken |-> FALSE]

Init ==
    /\ verified \in [User -> BOOLEAN]
    /\ row = [d \in Document |-> "none"]
    /\ chunks = {} /\ files = {}
    /\ accepted = {} /\ ingested = {}
    /\ lock = [u \in User |-> NoUpload]
    /\ upload = [d \in Document |-> "idle"]
    /\ taster = [d \in Document |-> FALSE]
    /\ index = [d \in Document |-> "none"]
    /\ remove = [d \in Document |-> "idle"]
    /\ cached \in SUBSET {EarlyAnswer(u) : u \in User}
    /\ asked = [q \in Question |-> "idle"]
    /\ probe = [q \in Question |-> NoProbe]

-----------------------------------------------------------------------------
(***************************************************************************)
(* The gates of services/usage.py, counted over committed rows.            *)
(***************************************************************************)
\* What the sums over usage_events.pages come to: the pages of the files of S
\* that are PDFs with text, counted one by one.
PagesIn(S) == Cardinality(UNION {{d} \X (1 .. Pages[d]) : d \in S \cap Readable})

\* Faulty: counts the documents that still exist.
UploadsAlive(u) == {d \in DocumentsOf(u) : d \in accepted /\ Live(d)}

\* documents_total, pages_uploaded_total: accepted uploads, deleted or not.
Uploads(u) == accepted \cap DocumentsOf(u)

TooManyDocuments(u) == DocumentLimit > 0 /\ Cardinality(Uploads(u)) >= DocumentLimit

TooManyPages(u, incoming) ==
    PageLimit > 0 /\ PagesIn(Uploads(u)) + incoming > PageLimit

MonthExceeded(u, incoming) ==
    MonthlyPages > 0 /\ PagesIn(ingested \cap DocumentsOf(u)) + incoming > MonthlyPages

-----------------------------------------------------------------------------
(***************************************************************************)
(* upload_document                                                         *)
(***************************************************************************)
UploadGoes(d, step) == upload' = [upload EXCEPT ![d] = step]

\* Authentication loads the user; content type and rate limiter may refuse; an
\* unverified account is measured once before the file is read.
Arrive(d) ==
    /\ upload[d] = "idle"
    /\ taster' = [taster EXCEPT ![d] = ~verified[Owner[d]]]
    /\ \/ UploadGoes(d, "refused")
       \/ UploadGoes(d, IF taster'[d] /\ TooManyDocuments(Owner[d])
                        THEN "refused" ELSE "read")
    /\ UNCHANGED <<verified, documents, ledger, lock, index, remove, cached,
                   questions>>

\* file.read() and the two absolute caps.
ReadFile(d) ==
    /\ upload[d] = "read"
    /\ UploadGoes(d, IF d \in Readable /\ Pages[d] > MaxPages THEN "refused" ELSE "lock")
    /\ UNCHANGED <<verified, documents, ledger, lock, taster, index, remove,
                   cached, questions>>

\* acquire_quota_lock; its sweep finds no upload row, they are born settled.
TakeLock(d) ==
    /\ upload[d] = "lock"
    /\ lock[Owner[d]] = NoUpload
    /\ lock' = [lock EXCEPT ![Owner[d]] = d]
    /\ UploadGoes(d, "count")
    /\ UNCHANGED <<verified, documents, ledger, taster, index, remove, cached,
                   questions>>

Unlocked(d) == [lock EXCEPT ![Owner[d]] = NoUpload]

\* The counts under the lock; a refusal rolls back, which releases it.
Count(d) ==
    /\ upload[d] = "count"
    /\ IF \/ taster[d] /\ TooManyDocuments(Owner[d])
          \/ d \in Readable /\ taster[d] /\ TooManyPages(Owner[d], Pages[d])
          \/ d \in Readable /\ MonthExceeded(Owner[d], Pages[d])
       THEN UploadGoes(d, "refused") /\ lock' = Unlocked(d)
       ELSE UploadGoes(d, "commit") /\ UNCHANGED lock
    /\ UNCHANGED <<verified, documents, ledger, taster, index, remove, cached,
                   questions>>

\* Faulty: the usage row is left out.
AcceptUnbilled(d) ==
    /\ upload[d] = "commit"
    /\ lock' = Unlocked(d)
    /\ row' = [row EXCEPT ![d] = "pending"]
    /\ UploadGoes(d, "refresh")
    /\ UNCHANGED <<verified, chunks, files, ledger, taster, index, remove,
                   cached, questions>>

\* The document and its usage row are one commit.
Accept(d) ==
    /\ upload[d] = "commit"
    /\ lock' = Unlocked(d)
    /\ \/ /\ row' = [row EXCEPT ![d] = "pending"]
          /\ accepted' = accepted \cup {d}
          /\ UploadGoes(d, "refresh")
       \/ /\ "upload" \in Faults
          /\ UploadGoes(d, "failed")
          /\ UNCHANGED <<row, accepted>>
    /\ UNCHANGED <<verified, chunks, files, ingested, taster, index, remove,
                   cached, questions>>

\* session.refresh(doc) raises when the row is gone again.
Refresh(d) ==
    /\ upload[d] = "refresh"
    /\ UploadGoes(d, IF Live(d) THEN "write" ELSE "failed")
    /\ UNCHANGED <<verified, documents, ledger, lock, taster, index, remove,
                   cached, questions>>

\* The file is written and the indexing task scheduled.
WriteFile(d) ==
    /\ upload[d] = "write"
    /\ \/ /\ files' = files \cup {d}
          /\ index' = [index EXCEPT ![d] = "load"]
          /\ UploadGoes(d, "accepted")
       \/ /\ "upload" \in Faults
          /\ UploadGoes(d, "failed")
          /\ UNCHANGED <<files, index>>
    /\ UNCHANGED <<verified, row, chunks, ledger, lock, taster, remove, cached,
                   questions>>

-----------------------------------------------------------------------------
(***************************************************************************)
(* index_document                                                          *)
(***************************************************************************)
IndexGoes(d, step) == index' = [index EXCEPT ![d] = step]

\* An exception inside the try block.
IndexRaises(d, fault) ==
    /\ fault \in Faults
    /\ IndexGoes(d, "fail")
    /\ UNCHANGED <<row, chunks, ingested, cached>>

\* session.get finds the row, or the task returns.
Load(d) ==
    /\ index[d] = "load"
    /\ IndexGoes(d, IF Live(d) THEN "claim" ELSE "done")
    /\ UNCHANGED <<verified, documents, ledger, lock, upload, taster, remove,
                   cached, questions>>

\* "processing" is committed outside the try block: an UPDATE that matches no
\* row raises out of the task.
Claim(d) ==
    /\ index[d] = "claim"
    /\ IF Live(d)
       THEN row' = [row EXCEPT ![d] = "processing"] /\ IndexGoes(d, "extract")
       ELSE IndexGoes(d, "dead") /\ UNCHANGED row
    /\ UNCHANGED <<verified, chunks, files, ledger, lock, upload, taster, remove,
                   cached, questions>>

\* Parsing and chunking need the file and its text; the embedding server gives
\* a vector per chunk or the task raises (UpstreamUnavailable).
ExtractAndEmbed(d) ==
    /\ index[d] = "extract"
    /\ \/ IndexGoes(d, IF d \in files /\ d \in Readable THEN "store" ELSE "fail")
       \/ "index" \in Faults /\ IndexGoes(d, "fail")
    /\ UNCHANGED <<verified, documents, ledger, lock, upload, taster, remove,
                   cached, questions>>

\* Faulty: the chunks of a document deleted meanwhile are kept.
StoreChunksBlindly(d) ==
    /\ index[d] = "store"
    /\ chunks' = chunks \cup {d}
    /\ row' = [row EXCEPT ![d] = IF Live(d) THEN "ready" ELSE @]
    /\ IndexGoes(d, "charge")
    /\ UNCHANGED <<verified, ledger, files, lock, upload, taster, remove, questions,
                   cached>>

\* Chunks and "ready" are one commit; it raises when the document is gone.
StoreChunks(d) ==
    /\ index[d] = "store"
    /\ \/ /\ Live(d)
          /\ chunks' = chunks \cup {d}
          /\ row' = [row EXCEPT ![d] = "ready"]
          /\ IndexGoes(d, "charge")
          /\ UNCHANGED <<ingested, cached>>
       \/ /\ ~Live(d)
          /\ IndexGoes(d, "fail")
          /\ UNCHANGED <<row, chunks, ingested, cached>>
       \/ IndexRaises(d, "index")
    /\ UNCHANGED <<verified, files, accepted, lock, upload, taster, remove, questions>>

\* usage.record: the pages count against the month from here on.
Charge(d) ==
    /\ index[d] = "charge"
    /\ \/ /\ ingested' = ingested \cup {d}
          /\ IndexGoes(d, "invalidate")
          /\ UNCHANGED <<row, chunks, cached>>
       \/ IndexRaises(d, "tail")
    /\ UNCHANGED <<verified, files, accepted, lock, upload, taster, remove, questions>>

\* invalidate_corpus_wide: the answers of u over all documents go; those still
\* being computed are overtaken.
DropCorpusWide(u) ==
    /\ cached' = {a \in cached : ~(a.user = u /\ a.scope = All)}
    /\ probe' = [q \in Question |->
                   IF Asker[q] = u /\ asked[q] \in {"sparse", "store"}
                   THEN [probe[q] EXCEPT !.overtaken = TRUE] ELSE probe[q]]

InvalidateIndexed(d) ==
    /\ index[d] = "invalidate"
    /\ \/ DropCorpusWide(Owner[d]) /\ IndexGoes(d, "done") /\ UNCHANGED <<row, chunks, ingested>>
       \/ IndexRaises(d, "tail") /\ UNCHANGED probe
    /\ UNCHANGED <<verified, files, accepted, lock, upload, taster, remove, asked>>

\* Faulty: the failed task leaves its document as it was.
FailQuietly(d) ==
    /\ index[d] = "fail"
    /\ IndexGoes(d, "done")
    /\ UNCHANGED <<verified, documents, ledger, lock, upload, taster, remove,
                   cached, questions>>

\* The except block: the row is loaded again and marked, if it still exists.
FailIndexing(d) ==
    /\ index[d] = "fail"
    /\ \/ /\ row' = [row EXCEPT ![d] = IF Live(d) THEN "failed" ELSE @]
          /\ IndexGoes(d, "done")
       \/ /\ "handler" \in Faults
          /\ IndexGoes(d, "dead")
          /\ UNCHANGED row
    /\ UNCHANGED <<verified, chunks, files, ledger, lock, upload, taster, remove,
                   cached, questions>>

-----------------------------------------------------------------------------
(***************************************************************************)
(* delete_document                                                         *)
(***************************************************************************)
RemoveGoes(d, step) == remove' = [remove EXCEPT ![d] = step]

\* get_document answers 404 for a document that is not there.
Find(d) ==
    /\ remove[d] = "idle"
    /\ d \in Removable /\ Live(d)
    /\ RemoveGoes(d, "commit")
    /\ UNCHANGED <<verified, documents, ledger, lock, upload, taster, index,
                   cached, questions>>

\* Chunks and the document's own cached answers cascade with the row.
Remove(d) ==
    /\ remove[d] = "commit"
    /\ \/ /\ row' = [row EXCEPT ![d] = "deleted"]
          /\ chunks' = chunks \ {d}
          /\ cached' = {a \in cached : a.scope # d}
          /\ RemoveGoes(d, "discard")
       \/ /\ "remove" \in Faults
          /\ RemoveGoes(d, "idle")
          /\ UNCHANGED <<row, chunks, cached>>
    /\ UNCHANGED <<verified, files, ledger, lock, upload, taster, index, questions>>

\* _discard_stored_file never fails the request.
Discard(d) ==
    /\ remove[d] = "discard"
    /\ files' \in IF "remove" \in Faults THEN {files, files \ {d}} ELSE {files \ {d}}
    /\ RemoveGoes(d, "invalidate")
    /\ UNCHANGED <<verified, row, chunks, ledger, lock, upload, taster, index,
                   cached, questions>>

\* Faulty: a deletion trusts the cascade.
InvalidateNothing(d) ==
    /\ remove[d] = "invalidate"
    /\ RemoveGoes(d, "done")
    /\ UNCHANGED <<verified, documents, ledger, lock, upload, taster, index,
                   cached, questions>>

InvalidateRemoved(d) ==
    /\ remove[d] = "invalidate"
    /\ DropCorpusWide(Owner[d])
    /\ RemoveGoes(d, "done")
    /\ UNCHANGED <<verified, documents, ledger, lock, upload, taster, index, asked>>

-----------------------------------------------------------------------------
(***************************************************************************)
(* Questions: resolve_scope, cached_answer, retrieve and the cache.store   *)
(* of finalize.  Admission and settlement are module QueryPipeline's.      *)
(***************************************************************************)
AskGoes(q, step) == asked' = [asked EXCEPT ![q] = step]

\* The response is sent, or the error; the runner is gone.
AskEnds(q) == AskGoes(q, "ended") /\ probe' = [probe EXCEPT ![q] = NoProbe]

Ask(q) ==
    /\ asked[q] = "idle"
    /\ \E s \in DocumentsOf(Asker[q]) \cup {All} :
          /\ s # All => row[s] # "none"
          /\ IF s \in Scopes
             THEN AskGoes(q, "lookup") /\ probe' = [probe EXCEPT ![q].scope = s]
             ELSE AskEnds(q)
    /\ UNCHANGED <<verified, documents, ledger, lock, tasks, cached>>

\* A near enough question of the same account and scope answers this one.
Lookup(q) ==
    /\ asked[q] = "lookup"
    /\ \E a \in cached : a.user = Asker[q] /\ a.scope = probe[q].scope
    /\ AskEnds(q)
    /\ UNCHANGED <<verified, documents, ledger, lock, tasks, cached>>

\* _owned_chunks: every chunk of the scope, whatever its document's status.
Visible(q) == IF probe[q].scope = All THEN chunks \cap DocumentsOf(Asker[q])
                                      ELSE chunks \cap {probe[q].scope}

\* The cache missed, or was not near enough.  hybrid_search reads the dense and
\* the sparse ranking in two statements.
SearchDense(q) ==
    /\ asked[q] = "lookup"
    /\ probe' = [probe EXCEPT ![q].seen = Visible(q), ![q].overtaken = FALSE]
    /\ AskGoes(q, "sparse")
    /\ UNCHANGED <<verified, documents, ledger, lock, tasks, cached>>

SearchSparse(q) ==
    /\ asked[q] = "sparse"
    /\ probe' = [probe EXCEPT ![q].seen = @ \cup Visible(q)]
    /\ AskGoes(q, "store")
    /\ UNCHANGED <<verified, documents, ledger, lock, tasks, cached>>

\* Rerank and generate, then store: refusals (nothing found) are stored too,
\* and the foreign key refuses a scope that is gone.
StoreAnswer(q) ==
    /\ asked[q] = "store"
    /\ \/ /\ probe[q].scope \in Scopes
          /\ cached' = cached \cup {[user |-> Asker[q], scope |-> probe[q].scope,
                                     seen |-> probe[q].seen,
                                     overtaken |-> probe[q].overtaken]}
          /\ AskEnds(q)
       \/ /\ probe[q].scope \notin Scopes \/ "answer" \in Faults
          /\ AskEnds(q)
          /\ UNCHANGED cached
    /\ UNCHANGED <<verified, documents, ledger, lock, tasks>>

-----------------------------------------------------------------------------
(***************************************************************************)
(* The rest of the world.                                                  *)
(***************************************************************************)
\* consume_token, in another request.
Verify(u) ==
    /\ ~verified[u]
    /\ verified' = [verified EXCEPT ![u] = TRUE]
    /\ UNCHANGED <<documents, ledger, lock, tasks, cached, questions>>

\* The process running a task dies; an open transaction is rolled back.  (A
\* question that dies leaves as little behind as one that fails.)
Die(d) ==
    /\ "crash" \in Faults
    /\ \/ /\ upload[d] \notin {"idle", "accepted", "refused", "failed"}
          /\ UploadGoes(d, "failed")
          /\ lock' = IF lock[Owner[d]] = d THEN Unlocked(d) ELSE lock
          /\ UNCHANGED <<index, remove>>
       \/ /\ index[d] \notin {"none", "done", "dead"}
          /\ IndexGoes(d, "dead")
          /\ UNCHANGED <<upload, remove, lock>>
       \/ /\ remove[d] \notin {"idle", "done", "dead"}
          /\ RemoveGoes(d, "dead")
          /\ UNCHANGED <<upload, index, lock>>
    /\ UNCHANGED <<verified, documents, ledger, taster, cached, questions>>

Upload(d) == \/ ReadFile(d) \/ TakeLock(d) \/ Count(d) \/ Accept(d)
             \/ Refresh(d) \/ WriteFile(d)
Index(d)  == \/ Load(d) \/ Claim(d) \/ ExtractAndEmbed(d) \/ StoreChunks(d)
             \/ Charge(d) \/ InvalidateIndexed(d) \/ FailIndexing(d)
Delete(d) == Remove(d) \/ Discard(d) \/ InvalidateRemoved(d)
Answer(q) == Lookup(q) \/ SearchDense(q) \/ SearchSparse(q) \/ StoreAnswer(q)

\* Everything that will ever be asked for has been.
AllDone ==
    /\ \A d \in Document : upload[d] \in {"accepted", "refused", "failed"}
                           /\ index[d] \in {"none", "done", "dead"}
    /\ \A d \in Document : remove[d] \in {"done", "dead"} \/ d \notin Removable \/ ~Live(d)
    /\ \A q \in Question : asked[q] = "ended"
    /\ UNCHANGED vars

Next ==
    \/ \E d \in Document : Arrive(d) \/ Upload(d) \/ Index(d) \/ Find(d) \/ Delete(d) \/ Die(d)
    \/ \E q \in Question : Ask(q) \/ Answer(q)
    \/ \E u \in User : Verify(u)
    \/ AllDone

Spec == Init /\ [][Next]_vars

\* The event loop runs the indexing task whenever it is not waiting, and what it
\* waits for (a model server, a statement) ends or raises.
FairSpec ==
    /\ Spec
    /\ \A d \in Document : WF_vars(Index(d))

-----------------------------------------------------------------------------
(***************************************************************************)
(* Properties                                                              *)
(***************************************************************************)
TypeOK ==
    /\ verified \in [User -> BOOLEAN]
    /\ row \in [Document -> Statuses]
    /\ chunks \subseteq Document /\ files \subseteq Document
    /\ ingested \subseteq accepted /\ accepted \subseteq Document
    /\ lock \in [User -> Document \cup {NoUpload}]
    /\ upload \in [Document -> UploadPC] /\ taster \in [Document -> BOOLEAN]
    /\ index \in [Document -> IndexPC] /\ remove \in [Document -> RemovePC]
    /\ cached \subseteq Answers
    /\ asked \in [Question -> AskPC]
    /\ probe \in [Question -> [scope : Document \cup {All}, seen : SUBSET Document,
                               overtaken : BOOLEAN]]

\* A burst of uploads, or uploading and deleting in turn, gets no account that
\* has never verified past its lifetime allowance of documents or pages
\* (unverified_upload_exceeded, unverified_pages_exceeded).
TasterUploadsHold ==
    \A u \in User : ~verified[u] =>
        LET everAccepted == accepted \cap DocumentsOf(u)
        IN  /\ DocumentLimit > 0 => Cardinality(everAccepted) <= DocumentLimit
            /\ PageLimit > 0 => PagesIn(everAccepted) <= PageLimit

\* A document that is "ready" has its chunks, one that is not yet "ready" or
\* gone has none, whatever indexing, deletion and failures did in between; a
\* "failed" one may have kept them (index_document after its commit).
StatusTellsChunks ==
    \A d \in Document :
        /\ row[d] = "ready" => d \in chunks
        /\ row[d] \in {"none", "pending", "processing", "deleted"} => d \notin chunks
        /\ row[d] = "failed" /\ d \in chunks => index[d] = "done"

\* A document that stays "ready" once its task is over is on the month's bill;
\* a failure between the commit of its chunks and usage.record does not leave a
\* "ready" document nobody paid for (the except block of index_document).
ReadyIsCharged ==
    \A d \in Document : row[d] = "ready" /\ index[d] = "done" => d \in ingested

\* A document whose upload was answered points at a file, until it is deleted:
\* the row goes first, the file follows (delete_document).
RowHasFile == \A d \in Document : upload[d] = "accepted" /\ Live(d) => d \in files

\* The row of a document tells the truth about the three things it does not
\* share a transaction with: its chunks, its bill and its file.
DocumentTrue == StatusTellsChunks /\ ReadyIsCharged /\ RowHasFile

\* Someone still has to drop u's corpus-wide answers, or died before doing so,
\* or failed after the chunks were committed and left the document "failed".
DropOutstanding(u) ==
    \E d \in DocumentsOf(u) :
        \/ index[d] \in {"charge", "invalidate", "fail", "dead"}
        \/ remove[d] \in {"discard", "invalidate", "dead"}
        \/ row[d] = "failed" /\ d \in chunks

\* An answer over all documents that was computed over another corpus than the
\* present one is only ever found while the drop is outstanding, or because it
\* was computed before a drop and stored after it (cache.store).
StaleOnlyByRace ==
    \A a \in cached :
        a.scope = All /\ a.seen # chunks \cap DocumentsOf(a.user) =>
            DropOutstanding(a.user) \/ a.overtaken

\* No upload stays unfinished: its document becomes ready or failed or goes
\* away, unless the process died or the handler itself failed (index_document
\* "never raises out to the caller").
IndexingSettles ==
    \A d \in Document :
        upload[d] = "accepted" ~>
            row[d] \in {"ready", "failed", "deleted"} \/ index[d] = "dead"

\* "Document-scoped entries need no help here" (cache.py): an answer about one
\* document was computed over what that document contains.
ScopedAnswersFresh ==
    \A a \in cached : a.scope # All /\ row[a.scope] = "ready" => a.seen = {a.scope}
=============================================================================
