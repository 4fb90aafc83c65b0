# Formal models of Docs_RAG

TLA+ specifications of the Docs_RAG service: a FastAPI backend (`app/`) that
answers questions over uploaded PDF documents, for a web client (`web/`) and,
over MCP, for agents; and of the evaluation programs (`eval/`) that measure it.
Each module says in its header which part of the code it models; `PROJECT.json`
maps every definition to the lines it translates.

    tlc -workers 2 -config QuotaRace.cfg MCQueryPipeline.tla     # one of the runs of section 4
    tlapm QueryPipelineProofs.tla                                # one of the eight proof modules

## 1. The system

| Component | State it keeps | Operations | Hard part |
|---|---|---|---|
| Query pipeline (`services/pipeline.py`, used by `routers/query.py`, `routers/conversations.py`, `mcp/tools.py`) | per request: a database session, `_reservation_id`, `_trace_pending`, the loaded `User`; `messages` | `enforce_limits`, `resolve_scope`, `embed`, `cached_answer`, `retrieve`, `finalize` / `finalize_search` / `record_cache_hit`, `release_reservation`, `record_failure` | some fifteen awaits per request, each of which can fail or be cancelled; four consumers with different handlers |
| Quota ledger (`services/usage.py`) | `usage_events` rows, `settled_at` NULL while reserved; one advisory lock per account and kind | lock and sweep, count, reserve, commit, release; upload and ingest rows | check-then-act between processes; crashes between reserve and commit; a sweep meeting a slow request |
| Tracing (`services/tracing.py`) | `traces`, `trace_chunks` | `record`, best effort | written from failure handlers on damaged sessions; once per request |
| Semantic cache (`services/cache.py`) | `query_cache` | `lookup`, `store`, `invalidate_corpus_wide` | an answer stored after the corpus it was computed over has changed |
| Documents and indexing (`routers/documents.py`, `services/ingest.py`) | `documents.status`, `chunks`, stored files | upload, background `index_document`, delete | background task, deletion and questions interleave; file, row, bill and cache are not one transaction |
| Accounts (`routers/auth.py`, `services/auth.py`, `services/verification.py`, `deps.py`) | `users`, `sessions`, `email_verification_tokens`, mails | sign-up, login, logout, re-issue, click | concurrent issue and consumption under READ COMMITTED; single use; failures between statements |
| Rate limiter (`services/ratelimit.py`) | token buckets in memory | `allow` | refill and cap at the boundary, several buckets asked in a row |
| Answering (`embeddings.py`, `retrieve.py`, `fusion.py`, `rerank.py`, `generate.py`, `llm.py`) | candidates and their scores | embed, search, fuse, rerank, ground, generate | scores of three spaces in one field; five limits; failures of three servers |
| Chunking (`chunking.py`) | the heading path carried from page to page | `chunk_pages` | windows, overlaps, headings and pages at their boundaries |
| MCP surface (`app/mcp/`) | settings, bearer tokens, scopes, tool lists cached by clients | start, verify, list, call | three modes, six settings; sessions, accounts and documents that go away between two awaits |
| Web client (`web/`) | thread and running stream, polled lists, session, verification page, citation dialog | ask, open, upload, delete, sign in, verify | answers that arrive late, or not, or overtake one another |
| Schema (`models.py`, `alembic/`, `db.py`) | the tables with their rows, `alembic_version` | migrate at start-up, go back, write, delete with cascades, `backfill_sparse.py` | two servers migrate at once; columns that rows of every age are given a value for |
| Evaluation (`eval/`) | a shared corpus, saved runs, result files, verdicts and labels | `run`, `ab`, `diff`, sweeps with resume, judge, kappa, the graders | commands that die and are resumed; things measured under one condition and compared under another |

How they interact. A request authenticates (`users` is read once), passes the
rate limiter (no await) and `enforce_limits`, whose transaction takes the
account's advisory lock, deletes stale reservations, counts the rows and
inserts a new one. It then works without a lock, calling the model servers and
reading chunks and cache, and closes with several commits of its own: the
charge, the cache entry, the trace, the assistant message. Requests of one
account meet in `usage_events` and on the advisory lock; requests and the
documents API meet in `query_cache` and `chunks`; a verification link changes
which allowance a request is measured against. The web client and the agents
meet the rest only through answers, which come late, twice or never. The
evaluation owns accounts of its own in the same tables. Any await can raise, be
cancelled when the client leaves, or never return because the process died.

What makes each part correct: no account gets more admissions than its
allowance; what was answered was charged and what failed was not; a slot is
never lost for good; a stored thread consists of pairs; the cache does not speak
for documents that are gone; a document is `ready` exactly when its chunks are
searchable and its bill is written; a link works once and is told of truly; a
call reads its own account's documents only; an answer stands on the chunks it
cites; the screen shows what the server holds; a database survives its own
history; a number of the evaluation was
measured on what it names.

## 2. Modules

| Module | Role |
|---|---|
| `QueryPipeline` | one question from the gate to its trace, for all four consumers, with faults |
| `QuotaLedger` | what `usage.py` promises: admission as one atomic step |
| `QueryPipelineRefinement` | the mapping under which the first implements the second |
| `QueryPipelineProofs`, `QuotaLedgerProofs` | types, limits, charging, the failure handlers, refusals and the refinement, proved |
| `DocumentsProofs`, `AccountsProofs`, `ServingProofs`, `WebClientProofs`, `EvaluationProofs` | the corpus; the links; the agents' gate, the limiter, the schema, the answers and the chunks; what the client shows; the ladder, the sweeps and the judges, proved |
| `Recursion` | lemmas about the folds and orders those proofs meet: what a sum and a concatenation come to |
| `Documents` | upload, indexing, deletion, stored files, page and document allowances, cached answers against a changing corpus |
| `Accounts` | users, sessions, verification links and their mails under READ COMMITTED |
| `AgentGate`, `Chunking`, `Answering`, `RateLimit`, `Schema`, composed in `Serving` | the MCP surface; the cutting of documents; from the question to its citations; the burst limits; the tables and their migrations |
| `ChatPage`, `RemoteList`, `SessionScreens`, `AnswerView`, composed in `WebClient` | the web client |
| `Harness`, `Sweep`, `Judging`, `Scoring`, composed in `Evaluation` | the evaluation programs |
| `MC...` | instances for TLC |

`Serving`, `WebClient` and `Evaluation` compose parts that share no state in the
code, so that a behaviour exercises one part (`part`) while the others stand
still; the interleavings are inside the parts.

### QueryPipeline and the code

A request is a process. Its `pc` is the await it has reached:

| `pc` | code |
|---|---|
| `lock`, `check`, `reserve` | `acquire_quota_lock`, the two counting functions, `reserve()` + `commit()` in `enforce_limits` |
| `scope`, `ask`, `embed`, `lookup`, `retrieve`, `generate` | the steps of `query`, `_stream_turn`, `_run_search`, `_run_answer`; `ask` is the commit of the turn's question |
| `settle`, `store`, `trace`, `persist` | `commit_reservation`, `cache.store`, `tracing.record`, `_persist_answer` |
| `release`, `discard`, `report` | the failure handlers, in the order in which they run |
| `answered`, `failed`, `abandoned` | normal return; end of a handler; no handler ran (or it did not finish) |

A `usage_events` row of kind `query` is identified with its request, because
`reserve()` draws a fresh uuid: `row[r]` is `none`, `reserved` (`settled_at` is
NULL) or `settled`. `stamp[r]` is its `created_at`, which is `func.now()`, the
*start* of the transaction in which the request authenticated; `countedAt[r]` is
the wall clock at the count. `doomed[u]` holds the rows the current lock holder
deleted and has not committed: they are invisible to its own count, still there
for everybody else, restored by a rollback, and updating one waits. Verification
happens once and is never undone; a running request keeps the `User` object it
loaded (`taster`). `hold`, `pending`, `mode` are `_reservation_id`,
`_trace_pending` and how far the runner got; `dirty` says that the session sits
on a failed transaction, which makes the next insert fail until somebody rolls
back.

Faults are a constant, so that each run names the ones its properties must
survive: `error` (an await raises and had no effect), `cancel` (the task is
cancelled or its generator closed), `lost_ack` (a commit took effect but the
await raised), `cleanup` (a handler's own database call fails), `trace` (the
insert in `tracing.record` fails and is swallowed), `crash` (the process dies).
Where an exception lands depends on the consumer, as in the code: `POST /query`
lets a refusal through untouched and handles `BaseException` later, the MCP
tools handle `BaseException` without reporting, the stream handles `Exception`
only.

Abstractions: the embedding, the retrieved chunks, the prompt and the answer are
left out (they are in `Answering`); a cache hit is a choice; the rate limiter may refuse at any time; the
instant of authentication and the start of the transaction are one step;
conversation titles and scopes are left out.

### The abstract ledger

`QuotaLedger` has no lock, sweep or handler: `Admit` strikes out any of the
account's expired entries, checks the room that is left and inserts, in one
step; `Settle` makes an entry final; `Refund` removes one. `entryOf` maps a row,
its `created_at` and the moment of its count to an entry, and every step of the
handlers is one of these or a stutter: in particular `Reserve` is `Admit`,
although the sweep and the count happened two awaits earlier. A settled entry may
be refunded only when acknowledgements can be lost: then
`release_reservation` deletes, by id, a row whose charge was committed.

### Documents

One process per task: the upload request (`upload[d]`), the background task
(`index[d]`), the delete request (`remove[d]`), and questions (`asked[q]`). The
steps are the awaits of `upload_document`, `index_document`, `delete_document`
and, for a question, resolve, lookup, search and store. `row`, `chunks`,
`files`, `accepted` and `ingested` are the `documents` row, its chunks, its
stored file and its two usage rows. `cached` holds the rows of `query_cache`:
who asked, the scope, the chunks the answer was computed over, and whether an
invalidation ran meanwhile. A deletion cascades to chunks and to answers scoped
to the document; corpus-wide answers go in a later transaction. The faults are
those of the header: a failing commit, a file that is not written, a failing
parser or model server, a failure after the commit of the chunks, a failing
handler, a crash.

### Accounts

Each request is a transaction under READ COMMITTED: `holder[t]` is whoever
changed a token row and has not committed, and a statement that wants to change
it waits (`Blocked`). `FindUnused`, `DeleteUnused` and `InsertToken` are the
statements of `issue_token`; `Claim`, `Consume` and `Tell` those of
`consume_token`. A statement, a commit or the mailer may fail (`Faulty`).
`overlapped` holds the pairs of requests whose issues for one account ran at the
same time, from the beginning of the DELETE to the commit. It is written from
where the requests stand (`Meets`), never from what a DELETE found, so that a
DELETE that misses a link it should have seen breaks `TwoLinksOnlyByRace`.

### Serving

`AgentGate` follows one call at a time through verifier, scope gate, tool and
its reads, while sessions, accounts, documents and scopes change beside it. The
settings are those of `config.py` that decide what `validate_settings` and the
verifiers do; the surfaces are the variants of `variants.py`; a refusal is the
*meaning* of its text. `Chunking` takes a page a step; a token is a position,
with 0 for a word and n for a heading of level n. `Answering` takes any ranking
and any score the servers may return; `stage` is what `_remember` keeps.
Its fusion adds and compares fractions, and `RateLimit` counts in units of which
a token is a minute's worth, so that both are exact; the code's floats round,
which can turn round two unequal sums that differ by less than that.

`Schema` keeps of every row its columns (`col`), what the program meant to say
in them (`truth`) and the oldest schema the row has lived under (`since`).
`Revisions` is the list of `alembic/versions`, each with the tables and columns
it adds and what it puts into the rows that are there (`fill`); `Models` is
`models.py` in the same form. A start-up reads the version and then applies what
is missing in one transaction; a server that was overtaken finds its tables
there and does not come up. The writes are those of the other modules, a
transaction each, and only those that an added column or a reference decides on.

### WebClient

`ChatPage` is `page.tsx` with the conversation links and the delete dialog of
`AppShell.tsx`: an opening in flight, a stream in flight, and the effect that
follows the address. `late` is raised when something arrives after the user has
moved on. `RemoteList` is `DocumentsProvider` or `ConversationsProvider` (chosen
at the start) with the upload, the dialog and the composer's scope; `overtaken`
is raised when a list older than a change arrives after it. `SessionScreens` has
`GET /auth/me` in flight twice, the sign-in form, `AppLayout`, the verification
page, in which a second link may be opened (`OpenAnother`: the fragment changes,
`started` stays set, and the page keeps the first link's verdict), and the banner.
What an answer older than the tab's knowledge puts on the screen is excused
(`outdated`, as `late` and `overtaken` are). `AnswerView` cuts a stream at any byte (`Receive(k)`),
parses it as `sse.ts` does, numbers the footnotes and opens the dialog.
`ShownTrue` is what the three of them put on the screen together (`ThreadIsOne`,
`ListTrue`, `SourceTrue`), `AnswerFaithful` what becomes of a stream.

### Evaluation

`Harness` runs one command at a time on the shared `documents` table, each dying
between any two transactions, with accounts uploading and datasets edited
beside. `Sweep` is a paid sweep: the file of rows, the keys it skips when
resumed, an episode's turns, calls and sleeps, the costs and the latencies of
its row. `Judging` has the judge's file of verdicts, one put aside to be
compared with, the labels drawn from it and their join. `Scoring` has the graders
as actions that grade one sheet each (gold placement, retrieval metrics,
episodes, pairwise comparison, citations and refusals, the table of a sweep, the
balance of a dataset and its split). An episode is graded under a surface that may
lack the scenario's role (`ExpectedRole`); whether the first call's query and
arguments fit (`query_contains`, `query_not_contains`, `args_exact`,
`args_absent`) is a truth value, which calls satisfy which group of
`any_call_contains` a set. A row of a table has gold pages only if its snippets
were found. What was given and what was said is kept for
the properties to compare with a definition in other terms.

## 3. What is abstracted everywhere

Texts, vectors, prompts and scores are model values or small numbers; only what
the code compares of them is kept. Identifiers are fresh by construction, as
uuids are. Passwords, hashes and signatures are right or wrong. PostgreSQL is
taken at its word: advisory locks, row locks, READ COMMITTED, atomic commits;
a commit whose acknowledgement is lost is modelled (`lost_ack`). Clocks are
bounded counters where the code does arithmetic on them and nondeterministic
expiry elsewhere.

## 4. Runs

Passing runs, with distinct states.

| Run | Instance | Shows |
|---|---|---|
| `QuotaRace` (393k) | 3 searches of one account, daily limit 2, taster allowance 1, crashes, two days, symmetry | `AdmissionInv` (the inductive argument), `TasterHolds`, `DailyHolds` |
| `SweepRace` (4.9M) | 3 searches of two accounts, limits 1, TTL 1, crashes | `ChargeInv`, `AnsweredIsCharged`: the sweep never takes a running request's slot; `RefusedAtLimit`: nobody is refused for a slot that is dead or another account's |
| `FailedRequests` (405k) | a streamed turn and a `POST /query`, error, cancel and crash at every await, `FairSpec` | `ReservationOwned`, `ThreadPaired`, `ServedTracedOnce`, `TraceFollowsAdmission`, `UnchargedFailureTraced`; and `EveryRequestEnds`, `SlotsReturned` |
| `EveryFault` (394k) | a streamed turn and an agent that answers, all six faults, TTL 0 | `TypeOK`, and `LedgerSpec`: the pipeline still implements the ledger |
| `LedgerLimits` (30k) | the ledger alone, 4 requests | `LifetimeHolds`, `DayHolds`: one-step admission is enough for both limits |
| `Documents` (455k) | 2 uploads (2 pages and 1 page) of one account, limits of 1 document, 2 pages and 3 pages a month, the first removable, 1 question, all seven kinds of fault, with or without an answer cached before the first upload, `FairSpec` | `TasterUploadsHold`; `DocumentTrue`: status, chunks, bill and file agree; `StaleOnlyByRace`: a corpus-wide answer over another corpus is found only while an invalidation is outstanding, or if it was computed before one and stored after it; `IndexingSettles` |
| `Accounts` (525k) | 5 requests for one address in four mixes, everything may fail | `LinkTrue`: a link verifies once and every tab is told the truth; `TwoLinksOnlyByRace`: two links live together only if their issues overlapped; `EveryRequestEnds` |
| `WebClient` (100k) | 2 turns and 3 moves; one item and 2 list requests; 2 `GET /auth/me`; streams of up to 3 frames cut anywhere | `ShownTrue`: the thread is one conversation's, the list what the server holds, a source its footnote's; `AnswerFaithful`: a stream is read the same however it is cut; `LinkAnswered`; `WaitsEnd` |
| `Serving` (1.5M) | 8 configurations, 3 surfaces, 2 calls, 1 outside change; books of 4 + 2 tokens under 5 ways to cut; 4 chunks; two limiters of rates 2 and 3; 2 servers on databases found at 0, 2, 8 and 14, 3 writes, one way back to 2, 7, 9, 11 or 13 | `Tenancy`: a call reads its bearer's documents only; `GateTrue`: a server that came up lets in whom its settings say; `ChunksTrue`: no word is lost, and each chunk is under the headings that enclose it; `AnswerTold`: an answer stands on what was found; `BucketExact`: no window holds more than its rate; `SchemaTrue`: columns say what was meant or what their revision put there, references hold, a server that serves can write |
| `Evaluation` (2.2M) | 2 commands on 2 datasets, 2 cuttings and a ladder of 3 rungs, 2 saved runs, 1 edit; sweeps of 3 items in 2 modes by 2 processes; 2 answers, 2 sittings of the judge; sheets of up to 4 letters a page, 3 chunks, 3 calls, 5 items | `LadderTrue`: the rungs are measured on the index they name; `SweepExact`: nothing is paid or counted twice; `JudgeTrue`: a judge is adopted, and two judgements are compared, for good reasons; `ScoresTrue`: each grader agrees with its definition (`GoldTrue`, `RankingTrue`, `EpisodeTrue`, `ComparisonTrue`, `AnswerTrue`, `TableTrue`, `DatasetTrue`, `SplitsTrue`) |

Runs that end in a counterexample; each quotes a statement of the repository in
`PROJECT.json`.

| Run | Statement | What happens |
|---|---|---|
| `TurnTracedTwice` | one request never writes two traces | `finalize` does not lower `_trace_pending`; a failure to store the answer is reported a second time |
| `CancelledTurnKeepsSlot` | every failure path reaches `release_reservation` | a client that leaves a stream raises `CancelledError` or `GeneratorExit`, which `_stream_turn` does not handle; the slot waits for the TTL and the question stays in the thread |

Bounds and why they suffice. Two requests of an account are enough for every
check-then-act race and three let a third pass a limit of two; the second
account in `SweepRace` shows that neither lock nor sweep crosses accounts. The
clock goes far enough for a day change or for a reservation to become stale and
be swept while another request is in flight (`MaxTime`, `DayLength`, `TTL` are at
most 4). `MaxAge` bounds how long a request may run; the code has no such timer:
`config.py` argues that the longest request takes about 300 of the TTL's 600
seconds, and `MaxAge <= TTL` is that argument as an assumption. `EveryFault` has
TTL 0, so that a running request can be swept: the ledger does not depend on the
TTL. Two documents, of which the second no longer fits the first one's
allowance, meet every race of an upload, an indexing task, a deletion and a
question. The mixes of `Accounts` put two clicks against two issues, two
sign-ups against each other and a session against its logout. In the client two
requests of a kind overtake each other and a third is a new round. In
`AgentGate` each kind of outside change can fall between any two awaits of the
second call, after a first call has had its tool list cached. Books have room
for a section that fills a chunk, one that spills over and one that crosses a
page. The ages a database is found at lie before and behind each revision that
fills a column (0003, 0008, 0009, 0012), and so do those an operator goes back
to. `Evaluation` lets a command run after one that died at each step.
Requests of one account and consumer are interchangeable, hence the symmetry;
no run with a liveness property uses it.

Deadlock is checked in the pipeline's and the accounts' runs (`AllDone` is the
stuttering step of an instance in which every request has ended) and in
`Documents`. `LedgerLimits`, `WebClient`, `Serving` and `Evaluation` switch it
off: a settled ledger, a page nobody uses, a graded sheet or a written table
have nothing left to do.

Fairness. `QueryPipeline`'s `FairSpec` gives each request weak fairness for its
own steps: the event loop runs every task, PostgreSQL grants a free advisory
lock, and the model servers either answer or raise (their HTTP clients have
timeouts; the LLM client relies on its transport). Waiting for the lock needs
only weak fairness because each request takes it once, so a waiting request
finds it continuously free in the end. Arrivals, faults, verification and the
clock are not fair. `SlotsReturned` excepts requests that were cut off: their
slots wait for a sweep, which nobody is bound to trigger. `Documents` is fair to
the steps of the background task only. `Accounts` asks that some request that
has been let in goes on while one can. In the client a stream and each list
request is answered or fails, the interval fires, and a list request that is
asked again and again does not fail for ever (strong fairness of its arrival:
the user's network works at times); `GET /auth/me` and the verification are
answered or fail. No user is fair.

## 5. Statements of the repository that the code does not keep

Besides the two runs above, these definitions state what a comment, docstring or
test says of the program. None of them is in a configuration; putting one into
the configuration of its module's run gives the counterexample. They stand here
because the properties that do hold are worded around them.

Backend:
- `AdmittedIsTraced` (`QueryPipeline`; `models.py:237`): a row for every admitted
  request. The handlers of the MCP tools (`tools.py:238-249`, `392-397`) release
  the slot and do not report; `POST /query` loses its row when `cache.store`
  fails after the charge, for nothing rolls the session back first.
- `CalendarDayHolds` (`QueryPipeline`; `usage.py:8`): calendar windows. A request
  that authenticated before midnight and counted after it is measured against
  the new day and stamped in the old one. `DailyHolds` is the form that is true.
- `ScopedAnswersFresh` (`Documents`; `cache.py:106-109`): answers about one document
  need no invalidation. One computed while the document was still being indexed
  stays after it is ready.
- `AudienceUsable` (`AgentGate`; `oauth.py:69-85`): fail at start-up when
  authentication cannot work. In mode `oauth` with `MCP_OAUTH_AUDIENCE` naming
  something else than the URL the server comes up and refuses every token.
- `PathsEnclose`, `HeadingsKept` (`Chunking`; `chunking.py`): the enclosing path, and
  contiguous text. An outline that opens at level 3 and goes on at level 2 keeps
  the first heading in its path; the heading at the end of a page is in no chunk.
- `StageScoresKept` (`Answering`; `pipeline.py:246-247`): a stage keeps what it saw.
  The reranker's score is written into the candidate that the RRF stage shares
  (`pipeline.py:292-298`).
- `NoStatusIsSuccess`, `GateHolds`, `OrphansAreTold` (`Schema`; the docstrings of
  revisions 0010, 0008 and 0009): no status is a success, new accounts pass the
  gate, a reservation can be told from a use. What an operator takes back and
  applies again fills the rows written in between as if they were old ones.

Client:
- `FailedOpenOffersExit` (`ChatPage`; `page.tsx:298-306`): after a failed opening the
  page offers the way out. A retry left over from an earlier turn is offered.
- `ScopeKept` (`RemoteList`; `Composer.tsx:32-33`): the scope falls back when its
  document is deleted. It also does when a list that is older arrives.

Evaluation:
- `DiffMeasuresTheSame` (`Harness`; `report.py:160-166`): numbers that mean different
  things are refused. The split is not saved, and `--no-reindex` saves the
  settings of the day.
- `RunsAreIsolated` (`Harness`; `indexing.py:54-57`): isolated from real users. The
  copies to drop are found by file name, without the owner.
- `FailuresAreAskedAgain` (`Sweep`; `w6_run.py:548-562`): three failures in a row stop
  the sweep so that they stay out of the table. They have their rows, which a
  resumed sweep skips.
- `OneExperiment` (`Sweep`; `l3_run.py:114-116`): rows of other conditions are another
  experiment. Conditions are no part of a row's key.
- `PacingIsTakenOut` (`Sweep`; `w6.py:502-506`): latencies without the pacing. In server
  mode the generation sleeps inside the tool's time, and that sleep is taken from
  the agent's time instead; the sleeps of a retry are taken from neither.
- `PairsReadTheSame`, `MeansOfTheSame`, `JudgedIsKept` (`Judging`; `l2.py:643-681`,
  `l2.py:403-404`, `l2_run.py:105-107`, `w6_run.py:810`): labels are joined by question,
  not by the answer that was read; the means of a whole file are compared with those
  of an unfinished one; a judge that starts again truncates the file before it has
  judged.
- `HoldoutStaysOut` (`Scoring`; `build_synthetic.py:108-111`): a dataset built again
  keeps its splits. One more question of a type may push another over the line.
- `GoldExact`, `BiasCounted`, `HeadingThenRefusal`, `PageOfTheDocument`,
  `DiagnosisNames` (`Scoring`; `gold.py:96-112`, `l2.py:471-478`, `w6.py:276-278`,
  `metrics.py:152-155` beside `w6.py:174-193`, `judge.py:184-205`): a chunk whose text
  occurs earlier on its page is placed there; a pick that ends in a tie is not
  counted as a bias; a heading before a refusal, two documents with the same page
  number, and a diagnosis over missing scores are read otherwise than said.

## 6. Proofs

Every theorem is about the specification a run checks, for all values of its
constants; what it assumes of them is an `ASSUME` of the module, which TLC
evaluates on every run. A theorem that needs more says so in its statement. In
each proof the property is strengthened until it is inductive, mostly by saying
of every label what holds there.

Some properties add over sets or join sequences, and the library defines both
with operators the provers cannot open. `Recursion` unfolds them once and for
all. Instead of an induction theorem (those take an operator as a parameter) it
takes a least counterexample: of the subsets of a finite set for which a
function is not what its equation says there is one without a smaller
(`SmallestSubset`), of the numbers a least one (`LeastNatural`). From this come
the sum of a set as one element and the rest (`SumUnfolds`, `SumTakes`), of a set
split in rows (`SumGrid`), and what of a sequence is left when some of its places
are left out, in which order (`LeavesOthers`), which is what `filter` and the
floor of a context do. A function over positions, such as the heading path along
a page, has a value because one can be written down up to any of them
(`StepsAlways`), and what holds at each step holds at the end (`UpTo`).

### The query pipeline

`QueryPipelineProofs`, from `ConstantsOK` (requests are a finite set, limits, TTL
and clock bound are naturals, any set of faults):

- `TypeCorrect`: `Spec => []TypeOK`.
- `AdmissionSafe`: `Spec => []AdmissionInv`, hence `TasterLimitHolds` and
  `DailyLimitHolds`. The limits are not inductive: that a row can be inserted
  rests on a count made one await earlier. `AdmissionInv` adds the reason the
  count is still good: whoever counts or inserts holds the account's lock
  (`LockHeld`), has no row yet (`RowAfterAdmission`), uses the lifetime allowance
  if the account is unverified (`TasterKnown`), and still has the room it found
  (`RoomKept`). Every step except `Check` and `Reserve` is `Harmless`: it adds no
  row and leaves those who counted alone, so rooms stay (`RoomStays`) and limits
  are not approached. `ReserveKeeps` is the heart: the new row plus what the count
  saw is within the limit, and the rows the count did not see are deleted in the
  same commit.
- `RefusedOnlyAtLimit`: `Spec => RefusedAtLimit`, an action property, for all
  faults. A refusal is right because whoever counts has already swept: every
  reservation of the account that was too old when the request came is among the
  rows it deletes (`SweptInv`).

The remaining ones hold only where certain faults do not occur; the hypothesis
names them, and dropping it makes each of them false in the code:

| Theorem | Property | Hypothesis | Because |
|---|---|---|---|
| `ChargeSafe`, `AnsweredCharged` | `ChargeInv`, `AnsweredIsCharged` | `MaxAge <= TTL` | a request that outlives the TTL is swept while it runs; the comment at `reservation_ttl_seconds` made precise |
| `SlotsOwned` | `ReservationOwned` | no `lost_ack` | a `reserve()` that was committed and raised leaves a row nobody knows of |
| `TurnsPaired` | `ThreadPaired` | no `lost_ack`, no `cleanup` | a question whose commit raised, or whose deletion fails, stays alone |
| `ServedOnce` | `ServedTracedOnce` | none | |
| `TracesFollow` | `TraceFollowsAdmission` | no `lost_ack`, no `trace` | `tracing.record` swallows its own failure |
| `UnchargedTraced` | `UnchargedFailureTraced` | no `lost_ack`, no `trace`, `MaxAge <= TTL` | a slot that was swept under a running request leaves its handler nothing to release |

`SlotInv`, `ThreadInv`, `OnceInv`, `TraceInv` and `UnchargedInv` say for each
await, and for each handler, which of the request's row, its two messages and
its trace exist and what the request remembers of them. The hypotheses are what
the `FailedRequests` run sets (errors, cancellations and crashes at every await
remain); `EveryFault` shows what holds with all six.

`QuotaLedgerProofs`, from `LedgerConstantsOK` (the same, for any sets of
refundable and expiring entries): `LedgerLifetime` and `LedgerDay`,
`Spec => []LifetimeHolds` and `Spec => []DayHolds`. Here the limits (with the
typing `EntryOK`) are inductive, since the ledger admits in one step:
`AdmitWithinLimits` adds one entry to what was below the limit, every other step
only removes entries (`NoNewEntry`). The daily promise assumes
`TasterLimit <= DailyLimit`: an unverified account is measured against the
lifetime allowance only.

`PipelineImplementsLedger` (`QueryPipelineProofs`): `Spec => LedgerSpec`.
`Reserve` is `Admit` because `RoomKept` of `AdmissionInv` is the ledger's `Room`
under the mapping, and because what the transaction deletes is still expired at
the commit (`RowsInv`: a doomed row is an old one of the same account and its
stamp lies in the past). Every other handler settles its own entry, refunds it,
or leaves the ledger alone.

### Documents

`DocumentsProofs`, from `DocumentsOK` (documents are a finite set, each with an
owner and a number of pages; any limits, any set of faults):

- `TypeCorrect` and `RowTellsTruth` (`DocumentTrue`). Upload, indexing and
  deletion share no transaction; `LifeInv` is what their guards and early returns
  come to: where each of the three may be, given the row.
- `TasterAllowance` (`TasterUploadsHold`). As in the pipeline, the count is an
  await older than the insert: `LockInv` says that the lock table and the labels
  agree, `RoomKept` that what was counted is still true. Pages are counted as
  the members of a set (`PagesIn`), so that one more document adds its own.
- `StaleAnswersRaced` (`StaleOnlyByRace`). `CacheInv` extends it to the questions
  under way: what a question over the whole corpus holds in hand is the present
  corpus, or a drop is outstanding, or one has overtaken it. `Moves` says what
  any task does to the corpus, so that the three tasks are one case.

### Accounts

`AccountsProofs`, from `AccountsOK`: `TypeCorrect`, `LinkIsTrue` (`LinkTrue`) and
`LinksRaced` (`TwoLinksOnlyByRace`). `HolderInv` says who holds a token's row and
why: an issue between its deletion and its insertion, or a click between its
claim and its commit, whose token is still unused. `Verdicts` ties what a click
is told to what became of its token, and `VerifiedByLink` an address to the
link that verified it. `RaceInv` strengthens `TwoLinksOnlyByRace` to the issues
under way: a living link of the account is one the issue is about to delete, or
its own issue overlapped with this one, and any two issues under way overlapped.
When the issue commits, what it spares is therefore of the second kind.

### Serving

`ServingProofs`, from `AgentAssumption`, `SurfaceAssumption`, `RateLimitSizes` and
`RequestsNameBuckets` (a request asks at least one bucket, each once: the keys
of `ratelimit.py`'s callers are an account or an address):

- `TenancyHolds` (`Tenancy`) and `GateIsTrue` (`GateTrue`). `BearerInv` says whom
  a call speaks for from its verification on, and that a bearer that was dead
  when it was presented stays so; `OpenInv` what a credential was listed and what
  it may enter; `RefusalTrue` that a refusal's reason was there at some moment of
  the call.
- `LimiterIsExact` (`BucketExact`). The bucket keeps one number and a time, the
  property is about every stretch of time: `BucketsOK` says that the number is
  the least of what is left of all stretches that begin with a grant, so that
  the bucket grants exactly when none of them would overflow.
- `AnswersStand` (`AnswerTold`), from `AnsweringSizes` and `FusionSizes` (`cand_k`
  is less than `rrf_k + 2`; `config.py` has 40 and 60). `ContextInv` says that the
  context is a beginning of what was ranked, in the right score space, and that
  the fused order is a ranking of the candidates with the best first; `PromptInv`
  that the prompt is the part of it over the floor, `ReplyInv` that the reply
  cites that or nothing, `WayInv` how far each may be. The fusion itself is
  arithmetic: with those sizes no rank is twice another, so two ranks together
  beat any single one (`TwoRanksBeatOne`), and a chunk that is ahead in both
  rankings has the greater sum (`BetterInBoth`). Without `FusionSizes` the first
  is false: a chunk that heads one ranking then beats one at the end of both.
- `ChunksStandWhole` (`ChunksTrue`), from `ChunkingInputs` (a chunk has room for a
  token), for every document and every way to cut it. `ChunkInv` carries the
  heading path over the turn of a page. What a path is worth is said without the
  stack (`PathAt`): at each depth it holds the last enclosing heading of at most
  that level. The stack keeps this where the outline opens at level 1
  (`PushKeepsPath`), and it follows that paths which share a heading share all
  above it (`SharedAbove`), so that the common prefix under which `_pack` puts
  merged sections names just the headings around all their words
  (`PrefixNames`, `MergeNamed`). That no word is lost is a matter of sections
  first (`WordsInSections`, `PackHolds`) and of windows then: each starts no
  later than right behind the one before (`WindowsAre`, by the last window that starts
  at or before the word).
- `HistoryIsSurvived` (`SchemaTrue`), from `SchemaBounds`, for a database of any
  age and any number of processes. `SchemaInv` says of every row that its columns
  are those of the present version, that each says what was meant or what a
  revision the row has lived through put there, and that what it refers to
  exists; `StartOK` that whoever serves, or has found nothing to apply, is right
  about the version. A chain of revisions is taken one revision at a time, and
  each deletion with its cascade at once.

### The web client

`WebClientProofs`: `ShownStaysTrue` (`ShownTrue`), made of three theorems, and
`LinkStaysAnswered`.

- `ThreadStaysOne` (`ThreadIsOne`), from `TurnsCounted`: for any number of turns
  and of openings under way. `ThreadInv` says that, until something has come too
  late, the one turn the user has not moved on from is the last on the thread and
  asks the conversation that is shown, and that no turn is sent while that one is
  being opened. The proof needed `left` to count the deletion of the conversation
  that is shown as moving on from it, which no run of three moves could tell.
- `ListStaysTrue` (`ListTrue`), from `ItemsCounted`: for any number of list
  requests, answered in any order. A list that is on its way is subject to the
  same conditions as the one on the screen (`Knows`, `Mended`), unless a change
  has overtaken it; a deletion is confirmed by the server before the row goes.
- `SourceStaysTrue` (`SourceTrue`), with no assumption: of the texts under way only
  that of the open footnote is not given up (`SourceInv`).
- `LinkStaysAnswered` (`LinkAnswered`), with no assumption, for any number of
  `GET /auth/me` under way. What the page says depends on answers that may
  overtake one another. `SessionInv` says that the tab asks once more after its
  link has verified and that this answer cannot call the user unverified; that
  every other answer which still does was read before, and is marked so; and
  that a link is asked about once (`started.current`).

### Evaluation

`EvaluationProofs`:

- `LadderIsMeasured` (`LadderTrue`), from `HarnessInputs` (datasets have documents,
  `--config` names something). Between two transactions the corpus is in pieces,
  and commands die there and leave it so. `HarnessInv` says what a command may
  rely on at each point: every document it has to have is ready or still to be
  done (`Progress`); before a rung that may reuse the index, and when it is
  searched, the ladder's corpus is exactly its dataset, and in between it holds
  nothing but documents of this rung (`LadderCorpus`); and a report says what was
  searched from the moment it is made (`ReportTrue`).
- `SweepIsPaidOnce` (`SweepExact`), from `SweepBounds` and `SweepKeys` (the file of
  questions gives each an id of its own, the list of modes names each once): for
  any limit and number of processes that die and are resumed. `SweepInv` says that
  no key has two rows, that the loops have left exactly the places without one,
  and that what the rows say was paid is no more than the account had answered
  when the episode under way began: its costs are the difference, so no answer
  is in two rows. That sum over rows is taken one row at a time (`SumTakes`).
- `JudgeIsBelieved` (`JudgeTrue`), from `JudgingBounds` and `JudgingKeys` (one answer
  an id). `JudgingInv` says that a file of verdicts, present or put aside, is a
  beginning of the answers under one rubric; that labels are of such verdicts;
  and that kappa adopts only on pairs where both readers tell answers apart: if
  one of them does not, the disagreement there is and the one by chance are one
  number (`NoneAdopted`, by `SumGrid`), and kappa is not above the line.

### Only model-checked

- Everything under fairness (`EveryRequestEnds`, `SlotsReturned`,
  `IndexingSettles`, `WaitsEnd`), which is out of the prover's reach.
- `ScoresTrue` and `AnswerFaithful`, which compare a computation over a table or a
  stream with its definition: graders and footnotes are built from recursive
  operators, `SelectSeq` and `SortSeq`, whose value for every input takes an
  induction the provers have no way to state.

## 7. Plan

1. The part of `AnswerFaithful` that needs no fold: which footnotes exist.
   `Chunking` shows the way: its recursions go over positions.
2. Type correctness of the client's modules as theorems: `ListTypeOK` and
   `SessionTypeOK` are stated, and no run checks them.
3. An abstract corpus that changes atomically, with a cache that answers only
   for the present one, and `Documents` as its implementation up to
   `StaleOnlyByRace`.

## 8. Not modelled

- Read-only endpoints (`admin.py`, `traces.py`, `usage.py` of the routers): they
  change nothing.
- Logging and spans: no state the properties speak of. Settings are constants,
  those of the agents' server the state of `AgentGate`. Of the schema: indexes,
  column types and columns that nothing refers to or fills.
- Rendering, styles, copy, prompts, descriptions of tools and JSON shapes.
- The contents of vectors and answers; the model servers, the identity provider,
  the mail service and PostgreSQL beyond what section 3 says.
- Generators of corpora and questions (`eval/corpora/`, all but the balance and the
  split of `build_synthetic.py`; `golden_run.py`,
  `harvest.py`), one-off measurements (`sparse_channels.py`, `candk_sweep.py`,
  `rerank_truncation.py`), the printing of tables, deployment and benchmark
  scripts: they compute fixed data or a table and keep no state.
- `retry-after` headers, prices and the wording of reports, apart from the
  errors an agent is told of.
