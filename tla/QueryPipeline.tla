---------------------------- MODULE QueryPipeline ----------------------------
(***************************************************************************)
(* One question, from the quota gate to its trace row, for the four        *)
(* consumers of app/services/pipeline.py: POST /query, the streamed        *)
(* conversation turn, and the two MCP tools.  Each request is a process    *)
(* whose steps are the awaits of its handler; what the requests share is   *)
(* the usage_events table, the per-account advisory lock, the traces       *)
(* table, the messages table and the wall clock.                           *)
(*                                                                         *)
(* A usage_events row of kind "query" is identified with the request that  *)
(* inserted it (reserve() draws a fresh uuid per request), so the table is *)
(* a function from requests to "none", "reserved" (settled_at NULL) or     *)
(* "settled".                                                              *)
(***************************************************************************)
EXTENDS Integers, FiniteSets

CONSTANTS
    Request,      \* requests that may ever arrive
    User,         \* accounts
    Owner,        \* Owner[r]: the account request r authenticates as
    Source,       \* Source[r]: the consumer that runs it (traces.source)
    DailyLimit,   \* settings.quota_queries_per_day; 0 turns the gate off
    TasterLimit,  \* settings.unverified_quota_queries; 0 turns the gate off
    TTL,          \* settings.reservation_ttl_seconds, in clock ticks
    DayLength,    \* clock ticks per UTC day
    MaxAge,       \* how long a request that still runs may have been running
    MaxTime,      \* bound on the clock
    Faults,       \* the kinds of failure the environment may inject
    NoRequest     \* "nobody" as a lock holder

Sources == {"query", "conversation", "mcp_search", "mcp_answer"}

(***************************************************************************)
(* error     an await of the pipeline raises an Exception (a 404 scope, a  *)
(*           503 from a model server, a provider 429, a database error)    *)
(* cancel    the task is cancelled or its generator closed at an await     *)
(* lost_ack  a COMMIT takes effect but the await on it still raises        *)
(* cleanup   a database call of a failure handler raises                   *)
(* trace     the insert inside tracing.record fails and is swallowed       *)
(* crash     the process running the request dies                          *)
(***************************************************************************)
FaultKinds == {"error", "cancel", "lost_ack", "cleanup", "trace", "crash"}

ASSUME ConstantsOK ==
    /\ IsFiniteSet(Request)
    /\ NoRequest \notin Request
    /\ Owner \in [Request -> User]
    /\ Source \in [Request -> Sources]
    /\ DailyLimit \in Nat
    /\ TasterLimit \in Nat
    /\ TTL \in Nat
    /\ DayLength \in Nat \ {0}
    /\ MaxAge \in Nat
    /\ MaxTime \in Nat
    /\ Faults \subseteq FaultKinds

VARIABLES
    now,        \* the wall clock
    verified,   \* verified[u]: users.email_verified_at is set
    lock,       \* lock[u]: the request inside u's advisory lock, or NoRequest
    doomed,     \* doomed[u]: rows the lock holder's open transaction deleted
    row,        \* row[r]: the usage_events row request r inserted
    traces,     \* traces[r]: how many traces rows request r wrote
    question,   \* question[r]: the turn's user message is stored
    answer,     \* answer[r]: the turn's assistant message is stored
    pc,         \* pc[r]: the await request r has reached
    stamp,      \* stamp[r]: start of r's first transaction (func.now())
    taster,     \* taster[r]: r's User object was loaded unverified
    countedAt,  \* countedAt[r]: when r counted the rows of its account
    hold,       \* hold[r]: runner._reservation_id is not None
    pending,    \* pending[r]: runner._trace_pending
    mode,       \* mode[r]: how far the runner got (see Modes)
    dirty       \* dirty[r]: the session sits on a transaction that failed

tables  == <<row, traces, question, answer>>
gate    == <<lock, doomed>>
arrival == <<stamp, taster, countedAt>>
runner  == <<hold, pending, mode, dirty>>
world   == <<now, verified>>
vars == <<world, gate, tables, pc, arrival, runner>>

\* none: not admitted; open: admitted; hit, answer, search: which of
\* record_cache_hit, finalize and finalize_search the request is headed for.
Modes == {"none", "open", "hit", "answer", "search"}

Admission == {"lock", "check", "reserve"}
Working   == {"scope", "ask", "embed", "lookup", "retrieve", "generate",
              "settle", "store", "trace", "persist"}
Cleanup   == {"release", "discard", "report"}
Ended     == {"answered", "failed", "abandoned"}
Live      == Admission \cup Working \cup Cleanup
PCs       == {"idle"} \cup Live \cup Ended

Init ==
    /\ now = 0
    /\ verified \in [User -> BOOLEAN]
    /\ lock = [u \in User |-> NoRequest]
    /\ doomed = [u \in User |-> {}]
    /\ row = [r \in Request |-> "none"]
    /\ traces = [r \in Request |-> 0]
    /\ question = [r \in Request |-> FALSE]
    /\ answer = [r \in Request |-> FALSE]
    /\ pc = [r \in Request |-> "idle"]
    /\ stamp = [r \in Request |-> 0]
    /\ taster = [r \in Request |-> FALSE]
    /\ countedAt = [r \in Request |-> 0]
    /\ hold = [r \in Request |-> FALSE]
    /\ pending = [r \in Request |-> FALSE]
    /\ mode = [r \in Request |-> "none"]
    /\ dirty = [r \in Request |-> FALSE]

-----------------------------------------------------------------------------
(***************************************************************************)
(* What the counting queries see.                                          *)
(***************************************************************************)
Day(t) == t \div DayLength

\* Faulty: the count skips what is not settled yet.
RowsSettled(u) == {q \in Request : Owner[q] = u /\ row[q] = "settled"}

\* Every row of the account counts, settled or not.
Rows(u) == {q \in Request : Owner[q] = u /\ row[q] # "none"}

\* Inside the lock holder's transaction its own sweep has already happened.
Visible(u) == Rows(u) \ doomed[u]

\* queries_today: created_at >= the start of the current UTC day.
Today(u, t) == {q \in Visible(u) : Day(stamp[q]) >= Day(t)}

\* Faulty: the sweep spares nothing that is unsettled.
StaleAtAnyAge(u, t) == {q \in Rows(u) : row[q] = "reserved"}

\* Faulty: there is no sweep.
StaleNever(u, t) == {}

\* The rows a sweep at time t deletes.
Stale(u, t) == {q \in Rows(u) : row[q] = "reserved" /\ stamp[q] + TTL < t}

\* Faulty: a full allowance still admits.
HasRoomForOneMore(r, t) ==
    LET u == Owner[r]
    IN  IF taster[r]
        THEN TasterLimit = 0 \/ Cardinality(Visible(u)) <= TasterLimit
        ELSE DailyLimit = 0 \/ Cardinality(Today(u, t)) <= DailyLimit

\* An unverified account is measured against its lifetime allowance, and only
\* against that; a verified one against the day.
HasRoom(r, t) ==
    LET u == Owner[r]
    IN  IF taster[r]
        THEN TasterLimit = 0 \/ Cardinality(Visible(u)) < TasterLimit
        ELSE DailyLimit = 0 \/ Cardinality(Today(u, t)) < DailyLimit

-----------------------------------------------------------------------------
(***************************************************************************)
(* Control flow shared by the actions.                                     *)
(***************************************************************************)
Goto(r, label) == pc' = [pc EXCEPT ![r] = label]

\* Faulty: the lock outlives the transaction.
UnlockNever(r) == UNCHANGED gate

\* Rolling back (or losing the connection) frees the advisory lock and undoes
\* the sweep; committing frees the lock as well, but the caller says what
\* becomes of the swept rows.
Unlock(r) ==
    /\ lock' = [lock EXCEPT ![Owner[r]] = IF @ = r THEN NoRequest ELSE @]
    /\ doomed' = [doomed EXCEPT ![Owner[r]] = IF lock[Owner[r]] = r THEN {} ELSE @]

\* Faulty: the handler does not release.
OnErrorReraise(r) == "failed"

\* Faulty: a failure is parked where no handler looks.
OnErrorParked(r) == "parked"

\* Where an Exception lands.  POST /query lets a failure of enforce_limits
\* through untouched; every other failure reaches a release_reservation().
OnError(r) ==
    IF pc[r] \in Admission /\ Source[r] = "query" THEN "failed" ELSE "release"

\* Where a CancelledError or GeneratorExit lands.  _stream_turn catches
\* Exception, not BaseException, so a turn cancelled there runs no handler.
OnCancel(r) == IF Source[r] = "conversation" THEN "abandoned" ELSE OnError(r)

\* A commit that raised leaves the session unusable until a rollback.  In
\* admission enforce_limits rolls back itself; where a read fails instead, the
\* reservation still stands and release_reservation rolls back.
Spoil(r) == dirty' = [dirty EXCEPT ![r] = pc[r] \in {"ask", "settle", "store", "persist"}]

\* The commit at this await may take effect although the await raises.
AckLost(r) ==
    /\ "lost_ack" \in Faults
    /\ \E label \in {OnError(r), OnCancel(r)} : Goto(r, label)
    /\ Spoil(r)

\* The await on a commit returns and leads to label, or it does not return.
Commits(r, label) == (Goto(r, label) /\ UNCHANGED dirty) \/ AckLost(r)

\* The label an await leads to when it returns normally.
AfterScope(r)    == IF Source[r] = "conversation" THEN "ask" ELSE "embed"
AfterEmbed(r)    == IF Source[r] = "mcp_search" THEN "retrieve" ELSE "lookup"
AfterRetrieve(r) == IF Source[r] = "mcp_search" THEN "settle" ELSE "generate"
AfterSettle(r)   == IF mode[r] = "answer" THEN "store" ELSE "trace"
AfterTrace(r)    == IF Source[r] = "conversation" THEN "persist" ELSE "answered"

\* Faulty: the stream reports the failure without discarding the question.
AfterReleaseKeeping(r) ==
    IF Source[r] \in {"conversation", "query"} THEN "report" ELSE "failed"

\* Faulty: the one-shot endpoint reports nothing.
AfterReleaseSilent(r) == IF Source[r] = "conversation" THEN "discard" ELSE "failed"

\* The handlers after release_reservation, in their order.
AfterRelease(r)  == CASE Source[r] = "conversation" -> "discard"
                      [] Source[r] = "query" -> "report"
                      [] OTHER -> "failed"

-----------------------------------------------------------------------------
(***************************************************************************)
(* enforce_limits.                                                         *)
(***************************************************************************)
\* The request authenticates (its transaction begins, its User object is
\* read and never re-read) and asks the per-minute buckets, which answer
\* without an await.
Arrive(r) ==
    /\ pc[r] = "idle"
    /\ stamp' = [stamp EXCEPT ![r] = now]
    /\ taster' = [taster EXCEPT ![r] = ~verified[Owner[r]]]
    /\ \/ Goto(r, "lock")
       \/ Goto(r, IF Source[r] = "query" THEN "failed" ELSE "release")
    /\ UNCHANGED <<world, gate, tables, countedAt, runner>>

\* acquire_quota_lock: one holder per account, and the holder sweeps before
\* it looks at anything.  The deletes stay in its transaction.
TakeLock(r) ==
    LET u == Owner[r]
    IN  /\ pc[r] = "lock"
        /\ lock[u] = NoRequest
        /\ lock' = [lock EXCEPT ![u] = r]
        /\ doomed' = [doomed EXCEPT ![u] = Stale(u, now)]
        /\ Goto(r, "check")
        /\ UNCHANGED <<world, tables, arrival, runner>>

\* unverified_query_exceeded / query_quota_exceeded.  A refusal raises, the
\* rollback gives the lock back and un-does the sweep.
Check(r) ==
    /\ pc[r] = "check"
    /\ countedAt' = [countedAt EXCEPT ![r] = now]
    /\ \/ /\ HasRoom(r, now)
          /\ Goto(r, "reserve")
          /\ UNCHANGED gate
       \/ /\ ~HasRoom(r, now)
          /\ Goto(r, OnError(r))
          /\ Unlock(r)
    /\ UNCHANGED <<world, tables, stamp, taster, runner>>

\* reserve() and the commit that makes the sweep and the row visible together.
Reserve(r) ==
    LET u == Owner[r]
    IN  /\ pc[r] = "reserve"
        /\ row' = [q \in Request |-> IF q = r THEN "reserved"
                                     ELSE IF q \in doomed[u] THEN "none"
                                     ELSE row[q]]
        /\ Unlock(r)
        /\ hold' = [hold EXCEPT ![r] = TRUE]
        /\ \/ /\ Goto(r, "scope")
              /\ pending' = [pending EXCEPT ![r] = TRUE]
              /\ mode' = [mode EXCEPT ![r] = "open"]
              /\ UNCHANGED dirty
           \/ AckLost(r) /\ UNCHANGED <<pending, mode>>
        /\ UNCHANGED <<world, traces, question, answer, arrival>>

-----------------------------------------------------------------------------
(***************************************************************************)
(* The work between admission and settlement.                              *)
(***************************************************************************)
\* resolve_scope finds the document (or the scope is the whole corpus).
ResolveScope(r) ==
    /\ pc[r] = "scope"
    /\ Goto(r, AfterScope(r))
    /\ UNCHANGED <<world, gate, tables, arrival, runner>>

\* The turn's question is committed before anything is generated.
SaveQuestion(r) ==
    /\ pc[r] = "ask"
    /\ question' = [question EXCEPT ![r] = TRUE]
    /\ Commits(r, "embed")
    /\ UNCHANGED <<world, gate, row, traces, answer, arrival, hold, pending, mode>>

Embed(r) ==
    /\ pc[r] = "embed"
    /\ Goto(r, AfterEmbed(r))
    /\ UNCHANGED <<world, gate, tables, arrival, runner>>

\* cached_answer: a hit goes straight to record_cache_hit.
Lookup(r) ==
    /\ pc[r] = "lookup"
    /\ \/ Goto(r, "settle") /\ mode' = [mode EXCEPT ![r] = "hit"]
       \/ Goto(r, "retrieve") /\ UNCHANGED mode
    /\ UNCHANGED <<world, gate, tables, arrival, hold, pending, dirty>>

\* retrieve (+ rerank).  An MCP search ends here.
Retrieve(r) ==
    /\ pc[r] = "retrieve"
    /\ Goto(r, AfterRetrieve(r))
    /\ mode' = [mode EXCEPT ![r] = IF Source[r] = "mcp_search" THEN "search" ELSE @]
    /\ UNCHANGED <<world, gate, tables, arrival, hold, pending, dirty>>

\* generate.answer_question, or the token stream: an answer or a refusal.
Generate(r) ==
    /\ pc[r] = "generate"
    /\ Goto(r, "settle")
    /\ mode' = [mode EXCEPT ![r] = "answer"]
    /\ UNCHANGED <<world, gate, tables, arrival, hold, pending, dirty>>

-----------------------------------------------------------------------------
(***************************************************************************)
(* record_cache_hit, finalize and finalize_search.                         *)
(***************************************************************************)
\* Faulty: nobody lowers the flag before recording.
StillPendingAfterServing(r) == pending[r]

\* record_cache_hit and finalize_search lower _trace_pending before anything
\* else can happen; finalize leaves it up.
StillPending(r) == pending[r] /\ mode[r] = "answer"

\* commit_reservation: UPDATE ... WHERE id = ?, zero rows when the row was
\* swept; it waits while a sweeper's open transaction holds the row.
Settle(r) ==
    /\ pc[r] = "settle"
    /\ r \notin doomed[Owner[r]]
    /\ row' = [row EXCEPT ![r] = IF @ = "none" THEN @ ELSE "settled"]
    /\ \/ /\ Goto(r, AfterSettle(r))
          /\ hold' = [hold EXCEPT ![r] = FALSE]
          /\ pending' = [pending EXCEPT ![r] = StillPending(r)]
          /\ UNCHANGED dirty
       \/ AckLost(r) /\ UNCHANGED <<hold, pending>>
    /\ UNCHANGED <<world, gate, traces, question, answer, arrival, mode>>

\* cache.store, a commit of its own between the charge and the trace.
Store(r) ==
    /\ pc[r] = "store"
    /\ Commits(r, "trace")
    /\ UNCHANGED <<world, gate, tables, arrival, hold, pending, mode>>

\* tracing.record: writes one row, or fails and says nothing.  Only a
\* cancellation gets out of it.
Trace(r) ==
    /\ pc[r] = "trace"
    /\ \/ /\ traces' = [traces EXCEPT ![r] = @ + 1]
          /\ \/ Goto(r, AfterTrace(r))
             \/ "lost_ack" \in Faults /\ Goto(r, OnCancel(r))
       \/ /\ "trace" \in Faults
          /\ Goto(r, AfterTrace(r))
          /\ UNCHANGED traces
    /\ UNCHANGED <<world, gate, row, question, answer, arrival, runner>>

\* _persist_answer: the assistant message of the turn.
PersistAnswer(r) ==
    /\ pc[r] = "persist"
    /\ answer' = [answer EXCEPT ![r] = TRUE]
    /\ Commits(r, "answered")
    /\ UNCHANGED <<world, gate, row, traces, question, arrival, hold, pending, mode>>

-----------------------------------------------------------------------------
(***************************************************************************)
(* The failure handlers, in the order the code runs them.                  *)
(***************************************************************************)
\* QueryRunner.release_reservation: nothing at all without a reservation id (no
\* rollback either), otherwise a rollback and DELETE ... WHERE id = ?, whatever
\* the row has become.
Release(r) ==
    /\ pc[r] = "release"
    /\ \/ /\ ~hold[r]
          /\ Goto(r, AfterRelease(r))
          /\ UNCHANGED <<row, hold, dirty>>
       \/ /\ hold[r]
          /\ r \notin doomed[Owner[r]]
          /\ row' = [row EXCEPT ![r] = "none"]
          /\ \/ /\ Goto(r, AfterRelease(r))
                /\ hold' = [hold EXCEPT ![r] = FALSE]
                /\ dirty' = [dirty EXCEPT ![r] = FALSE]
             \/ "lost_ack" \in Faults /\ Goto(r, "abandoned") /\ UNCHANGED <<hold, dirty>>
    /\ UNCHANGED <<world, gate, traces, question, answer, arrival, pending, mode>>

\* _discard_unanswered rolls back and deletes the question, if the turn got as
\* far as choosing its id; what goes wrong is swallowed.
Discard(r) ==
    /\ pc[r] = "discard"
    /\ \/ /\ question' = [question EXCEPT ![r] = FALSE]
          /\ dirty' = [dirty EXCEPT ![r] = FALSE]
       \/ "cleanup" \in Faults /\ UNCHANGED <<question, dirty>>
    /\ Goto(r, "report")
    /\ UNCHANGED <<world, gate, row, traces, answer, arrival, hold, pending, mode>>

\* Faulty: record_failure does not look at _trace_pending.
MayReportAnything(r) == ~dirty[r]

\* A session nobody rolled back refuses the insert; tracing.record swallows that.
MayReport(r) == pending[r] /\ ~dirty[r]

\* record_failure: one trace row if none was accounted for yet.
Report(r) ==
    /\ pc[r] = "report"
    /\ pending' = [pending EXCEPT ![r] = FALSE]
    /\ \/ MayReport(r) /\ traces' = [traces EXCEPT ![r] = @ + 1]
       \/ (~MayReport(r) \/ "trace" \in Faults) /\ UNCHANGED traces
    /\ dirty' = [dirty EXCEPT ![r] = FALSE]
    /\ Goto(r, "failed")
    /\ UNCHANGED <<world, gate, row, question, answer, arrival, hold, mode>>

-----------------------------------------------------------------------------
(***************************************************************************)
(* What the environment does to a request.                                 *)
(***************************************************************************)
\* An await raises and took no effect.  reserve() has stored the id of the
\* row by the time its commit can fail.  tracing.record raises nothing.
Fail(r) ==
    /\ "error" \in Faults
    /\ pc[r] \in Admission \cup (Working \ {"trace"})
    /\ hold' = [hold EXCEPT ![r] = @ \/ pc[r] = "reserve"]
    /\ Unlock(r)
    /\ Goto(r, OnError(r))
    /\ Spoil(r)
    /\ UNCHANGED <<world, tables, arrival, pending, mode>>

\* The client left, or the server is shutting down.
Cancel(r) ==
    /\ "cancel" \in Faults
    /\ pc[r] \in Admission \cup Working
    /\ hold' = [hold EXCEPT ![r] = @ \/ pc[r] = "reserve"]
    /\ Unlock(r)
    /\ Goto(r, OnCancel(r))
    /\ Spoil(r)
    /\ UNCHANGED <<world, tables, arrival, pending, mode>>

\* A handler does not get to its end: the database is gone, or the
\* cancellation arrives again inside the handler.
CleanupFails(r) ==
    /\ \/ "cleanup" \in Faults /\ pc[r] = "release" /\ hold[r]
       \/ "cancel" \in Faults /\ pc[r] \in Cleanup
    /\ Goto(r, "abandoned")
    /\ UNCHANGED <<world, gate, tables, arrival, runner>>

\* The process dies; the database rolls the open transaction back.
Die(r) ==
    /\ "crash" \in Faults
    /\ pc[r] \in Live
    /\ Unlock(r)
    /\ Goto(r, "abandoned")
    /\ UNCHANGED <<world, tables, arrival, runner>>

\* The account follows its verification link; there is no way back.
Verify(u) ==
    /\ ~verified[u]
    /\ verified' = [verified EXCEPT ![u] = TRUE]
    /\ UNCHANGED <<now, gate, tables, pc, arrival, runner>>

\* Time passes, but no request runs longer than MaxAge.
Tick ==
    /\ now < MaxTime
    /\ \A r \in Request : pc[r] \in Live => now < stamp[r] + MaxAge
    /\ now' = now + 1
    /\ UNCHANGED <<verified, gate, tables, pc, arrival, runner>>

AllDone ==
    /\ \A r \in Request : pc[r] \in Ended
    /\ UNCHANGED vars

-----------------------------------------------------------------------------
Step(r) ==
    \/ TakeLock(r) \/ Check(r) \/ Reserve(r)
    \/ ResolveScope(r) \/ SaveQuestion(r) \/ Embed(r) \/ Lookup(r)
    \/ Retrieve(r) \/ Generate(r)
    \/ Settle(r) \/ Store(r) \/ Trace(r) \/ PersistAnswer(r)
    \/ Release(r) \/ Discard(r) \/ Report(r)

Next ==
    \/ \E r \in Request : Arrive(r)
    \/ \E r \in Request : Step(r)
    \/ \E r \in Request : Fail(r)
    \/ \E r \in Request : Cancel(r)
    \/ \E r \in Request : CleanupFails(r)
    \/ \E r \in Request : Die(r)
    \/ \E u \in User : Verify(u)
    \/ Tick
    \/ AllDone

Spec == Init /\ [][Next]_vars

\* The event loop keeps running every task, the model servers answer or fail,
\* and PostgreSQL grants a free lock; clients and clocks owe nothing.
FairSpec == Spec /\ \A r \in Request : WF_vars(Step(r))

-----------------------------------------------------------------------------
(***************************************************************************)
(* Properties.                                                             *)
(***************************************************************************)
Status == {"none", "reserved", "settled"}

\* Every variable keeps its type: the tables, the lock, the clock and the
\* per-request state of a QueryRunner.
TypeOK ==
    /\ now \in 0..MaxTime
    /\ verified \in [User -> BOOLEAN]
    /\ lock \in [User -> Request \cup {NoRequest}]
    /\ doomed \in [User -> SUBSET Request]
    /\ row \in [Request -> Status]
    /\ traces \in [Request -> Nat]
    /\ question \in [Request -> BOOLEAN]
    /\ answer \in [Request -> BOOLEAN]
    /\ pc \in [Request -> PCs]
    /\ stamp \in [Request -> 0..MaxTime]
    /\ taster \in [Request -> BOOLEAN]
    /\ countedAt \in [Request -> 0..MaxTime]
    /\ hold \in [Request -> BOOLEAN]
    /\ pending \in [Request -> BOOLEAN]
    /\ mode \in [Request -> Modes]
    /\ dirty \in [Request -> BOOLEAN]

\* As long as an account is unverified it never owns more query rows than its
\* lifetime allowance, however its requests interleave and whatever the sweep
\* removes (acquire_quota_lock, unverified_query_exceeded, reserve).
TasterHolds ==
    TasterLimit > 0 =>
        \A u \in User : ~verified[u] =>
            Cardinality({q \in Request : Owner[q] = u /\ row[q] # "none"}) <= TasterLimit

\* The rows an account opened and counted on one day never exceed the daily
\* limit, even across the moment it verifies (query_quota_exceeded under the
\* advisory lock).  It needs an allowance that is on and no larger.
DailyHolds ==
    TasterLimit \in 1..DailyLimit =>
        \A u \in User, d \in {Day(t) : t \in 0..MaxTime} :
            Cardinality({q \in Request : /\ Owner[q] = u
                                         /\ row[q] # "none"
                                         /\ Day(stamp[q]) = d
                                         /\ Day(countedAt[q]) = d}) <= DailyLimit

\* queries_today read at any moment stays within the limit: the calendar-day
\* window the module docstring of usage.py states.
CalendarDayHolds ==
    TasterLimit \in 1..DailyLimit =>
        \A u \in User, d \in {Day(t) : t \in 0..MaxTime} :
            Cardinality({q \in Request : /\ Owner[q] = u
                                         /\ row[q] # "none"
                                         /\ Day(stamp[q]) = d}) <= DailyLimit

\* A request that was answered has its row, settled: no concurrent sweep took
\* the reservation of a request that was still running.  It needs a TTL no
\* shorter than the longest request (reservation_ttl_seconds).
AnsweredIsCharged == \A r \in Request : pc[r] = "answered" => row[r] = "settled"

\* A reserved slot belongs to a request that still runs and knows it must give
\* it back, or to one whose process or task was lost; a request that failed
\* through its handlers holds nothing (release_reservation on every path).
ReservationOwned ==
    \A r \in Request : row[r] = "reserved" =>
        \/ pc[r] \in Live /\ hold[r]
        \/ pc[r] = "abandoned"

-----------------------------------------------------------------------------
(***************************************************************************)
(* Why they hold: the inductive invariants of the two quota arguments.     *)
(***************************************************************************)
\* The lock table and the labels agree: who counts or reserves holds the lock
\* of its account, and nobody else does.
LockHeld ==
    /\ \A u \in User, r \in Request :
          lock[u] = r => Owner[r] = u /\ pc[r] \in {"check", "reserve"}
    /\ \A r \in Request : pc[r] \in {"check", "reserve"} => lock[Owner[r]] = r

\* Nobody has a row before its reserve() is committed.
RowAfterAdmission ==
    \A r \in Request : pc[r] \in {"idle"} \cup Admission => row[r] = "none"

\* A request of an account that is still unverified knows it.
TasterKnown ==
    \A r \in Request : pc[r] \in Admission /\ ~verified[Owner[r]] => taster[r]

\* What the count found is still true when the row is inserted.
RoomKept == \A r \in Request : pc[r] = "reserve" => HasRoom(r, countedAt[r])

\* Between the count and the insert nobody can take the room: the reason the
\* limits hold.
AdmissionInv ==
    /\ LockHeld
    /\ RowAfterAdmission
    /\ TasterKnown
    /\ RoomKept
    /\ TasterHolds
    /\ DailyHolds

BeforeCharge == {"scope", "ask", "embed", "lookup", "retrieve", "generate", "settle"}
AfterCharge  == {"store", "trace", "persist", "answered"}

\* A running request is younger than MaxAge, a sweep only ever picks rows whose
\* request is over without an answer, and so a request keeps its row from
\* reserve() to commit_reservation() and after: the reason an answer is charged.
ChargeInv ==
    /\ \A r \in Request :
          /\ pc[r] \in Live => now <= stamp[r] + MaxAge
          /\ pc[r] \in {"idle"} \cup Admission => row[r] = "none"
          /\ pc[r] \in BeforeCharge => row[r] = "reserved"
          /\ pc[r] \in AfterCharge => row[r] = "settled"
    /\ \A u \in User : \A q \in doomed[u] : pc[q] \in {"failed", "abandoned"}

-----------------------------------------------------------------------------
(***************************************************************************)
(* Failures, threads, traces and progress.                                 *)
(***************************************************************************)
\* Nobody who failed or was abandoned leaves a reservation behind, except for a
\* process that died: the docstring of release_reservation.
FailureReleases ==
    \A r \in Request : pc[r] \in {"failed", "abandoned"} => row[r] # "reserved"

\* The rows that deserve to count against request r: the settled ones of its
\* account, and the reservations no older than the TTL when the request came.
Deserving(r) ==
    {q \in Request : /\ Owner[q] = Owner[r]
                     /\ \/ row[q] = "settled"
                        \/ row[q] = "reserved" /\ stamp[q] + TTL >= stamp[r]}

RefusalsDeserved ==
    \A r \in Request : Check(r) /\ ~HasRoom(r, now) =>
        IF taster[r]
        THEN Cardinality(Deserving(r)) >= TasterLimit
        ELSE Cardinality({q \in Deserving(r) : Day(stamp[q]) >= Day(now)}) >= DailyLimit

\* A request is refused only when its own account's allowance is used up by rows
\* that deserve to count.  So a slot whose process died locks nobody out for
\* longer (the sweep before the count), nor do the rows of another account.
RefusedAtLimit == [][RefusalsDeserved]_vars

\* A turn is stored as a pair or not at all: an answered turn has its question
\* and its answer, a failed one has neither.
ThreadPaired ==
    \A r \in Request : Source[r] = "conversation" =>
        /\ pc[r] = "answered" => question[r] /\ answer[r]
        /\ pc[r] = "failed" => ~question[r] /\ ~answer[r]

\* A turn that produced no answer leaves no question in the history, however
\* it ended short of the process dying (_discard_unanswered).
NoOrphanQuestion ==
    \A r \in Request : pc[r] \in Ended /\ ~answer[r] => ~question[r]

\* One request never writes two traces (_trace_pending).
AtMostOneTrace == \A r \in Request : traces[r] <= 1

\* A request served from the cache, or an MCP search, never writes two traces,
\* whatever fails after its row was written: record_cache_hit and
\* finalize_search lower _trace_pending before they record.
ServedTracedOnce == \A r \in Request : mode[r] \in {"hit", "search"} => traces[r] <= 1

\* Every answered request left exactly one trace, and a request the gate
\* refused left neither a trace nor a slot.
TraceFollowsAdmission ==
    \A r \in Request :
        /\ pc[r] = "answered" => traces[r] = 1
        /\ pc[r] = "failed" /\ mode[r] = "none" => traces[r] = 0 /\ row[r] = "none"

\* A one-shot or streamed request that failed before its charge left its trace:
\* the rollback in release_reservation came first and made the session usable.
UnchargedFailureTraced ==
    \A r \in Request :
        (pc[r] = "failed" /\ mode[r] # "none" /\ row[r] # "settled"
            /\ Source[r] \in {"query", "conversation"}) => traces[r] = 1

\* An admitted request that failed left its trace: the Trace docstring of
\* models.py, "A row exists for every admitted request".
AdmittedIsTraced ==
    \A r \in Request : pc[r] = "failed" /\ mode[r] # "none" => traces[r] >= 1

\* Every request that arrived ends, whatever the others do with the lock.
EveryRequestEnds == \A r \in Request : (pc[r] \in Live) ~> (pc[r] \in Ended)

\* Every reserved slot is eventually settled or given back, unless its task was
\* cut off: the process died, or the stream was cancelled.
SlotsReturned ==
    \A r \in Request : (row[r] = "reserved") ~> (row[r] # "reserved" \/ pc[r] = "abandoned")
=============================================================================
