------------------------------ MODULE Schema ------------------------------
(***************************************************************************)
(* The tables (app/models.py), the revisions that made them                *)
(* (alembic/versions) and the start-up that applies what is missing        *)
(* (app/main.py, app/db.py, alembic/env.py): databases of every age meet   *)
(* processes that start at once and an operator who goes back.             *)
(*                                                                         *)
(* A row is [id, table, since, col, truth]: what its columns say, what the *)
(* program meant them to say, and the oldest schema it has lived under.    *)
(* References are ids, 0 where there is none; of the other columns those   *)
(* are kept that a revision added.  The program that runs is the one of    *)
(* the last revision; each of its writes is one transaction here, their    *)
(* steps are in Documents, Accounts, QueryPipeline and Harness.            *)
(***************************************************************************)
EXTENDS Integers, Sequences, SequencesExt, FiniteSets, FiniteSetsExt

CONSTANTS
    Process,        \* servers that may start at the same time
    Founded,        \* the schemas databases may be found at
    Targets,        \* where an operator may go back to
    MaxDowngrades, MaxWrites    \* bounds

ASSUME SchemaBounds ==
    {MaxDowngrades, MaxWrites} \subseteq Nat /\ (Founded \cup Targets) \subseteq 0 .. 14

VARIABLES
    version,    \* alembic_version
    rows,       \* the rows of all tables
    startup,    \* startup[p]: [phase, read], read being the version it found
    undone,     \* an operator went back while a process was up
    downgrades, nextId

schema == <<version, rows, startup, undone, downgrades, nextId>>

-----------------------------------------------------------------------------
(* The revisions: the tables each creates, with their references, and the  *)
(* columns it adds, with what it puts into the rows there are.             *)
Creates(table, columns) == [table |-> table, columns |-> columns, fill |-> "nothing"]
Adds(table, column, fill) == [table |-> table, columns |-> {column}, fill |-> fill]

Seed == 1
Initial == {Creates("documents", {}), Creates("chunks", {"document"})}
Sparse == {Adds("chunks", "sparse", "null")}
Ownership == {Creates("users", {}), Creates("sessions", {"user"}), Adds("documents", "owner", "seed")}
UsageAndCache == {Creates("usage", {"user"}), Creates("cache", {"user", "document"})}
Traces == {Creates("traces", {"user", "document"}), Creates("trace_chunks", {"trace"})}
Conversations == {Creates("conversations", {"user", "scope"}), Creates("messages", {"conversation"})}
MessageScope == {Adds("messages", "scope", "everything")}
Verification == {Adds("users", "verified", "then"), Creates("tokens", {"user"})}
\* (A version that leaves the uses there are as they are.)
SettlementBare == {Adds("usage", "settled", "null")}
Settlement == {Adds("usage", "settled", "then")}
TraceFailures == {Adds("traces", "status", "null")}
EvalRuns == {Creates("runs", {}), Creates("results", {"run"})}
TraceSource == {Adds("traces", "source", "legacy")}
RunConditions == {Adds("runs", "cut", "null")}
\* McpAnswer changes no column: it allows one more source.
McpAnswer == {}

Revisions ==
    <<Initial, Sparse, Ownership, UsageAndCache, Traces, Conversations, MessageScope, Verification,
      Settlement, TraceFailures, EvalRuns, TraceSource, RunConditions, McpAnswer>>
Newest == Len(Revisions)

Tables(v) == {c.table : c \in UNION {Revisions[n] : n \in 1 .. v}}
Columns ==
    [v \in 0 .. Newest |-> [t \in Tables(v) |->
        UNION {c.columns : c \in {c \in UNION {Revisions[n] : n \in 1 .. v} : c.table = t}}]]
\* Where a column comes from: the revision, and what it filled it with.
Added ==
    [t \in Tables(Newest) |-> [k \in Columns[Newest][t] |->
        CHOOSE n \in 1 .. Newest : \E c \in Revisions[n] : c.table = t /\ k \in c.columns]]
FillOf(table, column) ==
    LET fill == (CHOOSE c \in Revisions[Added[table][column]] : c.table = table /\ column \in c.columns).fill
    IN  CASE fill = "seed" -> Seed [] fill = "everything" -> 0 [] OTHER -> fill

-----------------------------------------------------------------------------
(* The models: the tables the program knows, with the columns it names.    *)
Model(table, columns) == [table |-> table, columns |-> columns]
AccountModels == {Model("users", {"verified"}), Model("sessions", {"user"}), Model("tokens", {"user"})}
DocumentModels == {Model("documents", {"owner"}), Model("chunks", {"document", "sparse"})}
UsageModels == {Model("usage", {"user", "settled"})}
TraceModels == {Model("traces", {"user", "document", "status", "source"}), Model("trace_chunks", {"trace"})}
ChatModels == {Model("conversations", {"user", "scope"}), Model("messages", {"conversation", "scope"})}
EvalModels == {Model("runs", {"cut"}), Model("results", {"run"})}
CacheModels == {Model("cache", {"user", "document"})}
Models ==
    AccountModels \cup DocumentModels \cup UsageModels \cup TraceModels
        \cup ChatModels \cup EvalModels \cup CacheModels

\* Whether the tables have the columns the program names, and no others.
Fits(tables) == 
    \A m \in Models : m.table \in tables =>
        m.table \in Tables(version) /\ Columns[version][m.table] = m.columns

\* traces_source_check.
Allowed(v) == {"query", "conversation", "mcp_search", "legacy"} \cup IF v = Newest THEN {"mcp_answer"} ELSE {}

\* What the deletion of a row does to those that refer to it; the references
\* of traces and messages to documents, and those of saved results, are no
\* foreign keys.
Cascading ==
    {<<"chunks", "document">>, <<"documents", "owner">>, <<"sessions", "user">>, <<"usage", "user">>,
     <<"cache", "user">>, <<"cache", "document">>, <<"traces", "user">>, <<"trace_chunks", "trace">>,
     <<"conversations", "user">>, <<"messages", "conversation">>, <<"tokens", "user">>, <<"results", "run">>}
Nulling == {<<"conversations", "scope">>}

\* Nothing that is deleted here has references two levels deep.
Without(gone) ==
    LET ids == {r.id : r \in gone}
        Refers(r, keys) == {c \in DOMAIN r.col : <<r.table, c>> \in keys /\ r.col[c] \in ids}
        Nulled(f, r) == [c \in DOMAIN f |-> IF c \in Refers(r, Nulling) THEN 0 ELSE f[c]]
    IN  {[r EXCEPT !.col = Nulled(@, r), !.truth = Nulled(@, r)] :
            r \in {r \in rows \ gone : Refers(r, Cascading) = {}}}

-----------------------------------------------------------------------------
\* A row as a program of schema v writes it.
RowOf(id, table, v, truth) ==
    [id |-> id, table |-> table, since |-> v, truth |-> truth,
     col |-> [c \in Columns[v][table] |-> truth[c]]]

SeedRow(v) == RowOf(Seed, "users", v, [verified |-> IF v < 8 THEN "null" ELSE "then"])

\* A database that is found: an account, its documents, what it did.
Old(v) ==
    LET found ==
          {<<2, "users", [verified |-> IF v < 8 THEN "null" ELSE "then"]>>,
           <<3, "documents", [owner |-> IF v < 3 THEN Seed ELSE 2]>>,
           <<4, "chunks", [document |-> 3, sparse |-> "vector"]>>,
           <<5, "usage", [user |-> 2, settled |-> "then"]>>,
           <<6, "traces", [user |-> 2, document |-> 3, status |-> "null", source |-> "query"]>>,
           <<7, "conversations", [user |-> 2, scope |-> 3]>>,
           <<8, "messages", [conversation |-> 7, scope |-> 0]>>}
    IN  {RowOf(f[1], f[2], v, f[3]) : f \in {f \in found : f[2] \in Tables(v)}}
          \cup IF v >= 3 THEN {SeedRow(v)} ELSE {}

Down == [phase |-> "down", read |-> 0]
Serves == [phase |-> "serving", read |-> Newest]

\* Every process is down; nothing has been written by the program of today.
SchemaInit ==
    /\ version \in Founded /\ rows = Old(version)
    /\ startup = [p \in Process |-> Down]
    /\ undone = FALSE /\ downgrades = 0 /\ nextId = 10

-----------------------------------------------------------------------------
\* run_migrations: alembic reads the version first,
ReadVersion(p) ==
    /\ startup[p].phase = "down"
    /\ startup' = [startup EXCEPT ![p] = [phase |-> "starting", read |-> version]]
    /\ UNCHANGED <<version, rows, undone, downgrades, nextId>>

Upgraded(r) ==
    [r EXCEPT !.col = [c \in Columns[Newest][r.table] |->
                          IF c \in DOMAIN r.col THEN r.col[c] ELSE FillOf(r.table, c)]]

\* and applies what is missing in one transaction, or none of it: nobody
\* locks, and where another process was first, what it creates is there.
RunMigrations(p) ==
    /\ startup[p].phase = "starting"
    /\ LET read == startup[p].read
       IN  /\ startup' = [startup EXCEPT ![p] = IF read \in {version, Newest} THEN Serves ELSE Down]
           /\ IF read = version /\ read < Newest
              THEN /\ version' = Newest /\ undone' = FALSE
                   /\ rows' = {Upgraded(r) : r \in rows \cup IF version < 3 THEN {SeedRow(3)} ELSE {}}
              ELSE UNCHANGED <<version, rows, undone>>
    /\ UNCHANGED <<downgrades, nextId>>

\* A process ends, whatever it was doing.
Terminate(p) ==
    /\ startup[p].phase # "down"
    /\ startup' = [startup EXCEPT ![p] = Down]
    /\ UNCHANGED <<version, rows, undone, downgrades, nextId>>

\* The rows that outlive the way back to schema v: 0014 deletes what the old
\* list of sources does not allow, dropped tables and columns are gone.
Downgraded(v) ==
    {[r EXCEPT !.col = [c \in Columns[v][r.table] |-> r.col[c]], !.since = Min({r.since, v})] :
        r \in {r \in Without({r \in rows : r.table = "traces" /\ version = Newest /\ r.col.source = "mcp_answer"}) :
                r.table \in Tables(v)}}

Downgrade ==
    /\ downgrades < MaxDowngrades /\ downgrades' = downgrades + 1
    /\ \E v \in Targets : v < version /\ version' = v /\ rows' = Downgraded(v)
    /\ undone' = (undone \/ \E p \in Process : startup[p].phase # "down")
    /\ UNCHANGED <<startup, nextId>>

-----------------------------------------------------------------------------
(* What the program writes.  It names every column of its models, so it    *)
(* fails on a table that lacks one.                                        *)
Up(tables) == (\E p \in Process : startup[p].phase = "serving") /\ Fits({"users"} \cup tables)
In(table) == {r \in rows : r.table = table}
Now(id, table, truth) == RowOf(id, table, version, truth)
\* Who can log in, and what a question can be asked of.
People == {u.id : u \in In("users")} \ {Seed}
Scopes == {0} \cup {d.id : d \in In("documents")}

\* (nextId counts the writes.)
Write(kept, new) ==
    /\ nextId < 10 + 2 * MaxWrites /\ nextId' = nextId + 2
    /\ rows' = kept \cup new
    /\ UNCHANGED <<version, startup, undone, downgrades>>

\* An account, with the link that is to verify it; and the link.
SignUp ==
    /\ Up({"tokens"})
    /\ Write(rows, {Now(nextId, "users", [verified |-> "null"]), Now(nextId + 1, "tokens", [user |-> nextId])})
VerifyEmail ==
    /\ Up({"tokens"})
    /\ \E t \in In("tokens") : \E u \in {u \in In("users") : u.id = t.col.user /\ u.col.verified = "null"} :
         Write(rows \ {u}, {[u EXCEPT !.col.verified = "then", !.truth.verified = "then"]})

\* A document with its chunks; a cached answer over it, or over all.
Ingest ==
    /\ Up({"documents", "chunks"})
    /\ \E u \in People :
         Write(rows, {Now(nextId, "documents", [owner |-> u]),
                      Now(nextId + 1, "chunks", [document |-> nextId, sparse |-> "vector"])})
StoreAnswer ==
    /\ Up({"cache"})
    /\ \E u \in People, d \in Scopes : Write(rows, {Now(nextId, "cache", [user |-> u, document |-> d])})

\* A use is reserved and settled with a trace, or taken back with another; a
\* trace that the schema refuses is lost, the answer is not.  A reservation
\* that nobody settles is swept.
ReserveUse ==
    /\ Up({"usage"})
    /\ \E u \in People : Write(rows, {Now(nextId, "usage", [user |-> u, settled |-> "null"])})
TraceOf(user, document, status, source) ==
    IF Fits({"traces"}) /\ source \in Allowed(version)
    THEN {Now(nextId, "traces", [user |-> user, document |-> document, status |-> status, source |-> source]),
          Now(nextId + 1, "trace_chunks", [trace |-> nextId])}
    ELSE {}
Reserved == {r \in In("usage") : r.col.settled = "null"}
SettleUse ==
    /\ Up({"usage"})
    /\ \E r \in Reserved, d \in Scopes, source \in {"query", "mcp_answer"} :
         Write(rows \ {r}, {[r EXCEPT !.col.settled = "then", !.truth.settled = "then"]}
                              \cup TraceOf(r.col.user, d, "null", source))
FailUse == Up({"usage"}) /\ \E r \in Reserved : Write(rows \ {r}, TraceOf(r.col.user, 0, "503", "query"))
SweepUses == Up({"usage"}) /\ Reserved # {} /\ Write(rows \ Reserved, {})

\* A turn keeps the scope it was asked under.
Turn ==
    /\ Up({"conversations", "messages"})
    /\ \E c \in In("conversations") :
         Write(rows, {Now(nextId, "messages", [conversation |-> c.id, scope |-> c.col.scope])})

\* The harness saves a run and its rows.
SaveRun ==
    /\ Fits({"runs", "results"}) /\ Write(rows, {Now(nextId, "runs", [cut |-> "section"]),
                                                 Now(nextId + 1, "results", [run |-> nextId])})

\* scripts/backfill_sparse.py: chunks from before 0002 get their vector.
Backfill ==
    LET bare == {r \in In("chunks") : r.col.sparse = "null"}
    IN  Fits({"chunks"}) /\ bare # {} /\ Write(rows \ bare, {[r EXCEPT !.col.sparse = r.truth.sparse] : r \in bare})

RemoveDocument ==
    /\ Up({"documents"}) /\ \E d \in In("documents") : d.col.owner \in People /\ Write(Without({d}), {})
RemoveConversation ==
    /\ Up({"conversations"}) /\ \E c \in In("conversations") : Write(Without({c}), {})

SchemaNext ==
    \/ \E p \in Process : ReadVersion(p) \/ RunMigrations(p) \/ Terminate(p)
    \/ Downgrade
    \/ SignUp \/ VerifyEmail \/ Ingest \/ StoreAnswer
    \/ ReserveUse \/ SettleUse \/ FailUse \/ SweepUses
    \/ Turn \/ SaveRun \/ Backfill \/ RemoveDocument \/ RemoveConversation

-----------------------------------------------------------------------------
Backed(r, c) == r.since < Added[r.table][c] /\ r.col[c] = FillOf(r.table, c)

\* A database survives its own history.  Whatever age it was found at,
\* whoever started at once and however far an operator went back: its rows
\* have the columns of its version, and at the newest those the models name; a column says what was meant, or what its
\* revision puts into rows that never had it, and that is never a reservation
\* where there was a use (the next sweep would delete what was used) nor an
\* account that cannot get in; nothing refers to what is gone; no trace has a
\* source its version does not allow; and a server that serves can write all
\* it has models for, unless somebody took that away under it.
SchemaTrue ==
    /\ \A r \in rows :
         /\ r.table \in Tables(version) /\ DOMAIN r.col = Columns[version][r.table]
         /\ version = Newest => Model(r.table, DOMAIN r.col) \in Models
         /\ \A c \in DOMAIN r.col : r.col[c] = r.truth[c] \/ Backed(r, c)
         /\ r.table = "usage" /\ "settled" \in DOMAIN r.col => (r.col.settled = "null" => r.truth.settled = "null")
         /\ r.table = "users" /\ "verified" \in DOMAIN r.col => (r.col.verified = "null" => r.since >= 8)
         /\ \A c \in DOMAIN r.col : <<r.table, c>> \in Cascading \cup Nulling =>
              r.col[c] \in {0} \cup {t.id : t \in rows}
         /\ r.table = "traces" /\ "source" \in DOMAIN r.col => r.col.source \in Allowed(version)
    /\ \A p \in Process : startup[p].phase = "serving" /\ ~undone => Fits({m.table : m \in Models})

-----------------------------------------------------------------------------
(* What the code does not keep.                                            *)

\* 0010: no status means that the question did not fail.  But a failure that
\* was recorded is a success once an operator has been behind 0010.
NoStatusIsSuccess ==
    \A r \in In("traces") : "status" \in DOMAIN r.col => (r.col.status = "null" => r.truth.status = "null")

\* 0008: the gate holds for every account that signs up after it.  But an
\* account is verified by going back and coming again.
GateHolds ==
    \A r \in In("users") : "verified" \in DOMAIN r.col /\ r.id >= 10 =>
        (r.col.verified # "null" => r.truth.verified # "null")

\* 0009: an orphaned reservation can be told from a use.  But behind 0009 it
\* becomes one, and nobody takes it back.
OrphansAreTold == \A r \in In("usage") : "settled" \in DOMAIN r.col => (r.truth.settled = "null" => r.col.settled = "null")
=============================================================================
