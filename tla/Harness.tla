------------------------------ MODULE Harness ------------------------------
(***************************************************************************)
(* The retrieval harness (eval/harness.py) and the sweeps' corpora: the    *)
(* documents an evaluation account owns are the corpus, so a run first     *)
(* makes them exactly its dataset, then scores every question and saves    *)
(* one run per configuration; `ab` walks a ladder of chunkings and reuses  *)
(* an index only where the chunking stays.  `diff` compares two saved runs *)
(* and fails the build on a regression.                                    *)
(*                                                                         *)
(* One command runs at a time; it may die between any two transactions.    *)
(* A question's score is 0 or 1: whether its gold was retrieved.           *)
(***************************************************************************)
EXTENDS Integers, Sequences, SequencesExt, FiniteSets

CONSTANTS
    Question, SplitOf,      \* the questions, and the split each belongs to
    Name,                   \* file names
    DocsOf,                 \* Dataset :> the sequence of its documents' names
    SweepDocs,              \* the sequence of names the agent sweeps index
    Cut,                    \* chunk settings
    Ladder,                 \* the rungs of `ab`: sequence of [cut, config]
    ConfigLists,            \* what --config may list
    Splits,                 \* what --split may be
    MaxCommands, MaxRuns, MaxEdits    \* bounds

ASSUME HarnessBounds == MaxCommands \in Nat /\ MaxRuns \in Nat /\ MaxEdits \in Nat
\* A dataset has documents, --config and --only name at least one configuration.
ASSUME HarnessInputs ==
    /\ \A d \in DOMAIN DocsOf : DocsOf[d] \in Seq(ToSet(DocsOf[d])) \ {<<>>}
    /\ SweepDocs \in Seq(ToSet(SweepDocs)) /\ Ladder \in Seq(ToSet(Ladder))
    /\ \A l \in ConfigLists : l \in Seq(ToSet(l)) \ {<<>>}

Dataset == DOMAIN DocsOf
Sweeper == {"l3", "w6"}

VARIABLES
    corpus,     \* the documents table: set of [name, owner, status, cut]
    content,    \* Dataset :> version of its questions (its sha256)
    job,        \* the command that runs
    runs,       \* the saved runs, oldest first
    commands    \* how many have been started

harness == <<corpus, content, job, runs, commands>>

None == [command |-> "none"]

HarnessInit ==
    /\ corpus = {} /\ content = [d \in Dataset |-> 0]
    /\ job = None /\ runs = <<>> /\ commands = 0

-----------------------------------------------------------------------------
Owned(owner) == {d \in corpus : d.owner = owner}
Ready(owner, name) == \E d \in Owned(owner) : d.name = name /\ d.status = "ready"
NamesOf(dataset) == ToSet(DocsOf[dataset])

Started(command, dataset, split, rungs) ==
    [command |-> command, owner |-> IF command \in Sweeper THEN command ELSE "eval",
     phase |-> IF command \in Sweeper THEN "ensure" ELSE "claim", dataset |-> dataset, split |-> split,
     sha |-> 0, rungs |-> rungs, previous |-> <<>>, todo |-> <<>>, reports |-> <<>>]

Launch(started) ==
    /\ job = None /\ commands < MaxCommands /\ commands' = commands + 1
    /\ job' = started
    /\ UNCHANGED <<corpus, content, runs>>

\* run: one rung, under the settings of the environment.
RunCommand ==
    \E d \in Dataset, s \in Splits, c \in Cut, l \in ConfigLists, keep \in BOOLEAN :
        Launch(Started("run", d, s, <<[cut |-> c, configs |-> l, keep |-> keep]>>))

\* ab: the rungs of the ladder, or those --only names.
AbCommand ==
    \E d \in Dataset, s \in Splits, only \in SUBSET DOMAIN Ladder :
        /\ only # {}
        /\ Launch(Started("ab", d, s,
             [n \in 1 .. Cardinality(only) |->
                LET r == Ladder[CHOOSE k \in only : Cardinality({j \in only : j <= k}) = n]
                IN  [cut |-> r.cut, configs |-> <<r.config>>, keep |-> FALSE]]))

\* The corpus of an agent sweep: indexed unless it is there.
SweepCommand ==
    \E w \in Sweeper, c \in Cut, reindex \in BOOLEAN :
        Launch([Started(w, 0, "all", <<[cut |-> c, configs |-> <<>>, keep |-> ~reindex]>>)
                    EXCEPT !.todo = SweepDocs])

Die == /\ job # None /\ job' = None /\ UNCHANGED <<corpus, content, runs, commands>>

\* Whether a rung reuses the index (a version that looks at the strategy only).
ReusesByStrategy(j) ==
    LET r == Head(j.rungs)
    IN  IF j.command = "ab" THEN j.previous # <<>> /\ j.previous[1].strategy = r.cut.strategy ELSE r.keep
Reuses(j) == LET r == Head(j.rungs) IN IF j.command = "ab" THEN j.previous = <<r.cut>> ELSE r.keep

\* run_once loads the dataset; index_dataset refuses before it deletes.
Refused(j) ==
    /\ Reuses(j)
    /\ \E n \in NamesOf(j.dataset) :
         \/ ~\E d \in Owned("eval") : d.name = n
         \/ \E d \in Owned("eval") : d.name = n /\ d.status # "ready"

Claim ==
    /\ job # None /\ job.phase = "claim"
    /\ IF Refused(job) THEN job' = None /\ UNCHANGED corpus
       ELSE /\ corpus' = {d \in corpus : d.owner = "eval" => Reuses(job) /\ d.name \in NamesOf(job.dataset)}
            /\ job' = [job EXCEPT !.sha = content[job.dataset],
                                   !.phase = IF Reuses(job) THEN "score" ELSE "drop",
                                   !.todo = IF Reuses(job) THEN <<>> ELSE DocsOf[job.dataset]]
    /\ UNCHANGED <<content, runs, commands>>

\* _ensure_corpus skips what is ready.
Ensure ==
    /\ job # None /\ job.phase = "ensure"
    /\ job' = IF job.todo = <<>> THEN [job EXCEPT !.phase = "sweep"]
              ELSE IF Reuses(job) /\ Ready(job.owner, Head(job.todo)) THEN [job EXCEPT !.todo = Tail(@)]
              ELSE [job EXCEPT !.phase = "drop"]
    /\ UNCHANGED <<corpus, content, runs, commands>>

\* index_pages: the copies of earlier runs go - whoever has a file of the name,
DropStale ==
    /\ job # None /\ job.phase = "drop"
    /\ corpus' = {d \in corpus : d.name # Head(job.todo)}
    /\ job' = [job EXCEPT !.phase = "insert"]
    /\ UNCHANGED <<content, runs, commands>>

\* the new document is committed,
Insert ==
    /\ job # None /\ job.phase = "insert"
    /\ corpus' = corpus \cup {[name |-> Head(job.todo), owner |-> job.owner, status |-> "pending",
                               cut |-> Head(job.rungs).cut]}
    /\ job' = [job EXCEPT !.phase = "build"]
    /\ UNCHANGED <<content, runs, commands>>

\* and indexed; a failure ends the command.
Build ==
    /\ job # None /\ job.phase = "build"
    /\ \E s \in {"ready", "failed"} :
         /\ corpus' = {IF d.name = Head(job.todo) /\ d.owner = job.owner THEN [d EXCEPT !.status = s] ELSE d :
                         d \in corpus}
         /\ job' = IF s = "failed" THEN None
                   ELSE [job EXCEPT !.todo = Tail(@),
                                    !.phase = IF job.owner # "eval" THEN "ensure"
                                              ELSE IF Len(job.todo) > 1 THEN "drop" ELSE "score"]
    /\ UNCHANGED <<content, runs, commands>>

\* The questions of the split that can be scored.
Asked(split) == {q \in Question : split \in {"all", SplitOf[q]}}

\* The body of run_once: a report per configuration; no question, no run.
Score ==
    /\ job # None /\ job.phase = "score"
    /\ \E found \in [DOMAIN Head(job.rungs).configs -> SUBSET Asked(job.split)] :
         job' = IF Asked(job.split) = {} THEN None
                ELSE [job EXCEPT !.phase = "save", !.reports =
                        [n \in DOMAIN Head(job.rungs).configs |->
                            [dataset |-> job.dataset, sha |-> job.sha,
                             config |-> Head(job.rungs).configs[n], cut |-> Head(job.rungs).cut,
                             asked |-> Asked(job.split), found |-> found[n],
                             ladder |-> job.command = "ab",
                             searched |-> Owned("eval")]]]
    /\ UNCHANGED <<corpus, content, runs, commands>>

\* store.save: a run and its rows in one transaction (--no-store, which saves
\* nothing, is left aside).
Save ==
    /\ job # None /\ job.phase = "save"
    /\ Len(runs) < MaxRuns /\ runs' = Append(runs, Head(job.reports))
    /\ job' = IF Len(job.reports) > 1 THEN [job EXCEPT !.reports = Tail(@)]
              ELSE IF Len(job.rungs) > 1
                   THEN [job EXCEPT !.phase = "claim", !.reports = <<>>, !.rungs = Tail(@),
                                    !.previous = <<Head(job.rungs).cut>>]
              ELSE None
    /\ UNCHANGED <<corpus, content, commands>>

\* Meanwhile: an account uploads a file, the dataset is edited.
Upload ==
    /\ \E n \in Name :
         corpus' = corpus \cup {[name |-> n, owner |-> "user", status |-> "ready",
                                  cut |-> CHOOSE c \in Cut : TRUE]}
    /\ Owned("user") = {}
    /\ UNCHANGED <<content, job, runs, commands>>
Edit ==
    /\ \E d \in Dataset : content[d] < MaxEdits /\ content' = [content EXCEPT ![d] = @ + 1]
    /\ UNCHANGED <<corpus, job, runs, commands>>

HarnessNext ==
    \/ RunCommand \/ AbCommand \/ SweepCommand \/ Die \/ Claim \/ Ensure
    \/ DropStale \/ Insert \/ Build \/ Score \/ Save \/ Upload \/ Edit

-----------------------------------------------------------------------------
\* diff of two runs: what it refuses, and when the build passes.
Comparable(base, head) ==
    /\ base.config = head.config /\ base.dataset = head.dataset
    /\ base.sha = head.sha /\ base.cut = head.cut

MeanFell(base, head) ==
    Cardinality(head.found) * Cardinality(base.asked) < Cardinality(base.found) * Cardinality(head.asked)

HasRegression(base, head) ==
    \/ MeanFell(base, head)
    \/ \E q \in base.asked \cap head.asked : q \in base.found /\ q \notin head.found

Passes(base, head) == Comparable(base, head) /\ ~HasRegression(base, head)

\* store.resolve("latest~n") within the filters: 0 when there is none.
Latest(n, dataset, config) ==
    LET fitting == {k \in DOMAIN runs : runs[k].dataset = dataset /\ runs[k].config = config}
        those == {k \in fitting : Cardinality({j \in fitting : j > k}) = n}
    IN  IF those = {} THEN 0 ELSE CHOOSE k \in those : TRUE

\* The diff of the latest run with the one before it, as the build asks for it.
Gates ==
    {<<Latest(1, r.dataset, r.config), Latest(0, r.dataset, r.config)>> : r \in ToSet(runs)}

\* Every number of a ladder was measured on its own index: when `ab` saves a
\* run, what was searched is the dataset and nothing else, every document of
\* it ready and cut as the run says - whatever ran, died or was kept before;
\* a diff of two such runs over the same questions that passes compares the
\* same index, and found again what was found.  A sweep starts on a corpus
\* that is complete.
LadderTrue ==
    /\ \A n \in DOMAIN runs :
         runs[n].ladder =>
            runs[n].searched =
                {[name |-> name, owner |-> "eval", status |-> "ready", cut |-> runs[n].cut] :
                    name \in NamesOf(runs[n].dataset)}
    /\ \A g \in Gates :
         g[1] # 0 /\ g[2] # 0 =>
            LET base == runs[g[1]]
                head == runs[g[2]]
            IN  base.ladder /\ head.ladder /\ base.asked = head.asked /\ Passes(base, head)
                  => base.found \subseteq head.found /\ base.searched = head.searched
    /\ job # None /\ job.phase = "sweep" => \A n \in ToSet(SweepDocs) : Ready(job.owner, n)

\* What the code does not keep.  report.py:160-166: a difference of numbers
\* that mean different things is refused.  But --split is not recorded and
\* --no-reindex records the settings of the day, not those of the index.
DiffMeasuresTheSame ==
    \A base, head \in ToSet(runs) :
        Passes(base, head) => base.asked = head.asked /\ base.searched = head.searched

\* indexing.py:54-57: runs stay isolated from real users.  But the copies to
\* drop are found by file name, without the owner.
RunsAreIsolated == [][\A d \in corpus : d.owner = "user" => d \in corpus']_harness
=============================================================================
