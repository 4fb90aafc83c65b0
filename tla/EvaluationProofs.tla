-------------------------- MODULE EvaluationProofs --------------------------
(***************************************************************************)
(* Theorems about the evaluation.                                          *)
(*                                                                         *)
(* What the numbers of a ladder were measured on (LadderTrue).  The        *)
(* harness deletes, inserts and builds the documents of its corpus one     *)
(* transaction at a time, may die after each of them and meets uploads and *)
(* edits in between; what holds throughout is what a command may rely on   *)
(* at each point of its work: that every document it has to have is ready  *)
(* or still to be done (Progress), that the corpus of a ladder holds       *)
(* nothing but documents of this rung (LadderCorpus), and that every       *)
(* report made says what was searched (ReportTrue).                        *)
(*                                                                         *)
(* What a sweep pays (SweepExact): the rows are there once, what is left   *)
(* has none, and what they cost is in what the account had answered.       *)
(*                                                                         *)
(* Whom a judge is believed by (JudgeTrue): the verdicts are the work of   *)
(* one process; and where a reader always says the same, the disagreement  *)
(* there is and the one by chance are one number (NoneAdopted).            *)
(***************************************************************************)
EXTENDS Evaluation, Recursion, FiniteSetTheorems, SequenceTheorems, WellFoundedInduction, TLAPS

-----------------------------------------------------------------------------
(***************************************************************************)
(* Sequences of whatever.                                                  *)
(***************************************************************************)
IsList(s) == s \in Seq(ToSet(s))

\* A list that is not empty is its head and its tail.
LEMMA ListTail ==
    ASSUME NEW s, IsList(s), s # <<>>
    PROVE  /\ IsList(Tail(s)) /\ Len(s) \in Nat \ {0} /\ Len(Tail(s)) = Len(s) - 1
           /\ Head(s) \in ToSet(s) /\ ToSet(s) = {Head(s)} \cup ToSet(Tail(s))
           /\ Len(s) > 1 => Tail(s) # <<>>
           /\ Len(s) <= 1 => Tail(s) = <<>>
<1> DEFINE S == ToSet(s)
<1> DEFINE t == Tail(s)
<1>1. s \in Seq(S)
  BY DEF IsList
<1>2. /\ Head(s) \in S /\ t \in Seq(S) /\ Len(t) = Len(s) - 1
      /\ \A i \in 1 .. Len(t) : t[i] = s[i + 1]
  BY <1>1, HeadTailProperties
<1>3. /\ Len(s) \in Nat \ {0} /\ DOMAIN s = 1 .. Len(s) /\ Head(s) = s[1]
  BY <1>1, EmptySeq, LenProperties
<1>4. Len(t) \in Nat /\ DOMAIN t = 1 .. Len(t) /\ t \in [1 .. Len(t) -> S]
  BY <1>2, LenProperties
<1> HIDE DEF t
<1>5. S = {Head(s)} \cup ToSet(t)
  <2>1. \A i \in 1 .. Len(s) : i = 1 \/ (i - 1 \in 1 .. Len(t) /\ s[i] = t[i - 1])
    BY <1>2, <1>3
  <2>2. \A i \in 1 .. Len(t) : t[i] = s[i + 1] /\ i + 1 \in 1 .. Len(s)
    BY <1>2, <1>3
  <2>3. S = {s[i] : i \in 1 .. Len(s)} /\ ToSet(t) = {t[i] : i \in 1 .. Len(t)}
    BY <1>3, <1>4 DEF ToSet
  <2>4. S \subseteq {Head(s)} \cup ToSet(t)
    BY <1>3, <2>1, <2>3
  <2>5. ToSet(t) \subseteq S
    BY <2>2, <2>3
  <2> QED
    BY <1>2, <2>4, <2>5
<1>6. t \in Seq(ToSet(t))
  <2>1. t \in [1 .. Len(t) -> ToSet(t)]
    BY <1>4 DEF ToSet
  <2> QED
    BY <2>1, <1>4
<1>7. Len(t) = 0 <=> t = <<>>
  BY <1>2, EmptySeq
<1> QED
  BY <1>2, <1>3, <1>4, <1>5, <1>6, <1>7 DEF IsList, t

\* A list of one has nothing behind its head; a list and one more is a list.
LEMMA ListAppend ==
    ASSUME NEW s, IsList(s), NEW e
    PROVE  /\ IsList(Append(s, e))
           /\ \A n \in DOMAIN Append(s, e) :
                 (n \in DOMAIN s /\ Append(s, e)[n] = s[n]) \/ Append(s, e)[n] = e
<1> DEFINE S == ToSet(s) \cup {e}
<1> DEFINE t == Append(s, e)
<1>1. s \in Seq(ToSet(s)) /\ Len(s) \in Nat /\ DOMAIN s = 1 .. Len(s) /\ s \in [1 .. Len(s) -> ToSet(s)]
  BY LenProperties DEF IsList
<1>2. s \in Seq(S)
  <2>1. s \in [1 .. Len(s) -> S]
    BY <1>1
  <2> HIDE DEF S
  <2> QED
    BY <1>1, <2>1
<1>3. /\ t \in Seq(S) /\ Len(t) = Len(s) + 1 /\ t[Len(s) + 1] = e
      /\ \A i \in 1 .. Len(s) : t[i] = s[i]
  BY <1>2, AppendProperties
<1>4. DOMAIN t = 1 .. Len(s) + 1 /\ t \in [1 .. Len(t) -> S]
  BY <1>3, LenProperties
<1> HIDE DEF t
<1>5. t \in [1 .. Len(t) -> ToSet(t)]
  BY <1>3, <1>4 DEF ToSet
<1>6. IsList(t)
  BY <1>1, <1>3, <1>5 DEF IsList
<1> QED
  BY <1>1, <1>3, <1>4, <1>6 DEF t

\* What is given for 1 to n is a list.
LEMMA ListMade ==
    ASSUME NEW n \in Nat, NEW s, DOMAIN s = 1 .. n, s = [i \in 1 .. n |-> s[i]]
    PROVE  IsList(s) /\ Len(s) = n /\ (n > 0 => s # <<>>)
<1>1. s \in [1 .. n -> ToSet(s)]
  BY DEF ToSet
<1>2. s \in Seq(ToSet(s)) /\ Len(s) = n
  BY <1>1
<1> QED
  BY <1>2, EmptySeq DEF IsList

-----------------------------------------------------------------------------
(***************************************************************************)
(* The harness: what each command may rely on between two transactions.    *)
(***************************************************************************)
Fields == {"command", "owner", "phase", "dataset", "split", "sha", "rungs", "previous", "todo", "reports"}
\* The steps between two documents.
Indexing == {"drop", "insert", "build"}

\* A document is a row, and the documents of a dataset cut one way a set of them.
IsDoc(d) == d = [name |-> d.name, owner |-> d.owner, status |-> d.status, cut |-> d.cut]
Full(dataset, c) ==
    {[name |-> name, owner |-> "eval", status |-> "ready", cut |-> c] : name \in NamesOf(dataset)}

\* What a saved number was measured on (LadderTrue, of one run).
ReportTrue(r) ==
    /\ r.ladder => r.searched = Full(r.dataset, r.cut)
    /\ r.found \subseteq r.asked

\* The command: its rungs, its documents and its reports are lists.
JobOK ==
    /\ DOMAIN job = Fields
    /\ \/ job.command \in {"run", "ab"} /\ job.owner = "eval" /\ job.dataset \in Dataset
          /\ job.phase \in Indexing \cup {"claim", "score", "save"}
       \/ job.command \in Sweeper /\ job.owner = job.command
          /\ job.phase \in Indexing \cup {"ensure", "sweep"}
    /\ IsList(job.rungs) /\ job.rungs # <<>>
    /\ job.owner = "eval" => \A r \in ToSet(job.rungs) : IsList(r.configs) /\ r.configs # <<>>
    /\ IsList(job.todo) /\ (job.phase \in Indexing => job.todo # <<>>)
    /\ job.phase = "sweep" => job.todo = <<>>
    /\ job.phase = "save" =>
          /\ IsList(job.reports) /\ job.reports # <<>>
          /\ \A r \in ToSet(job.reports) : ReportTrue(r)

\* While it indexes, every document it has to have is to be done or done, and
\* the one between its insertion and its end is there.
Owed == IF job.command \in Sweeper THEN ToSet(SweepDocs) ELSE NamesOf(job.dataset)
Progress ==
    /\ job.phase \in Indexing \cup {"ensure", "sweep"} =>
          \A name \in Owed : name \in ToSet(job.todo) \/ Ready(job.owner, name)
    /\ job.phase = "build" => \E d \in Owned(job.owner) : d.name = Head(job.todo)

\* The ladder's corpus: whole before a rung that may reuse it and when it is
\* searched; in between nothing but documents of this rung, none of them twice.
LadderCorpus ==
    /\ job.phase = "claim" /\ job.previous # <<>> => Owned("eval") = Full(job.dataset, job.previous[1])
    /\ job.phase \in Indexing =>
          \A d \in Owned("eval") :
             /\ d.cut = Head(job.rungs).cut /\ d.name \in NamesOf(job.dataset)
             /\ d.status = "ready" \/ (job.phase = "build" /\ d.name = Head(job.todo))
    /\ job.phase \in {"score", "save"} => Owned("eval") = Full(job.dataset, Head(job.rungs).cut)
    /\ job.phase \in Indexing => ToSet(job.todo) \subseteq NamesOf(job.dataset)

\* A command is where its program may be, and a ladder's corpus is its own.
CommandOK == job # None => JobOK /\ Progress /\ (job.command = "ab" => LadderCorpus)
\* The saved runs say what they searched.
SavedOK == IsList(runs) /\ \A n \in DOMAIN runs : ReportTrue(runs[n])
\* The inductive invariant of the harness.
HarnessInv == (\A d \in corpus : IsDoc(d)) /\ SavedOK /\ CommandOK

\* A command that runs is not None.
LEMMA NoneIsNoJob == \A j : DOMAIN j = Fields => j # None
<1>1. DOMAIN None = {"command"}
  BY DEF None
<1>2. "todo" \in Fields
  BY DEF Fields
<1> QED
  BY <1>1, <1>2

\* What a command relies on are the documents of its own account.
LEMMA CommandStays ==
    ASSUME CommandOK, UNCHANGED job, job # None => Owned(job.owner)' = Owned(job.owner)
    PROVE  CommandOK'
<1> SUFFICES ASSUME job # None PROVE CommandOK'
  BY DEF CommandOK
<1> USE DEF CommandOK
<1>1. JobOK'
  BY DEF JobOK, ReportTrue, Full, NamesOf
<1>2. \A name : Ready(job.owner, name)' <=> Ready(job.owner, name)
  BY DEF Ready
<1>3. Progress'
  BY <1>2 DEF Progress, Owed, NamesOf
<1>4. job.command = "ab" => job.owner = "eval"
  BY DEF JobOK, Sweeper
<1>5. job.command = "ab" => LadderCorpus'
  BY <1>4 DEF LadderCorpus, Full, NamesOf
<1> QED
  BY <1>1, <1>3, <1>5

\* A command that starts has everything before it.
LEMMA LaunchKeeps ==
    ASSUME HarnessInv, NEW command, NEW dataset, NEW split, NEW rungs, NEW todo,
           Launch([Started(command, dataset, split, rungs) EXCEPT !.todo = todo]),
           IsList(rungs), rungs # <<>>,
           \/ /\ command \in {"run", "ab"} /\ dataset \in Dataset /\ todo = <<>>
              /\ \A r \in ToSet(rungs) : IsList(r.configs) /\ r.configs # <<>>
           \/ command \in Sweeper /\ todo = SweepDocs
    PROVE  HarnessInv'
<1>1. /\ job'.command = command /\ job'.owner = IF command \in Sweeper THEN command ELSE "eval"
      /\ job'.phase = IF command \in Sweeper THEN "ensure" ELSE "claim"
      /\ job'.dataset = dataset /\ job'.rungs = rungs /\ job'.previous = <<>> /\ job'.todo = todo
      /\ DOMAIN job' = Fields
      /\ UNCHANGED <<corpus, content, runs>>
  BY DEF Launch, Started, Fields
<1>2. IsList(todo)
  <2>1. IsList(<<>>)
    BY ListMade, EmptySeq DEF IsList
  <2> QED
    BY <2>1, HarnessInputs DEF IsList
<1>3. JobOK'
  BY <1>1, <1>2 DEF JobOK, Sweeper, Indexing
<1>4. Progress'
  BY <1>1 DEF Progress, Indexing, Owed, Sweeper
<1>5. command = "ab" => LadderCorpus'
  BY <1>1 DEF LadderCorpus, Indexing, Sweeper
<1>6. SavedOK'
  BY <1>1 DEF HarnessInv, SavedOK, ReportTrue, Full, NamesOf
<1> QED
  BY <1>1, <1>3, <1>4, <1>5, <1>6 DEF HarnessInv, CommandOK

\* run names its dataset and its documents (harness.run).
LEMMA RunKeeps == HarnessInv /\ RunCommand => HarnessInv'
<1> SUFFICES ASSUME HarnessInv, RunCommand PROVE HarnessInv'
  OBVIOUS
<1>1. PICK d \in Dataset, s \in Splits, c \in Cut, l \in ConfigLists, keep \in BOOLEAN :
        Launch(Started("run", d, s, <<[cut |-> c, configs |-> l, keep |-> keep]>>))
  BY DEF RunCommand
<1> DEFINE r == [cut |-> c, configs |-> l, keep |-> keep]
<1>2. IsList(<<r>>) /\ <<r>> # <<>> /\ ToSet(<<r>>) = {r}
  BY DEF IsList, ToSet
<1>3. IsList(r.configs) /\ r.configs # <<>>
  BY HarnessInputs DEF IsList
<1> HIDE DEF r
<1>4. Started("run", d, s, <<r>>) = [Started("run", d, s, <<r>>) EXCEPT !.todo = <<>>]
  BY DEF Started
<1>5. Launch([Started("run", d, s, <<r>>) EXCEPT !.todo = <<>>])
  BY <1>1, <1>4 DEF r
<1> QED
  BY <1>2, <1>3, <1>5, LaunchKeeps

\* ab begins at a rung with an empty corpus (ab.main).
LEMMA AbKeeps == HarnessInv /\ AbCommand => HarnessInv'
<1> SUFFICES ASSUME HarnessInv, AbCommand PROVE HarnessInv'
  OBVIOUS
<1> DEFINE Rungs(only) == [n \in 1 .. Cardinality(only) |->
                LET r == Ladder[CHOOSE k \in only : Cardinality({j \in only : j <= k}) = n]
                IN  [cut |-> r.cut, configs |-> <<r.config>>, keep |-> FALSE]]
<1>1. PICK d \in Dataset, s \in Splits, only \in SUBSET DOMAIN Ladder :
        only # {} /\ Launch(Started("ab", d, s, Rungs(only)))
  BY DEF AbCommand
<1>2. Cardinality(only) \in Nat /\ Cardinality(only) > 0
  <2>1. DOMAIN Ladder = 1 .. Len(Ladder) /\ Len(Ladder) \in Nat
    BY HarnessInputs, LenProperties
  <2>2. IsFiniteSet(1 .. Len(Ladder))
    BY <2>1, FS_Interval
  <2>3. IsFiniteSet(only)
    BY <2>1, <2>2, FS_Subset
  <2>4. Cardinality(only) \in Nat
    BY <2>3, FS_CardinalityType
  <2>5. Cardinality(only) # 0
    BY <1>1, <2>3, FS_EmptySet
  <2> QED
    BY <2>4, <2>5
<1> DEFINE rungs == Rungs(only)
<1>3. /\ DOMAIN rungs = 1 .. Cardinality(only) /\ rungs = [n \in 1 .. Cardinality(only) |-> rungs[n]]
      /\ \A n \in DOMAIN rungs : \E c : rungs[n].configs = <<c>>
  OBVIOUS
<1> HIDE DEF rungs
<1>4. IsList(rungs) /\ rungs # <<>>
  BY <1>2, <1>3, ListMade
<1>5. \A r \in ToSet(rungs) : IsList(r.configs) /\ r.configs # <<>>
  <2>1. \A c : IsList(<<c>>) /\ <<c>> # <<>>
    BY DEF IsList, ToSet
  <2> QED
    BY <1>3, <2>1 DEF ToSet
<1>6. Started("ab", d, s, rungs) = [Started("ab", d, s, rungs) EXCEPT !.todo = <<>>]
  BY DEF Started
<1>7. Launch([Started("ab", d, s, rungs) EXCEPT !.todo = <<>>])
  BY <1>1, <1>6 DEF rungs
<1> QED
  BY <1>4, <1>5, <1>7, LaunchKeeps

\* A sweep makes sure of its documents (indexing.ensure).
LEMMA SweepKeeps == HarnessInv /\ SweepCommand => HarnessInv'
<1> SUFFICES ASSUME HarnessInv, SweepCommand PROVE HarnessInv'
  OBVIOUS
<1>1. PICK w \in Sweeper, c \in Cut, reindex \in BOOLEAN :
        Launch([Started(w, 0, "all", <<[cut |-> c, configs |-> <<>>, keep |-> ~reindex]>>)
                    EXCEPT !.todo = SweepDocs])
  BY DEF SweepCommand
<1> DEFINE r == [cut |-> c, configs |-> <<>>, keep |-> ~reindex]
<1>2. IsList(<<r>>) /\ <<r>> # <<>>
  BY DEF IsList, ToSet
<1> HIDE DEF r
<1>3. Launch([Started(w, 0, "all", <<r>>) EXCEPT !.todo = SweepDocs])
  BY <1>1 DEF r
<1> QED
  BY <1>2, <1>3, LaunchKeeps

\* A command at work: what the steps below start from.
AtWork == HarnessInv /\ job # None /\ DOMAIN job = Fields
\* What the invariant says of a command that runs.
LEMMA Working == HarnessInv /\ job # None => AtWork /\ JobOK /\ Progress /\ (job.command = "ab" => LadderCorpus)
  BY DEF HarnessInv, CommandOK, JobOK, AtWork

\* The step from one transaction to the next: only the phase and the documents
\* to do change.
Goes(phase, todo) == job' = [job EXCEPT !.phase = phase, !.todo = todo]
\* Such a step, field by field.
LEMMA GoesOn ==
    ASSUME DOMAIN job = Fields, NEW phase, NEW todo, Goes(phase, todo)
    PROVE  /\ DOMAIN job' = Fields /\ job'.phase = phase /\ job'.todo = todo
           /\ job'.command = job.command /\ job'.owner = job.owner /\ job'.dataset = job.dataset
           /\ job'.rungs = job.rungs /\ job'.previous = job.previous /\ job'.reports = job.reports
  BY DEF Goes, Fields

\* ensure: what is ready stays, what is not is still to do.
LEMMA EnsureKeeps == HarnessInv /\ Ensure => HarnessInv'
<1> SUFFICES ASSUME HarnessInv, Ensure PROVE HarnessInv'
  OBVIOUS
<1>1. /\ DOMAIN job = Fields /\ job # None /\ JobOK /\ Progress /\ UNCHANGED <<corpus, runs>>
      /\ job.phase = "ensure" /\ job.command \in Sweeper /\ job.owner = job.command
  BY Working DEF Ensure, JobOK, Indexing
<1>2. \A o : Owned(o)' = Owned(o)
  BY <1>1 DEF Owned
<1>3. \A o, n : Ready(o, n)' <=> Ready(o, n)
  BY <1>2 DEF Ready
<1>4. \/ job.todo = <<>> /\ Goes("sweep", job.todo)
      \/ job.todo # <<>> /\ Ready(job.owner, Head(job.todo)) /\ Goes("ensure", Tail(job.todo))
      \/ job.todo # <<>> /\ Goes("drop", job.todo)
  BY <1>1 DEF Ensure, Goes, Fields
<1>5. /\ DOMAIN job' = Fields /\ job'.command = job.command /\ job'.owner = job.owner
      /\ job'.dataset = job.dataset /\ job'.rungs = job.rungs /\ job'.phase \in {"sweep", "ensure", "drop"}
      /\ IsList(job'.todo) /\ (job'.phase = "drop" => job'.todo # <<>>)
      /\ (job'.phase = "sweep" => job'.todo = <<>>)
      /\ \A n \in ToSet(job.todo) : n \in ToSet(job'.todo) \/ Ready(job.owner, n)
  <2>1. CASE job.todo = <<>> /\ Goes("sweep", job.todo)
    BY <1>1, <2>1, GoesOn DEF JobOK
  <2>2. CASE job.todo # <<>> /\ Ready(job.owner, Head(job.todo)) /\ Goes("ensure", Tail(job.todo))
    <3>1. IsList(Tail(job.todo)) /\ ToSet(job.todo) = {Head(job.todo)} \cup ToSet(Tail(job.todo))
      BY <1>1, <2>2, ListTail DEF JobOK
    <3> QED
      BY <1>1, <2>2, <3>1, GoesOn
  <2>3. CASE job.todo # <<>> /\ Goes("drop", job.todo)
    BY <1>1, <2>3, GoesOn DEF JobOK
  <2> QED
    BY <1>4, <2>1, <2>2, <2>3
<1>6. JobOK'
  BY <1>1, <1>5 DEF JobOK, Indexing, Sweeper
<1>7. Progress'
  BY <1>1, <1>3, <1>5 DEF Progress, Owed, Indexing
<1>8. SavedOK' /\ \A d \in corpus' : IsDoc(d)
  BY <1>1 DEF HarnessInv, SavedOK, ReportTrue, Full, NamesOf
<1>9. job'.command # "ab"
  BY <1>1, <1>5 DEF Sweeper
<1> QED
  BY <1>6, <1>7, <1>8, <1>9 DEF HarnessInv, CommandOK

\* The copies of earlier runs go.
LEMMA DropKeeps == HarnessInv /\ DropStale => HarnessInv'
<1> SUFFICES ASSUME HarnessInv, DropStale PROVE HarnessInv'
  OBVIOUS
<1>1. /\ DOMAIN job = Fields /\ JobOK /\ Progress /\ (job.command = "ab" => LadderCorpus) /\ UNCHANGED runs
      /\ job.phase = "drop" /\ corpus' = {d \in corpus : d.name # Head(job.todo)}
      /\ Goes("insert", job.todo)
  BY Working DEF DropStale, JobOK, Goes, Fields
<1>2. /\ DOMAIN job' = Fields /\ job'.phase = "insert" /\ job'.todo = job.todo
      /\ job'.command = job.command /\ job'.owner = job.owner /\ job'.dataset = job.dataset
      /\ job'.rungs = job.rungs /\ job'.previous = job.previous
  BY <1>1, GoesOn
<1>3. \A o : Owned(o)' = {d \in Owned(o) : d.name # Head(job.todo)}
  BY <1>1 DEF Owned
<1>4. JobOK'
  BY <1>1, <1>2 DEF JobOK, Indexing
<1>5. Progress'
  <2>1. Head(job.todo) \in ToSet(job.todo)
    BY <1>1, ListTail DEF JobOK, Indexing
  <2> QED
    BY <1>1, <1>2, <1>3, <2>1 DEF Progress, Owed, Indexing, Ready, NamesOf
<1>6. job.command = "ab" => LadderCorpus'
  BY <1>1, <1>2, <1>3 DEF LadderCorpus, Indexing, NamesOf
<1>7. SavedOK' /\ \A d \in corpus' : IsDoc(d)
  BY <1>1 DEF HarnessInv, SavedOK, ReportTrue, Full, NamesOf
<1> QED
  BY <1>2, <1>4, <1>5, <1>6, <1>7 DEF HarnessInv, CommandOK

\* A document of this rung is inserted, once.
LEMMA InsertKeeps == HarnessInv /\ Insert => HarnessInv'
<1> SUFFICES ASSUME HarnessInv, Insert PROVE HarnessInv'
  OBVIOUS
<1> DEFINE e == [name |-> Head(job.todo), owner |-> job.owner, status |-> "pending", cut |-> Head(job.rungs).cut]
<1>1. /\ DOMAIN job = Fields /\ JobOK /\ Progress /\ (job.command = "ab" => LadderCorpus) /\ UNCHANGED runs
      /\ job.phase = "insert" /\ corpus' = corpus \cup {e}
      /\ Goes("build", job.todo)
  BY Working DEF Insert, JobOK, Goes, Fields
<1>2. /\ DOMAIN job' = Fields /\ job'.phase = "build" /\ job'.todo = job.todo
      /\ job'.command = job.command /\ job'.owner = job.owner /\ job'.dataset = job.dataset
      /\ job'.rungs = job.rungs /\ job'.previous = job.previous
  BY <1>1, GoesOn
<1>3. e.name = Head(job.todo) /\ e.owner = job.owner /\ e.cut = Head(job.rungs).cut /\ IsDoc(e)
  BY DEF IsDoc
<1> HIDE DEF e
<1>4. Owned(job.owner)' = Owned(job.owner) \cup {e}
  BY <1>1, <1>2, <1>3 DEF Owned
<1>5. JobOK'
  BY <1>1, <1>2 DEF JobOK, Indexing
<1>6. Head(job.todo) \in ToSet(job.todo)
  BY <1>1, ListTail DEF JobOK, Indexing
<1>7. Progress'
  BY <1>1, <1>2, <1>3, <1>4, <1>6 DEF Progress, Owed, Indexing, Ready, NamesOf
<1>8. job.command = "ab" => LadderCorpus'
  <2>1. job.command = "ab" => job.owner = "eval"
    BY <1>1 DEF JobOK, Sweeper
  <2> QED
    BY <1>1, <1>2, <1>3, <1>4, <1>6, <2>1 DEF LadderCorpus, Indexing, NamesOf
<1>9. SavedOK' /\ \A d \in corpus' : IsDoc(d)
  BY <1>1, <1>3 DEF HarnessInv, SavedOK, ReportTrue, Full, NamesOf
<1> QED
  BY <1>2, <1>5, <1>7, <1>8, <1>9 DEF HarnessInv, CommandOK

\* A document that is indexed is ready; the command goes on to the next one, or
\* to the questions over a corpus that is whole.
LEMMA BuildKeeps == HarnessInv /\ Build => HarnessInv'
<1> SUFFICES ASSUME HarnessInv, Build PROVE HarnessInv'
  OBVIOUS
<1> DEFINE Now(d, s) == IF d.name = Head(job.todo) /\ d.owner = job.owner THEN [d EXCEPT !.status = s] ELSE d
<1> DEFINE next == IF job.owner # "eval" THEN "ensure" ELSE IF Len(job.todo) > 1 THEN "drop" ELSE "score"
<1>1. /\ DOMAIN job = Fields /\ JobOK /\ Progress /\ (job.command = "ab" => LadderCorpus) /\ UNCHANGED runs
      /\ job.phase = "build" /\ job # None
  <2>1. job # None /\ job.phase = "build" /\ UNCHANGED runs
    BY DEF Build
  <2> QED
    BY <2>1, Working DEF AtWork
<1>2. PICK s \in {"ready", "failed"} :
         /\ corpus' = {Now(d, s) : d \in corpus}
         /\ (s = "failed" /\ job' = None) \/ (s = "ready" /\ Goes(next, Tail(job.todo)))
  <2>1. PICK s \in {"ready", "failed"} :
         /\ corpus' = {IF d.name = Head(job.todo) /\ d.owner = job.owner THEN [d EXCEPT !.status = s] ELSE d :
                         d \in corpus}
         /\ job' = IF s = "failed" THEN None
                   ELSE [job EXCEPT !.todo = Tail(@),
                                    !.phase = IF job.owner # "eval" THEN "ensure"
                                              ELSE IF Len(job.todo) > 1 THEN "drop" ELSE "score"]
    BY DEF Build
  <2>2. s = "ready" => Goes(next, Tail(job.todo))
    BY <1>1, <2>1 DEF Goes, Fields
  <2> QED
    BY <2>1, <2>2
<1>3. \A d \in corpus : /\ IsDoc(d) /\ Now(d, s).name = d.name /\ Now(d, s).owner = d.owner
                        /\ Now(d, s).cut = d.cut /\ IsDoc(Now(d, s))
                        /\ Now(d, s).status = IF d.name = Head(job.todo) /\ d.owner = job.owner THEN s ELSE d.status
  <2> TAKE d \in corpus
  <2>1. IsDoc(d)
    BY DEF HarnessInv
  <2> QED
    BY <2>1 DEF IsDoc
<1> HIDE DEF Now
<1>4. SavedOK' /\ \A d \in corpus' : IsDoc(d)
  BY <1>1, <1>2, <1>3 DEF HarnessInv, SavedOK, ReportTrue, Full, NamesOf
<1>5. CASE job' = None
  BY <1>4, <1>5 DEF HarnessInv, CommandOK
<1>6. CASE s = "ready" /\ Goes(next, Tail(job.todo))
  <2>1. /\ DOMAIN job' = Fields /\ job'.phase = next /\ job'.todo = Tail(job.todo)
        /\ job'.command = job.command /\ job'.owner = job.owner /\ job'.dataset = job.dataset
        /\ job'.rungs = job.rungs /\ job'.previous = job.previous
    BY <1>1, <1>6, GoesOn
  <2>2. /\ IsList(job.todo) /\ job.todo # <<>> /\ IsList(Tail(job.todo))
        /\ ToSet(job.todo) = {Head(job.todo)} \cup ToSet(Tail(job.todo))
        /\ Len(job.todo) > 1 => Tail(job.todo) # <<>>
        /\ ~(Len(job.todo) > 1) => Tail(job.todo) = <<>>
    BY <1>1, ListTail DEF JobOK, Indexing
  <2>3. \A d \in corpus : Now(d, s) \in corpus'
    BY <1>2
  <2>4. \A d \in corpus' : \E c \in corpus : d = Now(c, s)
    BY <1>2
  <2>5. \A n : Ready(job.owner, n) \/ n = Head(job.todo) => Ready(job.owner, n)'
    <3> TAKE n
    <3>1. CASE Ready(job.owner, n)
      <4>1. PICK d \in corpus : d.owner = job.owner /\ d.name = n /\ d.status = "ready"
        BY <3>1 DEF Ready, Owned
      <4>2. /\ Now(d, s) \in corpus' /\ Now(d, s).owner = job'.owner /\ Now(d, s).name = n
            /\ Now(d, s).status = "ready"
        BY <4>1, <1>3, <1>6, <2>1, <2>3
      <4> QED
        BY <4>2 DEF Ready, Owned
    <3>2. CASE n = Head(job.todo)
      <4>1. PICK d \in corpus : d.owner = job.owner /\ d.name = n
        BY <3>2, <1>1 DEF Progress, Owned
      <4>2. /\ Now(d, s) \in corpus' /\ Now(d, s).owner = job'.owner /\ Now(d, s).name = n
            /\ Now(d, s).status = "ready"
        BY <3>2, <4>1, <1>3, <1>6, <2>1, <2>3
      <4> QED
        BY <4>2 DEF Ready, Owned
    <3> QED
      BY <3>1, <3>2
  <2>6. JobOK'
    BY <1>1, <2>1, <2>2 DEF JobOK, Indexing, Sweeper
  <2>7. \A n \in Owed : n \in ToSet(job'.todo) \/ Ready(job.owner, n)'
    BY <1>1, <2>1, <2>2, <2>5 DEF Progress, Indexing
  <2>8. \A n \in Owed :
           n \in ToSet(job'.todo) \/ \E d \in corpus' : d.owner = job.owner /\ d.name = n /\ d.status = "ready"
    BY <2>1, <2>7 DEF Ready, Owned
  <2>9. Progress'
    <3>1. Owed' = Owed
      BY <2>1 DEF Owed, NamesOf
    <3>2. job'.phase # "build"
      BY <2>1
    <3> QED
      BY <2>7, <3>1, <3>2 DEF Progress
  <2>10. ASSUME job.command = "ab" PROVE LadderCorpus'
    <3>1. job.owner = "eval" /\ LadderCorpus
      BY <1>1, <2>10 DEF JobOK, Sweeper
    <3>2. \A d \in Owned("eval")' :
             d.cut = Head(job.rungs).cut /\ d.name \in NamesOf(job.dataset) /\ d.status = "ready"
      <4> TAKE d \in Owned("eval")'
      <4>1. PICK c \in corpus : d = Now(c, s)
        BY <2>4 DEF Owned
      <4>2. c.owner = "eval"
        BY <4>1, <1>3 DEF Owned
      <4>3. c \in Owned("eval")
        BY <4>2 DEF Owned
      <4>4. /\ c.cut = Head(job.rungs).cut /\ c.name \in NamesOf(job.dataset)
            /\ c.status = "ready" \/ c.name = Head(job.todo)
        BY <4>3, <1>1, <3>1 DEF LadderCorpus, Indexing
      <4> QED
        BY <4>1, <4>2, <4>4, <1>3, <1>6, <3>1
    <3>3. CASE Len(job.todo) > 1
      BY <2>1, <2>2, <3>1, <3>2, <3>3, <1>1 DEF LadderCorpus, Indexing, NamesOf
    <3>4. CASE ~(Len(job.todo) > 1)
      <4>1. job'.phase = "score" /\ ToSet(job'.todo) = {}
        BY <2>1, <2>2, <3>1, <3>4 DEF ToSet
      <4>2. \A n \in NamesOf(job.dataset) : \E d \in corpus' : d.owner = "eval" /\ d.name = n /\ d.status = "ready"
        <5>1. Owed = NamesOf(job.dataset)
          BY <2>10 DEF Owed, Sweeper
        <5> QED
          BY <2>1, <2>8, <3>1, <4>1, <5>1
      <4>3. \A d \in Owned("eval")' : d \in Full(job.dataset, Head(job.rungs).cut)
        <5>1. \A d \in Owned("eval")' :
                 d = [name |-> d.name, owner |-> "eval", status |-> "ready", cut |-> Head(job.rungs).cut]
          BY <3>2, <1>4 DEF IsDoc, Owned
        <5> QED
          BY <5>1, <3>2 DEF Full
      <4>4. \A e \in Full(job.dataset, Head(job.rungs).cut) : e \in Owned("eval")'
        <5>1. \A n \in NamesOf(job.dataset) : \E d \in Owned("eval")' : d.name = n
          BY <4>2 DEF Owned
        <5>2. \A n \in NamesOf(job.dataset) :
                 [name |-> n, owner |-> "eval", status |-> "ready", cut |-> Head(job.rungs).cut] \in Owned("eval")'
          <6> TAKE n \in NamesOf(job.dataset)
          <6>1. PICK d \in Owned("eval")' : d.name = n
            BY <5>1
          <6>2. IsDoc(d) /\ d.owner = "eval" /\ d.status = "ready" /\ d.cut = Head(job.rungs).cut
            BY <1>4, <3>2 DEF Owned
          <6> QED
            BY <6>1, <6>2 DEF IsDoc
        <5> QED
          BY <5>2 DEF Full
      <4> QED
        BY <2>1, <4>1, <4>3, <4>4 DEF LadderCorpus, Indexing, Full, NamesOf
    <3> QED
      BY <3>3, <3>4
  <2> QED
    BY <1>4, <2>1, <2>6, <2>10, <2>9 DEF HarnessInv, CommandOK
<1> QED
  BY <1>2, <1>5, <1>6

\* A rung begins: the index of the rung before is taken over as it is, or
\* everything goes.
LEMMA ClaimKeeps == HarnessInv /\ Claim => HarnessInv'
<1> SUFFICES ASSUME HarnessInv, Claim PROVE HarnessInv'
  OBVIOUS
<1>1. /\ DOMAIN job = Fields /\ JobOK /\ Progress /\ (job.command = "ab" => LadderCorpus) /\ UNCHANGED runs
      /\ job.phase = "claim" /\ job.command \in {"run", "ab"} /\ job.owner = "eval" /\ job.dataset \in Dataset
  BY Working DEF Claim, JobOK, Indexing
<1>2. SavedOK'
  BY <1>1 DEF HarnessInv, SavedOK, ReportTrue, Full, NamesOf
<1>3. CASE Refused(job)
  <2>1. job' = None /\ UNCHANGED corpus
    BY <1>3 DEF Claim
  <2> QED
    BY <1>2, <2>1 DEF HarnessInv, CommandOK
<1>4. CASE ~Refused(job)
  <2> DEFINE keeps == Reuses(job)
  <2>1. /\ corpus' = {d \in corpus : d.owner = "eval" => keeps /\ d.name \in NamesOf(job.dataset)}
        /\ job' = [job EXCEPT !.sha = content[job.dataset], !.phase = IF keeps THEN "score" ELSE "drop",
                                !.todo = IF keeps THEN <<>> ELSE DocsOf[job.dataset]]
    BY <1>4 DEF Claim
  <2>2. keeps /\ job.command = "ab" => job.previous = <<Head(job.rungs).cut>>
    BY DEF Reuses
  <2> HIDE DEF keeps
  <2>3. /\ DOMAIN job' = Fields /\ job'.phase = (IF keeps THEN "score" ELSE "drop")
        /\ job'.todo = (IF keeps THEN <<>> ELSE DocsOf[job.dataset])
        /\ job'.command = job.command /\ job'.owner = job.owner /\ job'.dataset = job.dataset
        /\ job'.rungs = job.rungs /\ job'.previous = job.previous
    BY <1>1, <2>1 DEF Fields
  <2>4. IsList(job'.todo) /\ (~keeps => job'.todo # <<>>)
    <3>1. IsList(<<>>)
      BY ListMade, EmptySeq DEF IsList
    <3>2. IsList(DocsOf[job.dataset]) /\ DocsOf[job.dataset] # <<>>
      BY <1>1, HarnessInputs DEF IsList, Dataset
    <3> QED
      BY <2>3, <3>1, <3>2
  <2>5. JobOK'
    BY <1>1, <2>3, <2>4 DEF JobOK, Indexing
  <2>6. Progress'
    BY <1>1, <2>3 DEF Progress, Owed, Indexing, NamesOf, Sweeper
  <2>7. ASSUME job.command = "ab" PROVE LadderCorpus'
    <3>1. CASE keeps
      <4>1. Owned("eval") = Full(job.dataset, Head(job.rungs).cut)
        <5>1. job.previous # <<>> /\ job.previous[1] = Head(job.rungs).cut
          BY <2>2, <2>7, <3>1
        <5> QED
          BY <1>1, <2>7, <5>1 DEF LadderCorpus
      <4>2. \A d \in Owned("eval") : d.name \in NamesOf(job.dataset)
        BY <4>1 DEF Full
      <4>3. Owned("eval")' = Owned("eval")
        BY <2>1, <3>1, <4>2 DEF Owned
      <4> QED
        BY <2>3, <3>1, <4>1, <4>3 DEF LadderCorpus, Indexing, Full, NamesOf
    <3>2. CASE ~keeps
      <4>1. Owned("eval")' = {}
        BY <2>1, <3>2 DEF Owned
      <4> QED
        BY <2>3, <3>2, <4>1 DEF LadderCorpus, Indexing, NamesOf
    <3> QED
      BY <3>1, <3>2
  <2>8. \A d \in corpus' : IsDoc(d)
    BY <2>1 DEF HarnessInv
  <2> QED
    BY <1>2, <2>3, <2>5, <2>6, <2>7, <2>8 DEF HarnessInv, CommandOK
<1> QED
  BY <1>3, <1>4

\* A report says what was searched while the corpus stands still.
LEMMA ScoreKeeps == HarnessInv /\ Score => HarnessInv'
<1> SUFFICES ASSUME HarnessInv, Score PROVE HarnessInv'
  OBVIOUS
<1> DEFINE configs == Head(job.rungs).configs
<1>1. /\ DOMAIN job = Fields /\ JobOK /\ Progress /\ (job.command = "ab" => LadderCorpus)
      /\ UNCHANGED <<corpus, runs>>
      /\ job.phase = "score" /\ job.command \in {"run", "ab"} /\ job.owner = "eval" /\ job.dataset \in Dataset
  <2>1. job # None /\ job.phase = "score" /\ UNCHANGED <<corpus, runs>>
    BY DEF Score
  <2> QED
    BY <2>1, Working DEF JobOK, Indexing
<1>2. SavedOK' /\ \A d \in corpus' : IsDoc(d)
  BY <1>1 DEF HarnessInv, SavedOK, ReportTrue, Full, NamesOf
<1>3. CASE Asked(job.split) = {}
  <2>1. job' = None
    BY <1>3 DEF Score
  <2> QED
    BY <1>2, <2>1 DEF HarnessInv, CommandOK
<1>4. CASE Asked(job.split) # {}
  <2>1. PICK found \in [DOMAIN configs -> SUBSET Asked(job.split)] :
         job' = [job EXCEPT !.phase = "save", !.reports =
                        [n \in DOMAIN configs |->
                            [dataset |-> job.dataset, sha |-> job.sha,
                             config |-> configs[n], cut |-> Head(job.rungs).cut,
                             asked |-> Asked(job.split), found |-> found[n],
                             ladder |-> job.command = "ab",
                             searched |-> Owned("eval")]]]
    BY <1>4 DEF Score
  <2> DEFINE reports == [n \in DOMAIN configs |->
                            [dataset |-> job.dataset, sha |-> job.sha,
                             config |-> configs[n], cut |-> Head(job.rungs).cut,
                             asked |-> Asked(job.split), found |-> found[n],
                             ladder |-> job.command = "ab",
                             searched |-> Owned("eval")]]
  <2>2. Len(configs) \in Nat /\ Len(configs) > 0 /\ DOMAIN configs = 1 .. Len(configs)
    <3>1. Head(job.rungs) \in ToSet(job.rungs)
      BY <1>1, ListTail DEF JobOK
    <3>2. IsList(configs) /\ configs # <<>>
      BY <1>1, <3>1 DEF JobOK
    <3> HIDE DEF configs
    <3>3. configs \in Seq(ToSet(configs))
      BY <3>2 DEF IsList
    <3> QED
      BY <3>2, <3>3, LenProperties, EmptySeq
  <2>3. DOMAIN reports = 1 .. Len(configs) /\ reports = [n \in 1 .. Len(configs) |-> reports[n]]
    BY <2>2
  <2>4. \A n \in DOMAIN reports :
           /\ reports[n].dataset = job.dataset /\ reports[n].cut = Head(job.rungs).cut
           /\ reports[n].asked = Asked(job.split) /\ reports[n].found = found[n]
           /\ reports[n].ladder = (job.command = "ab") /\ reports[n].searched = Owned("eval")
           /\ found[n] \in SUBSET Asked(job.split)
    OBVIOUS
  <2>5. /\ DOMAIN job' = Fields /\ job'.phase = "save" /\ job'.todo = job.todo
        /\ job'.command = job.command /\ job'.owner = job.owner /\ job'.dataset = job.dataset
        /\ job'.rungs = job.rungs /\ job'.previous = job.previous /\ job'.reports = reports
    BY <1>1, <2>1 DEF Fields
  <2> HIDE DEF reports
  <2>6. IsList(reports) /\ reports # <<>>
    BY <2>2, <2>3, ListMade
  <2>7. \A r \in ToSet(reports) : ReportTrue(r)
    <3>1. job.command = "ab" => Owned("eval") = Full(job.dataset, Head(job.rungs).cut)
      BY <1>1 DEF LadderCorpus
    <3>2. \A n \in DOMAIN reports : ReportTrue(reports[n])
      BY <2>4, <3>1 DEF ReportTrue
    <3> QED
      BY <3>2 DEF ToSet
  <2>8. JobOK'
    <3>1. \A r \in ToSet(job'.reports) : ReportTrue(r)
      BY <2>5, <2>7
    <3> QED
      BY <1>1, <2>5, <2>6, <3>1 DEF JobOK, Indexing, ReportTrue, Full, NamesOf
  <2>9. Progress'
    BY <2>5 DEF Progress, Indexing
  <2>10. job.command = "ab" => LadderCorpus'
    <3>1. Owned("eval")' = Owned("eval")
      BY <1>1 DEF Owned
    <3> QED
      BY <1>1, <2>5, <3>1 DEF LadderCorpus, Indexing, Full, NamesOf
  <2>11. CommandOK'
    BY <2>5, <2>8, <2>9, <2>10 DEF CommandOK
  <2> QED
    BY <1>2, <2>11, ZenonT(60) DEF HarnessInv
<1> QED
  BY <1>3, <1>4

\* A run is saved; the next rung finds the corpus as this one leaves it.
LEMMA SaveKeeps == HarnessInv /\ Save => HarnessInv'
<1> SUFFICES ASSUME HarnessInv, Save PROVE HarnessInv'
  OBVIOUS
<1>1. /\ DOMAIN job = Fields /\ JobOK /\ Progress /\ (job.command = "ab" => LadderCorpus)
      /\ UNCHANGED corpus /\ runs' = Append(runs, Head(job.reports))
      /\ job.phase = "save" /\ job.command \in {"run", "ab"} /\ job.owner = "eval" /\ job.dataset \in Dataset
  <2>1. job # None /\ job.phase = "save" /\ UNCHANGED corpus /\ runs' = Append(runs, Head(job.reports))
    BY DEF Save
  <2> QED
    BY <2>1, Working DEF JobOK, Indexing
<1>2. /\ IsList(job.reports) /\ job.reports # <<>> /\ \A r \in ToSet(job.reports) : ReportTrue(r)
      /\ IsList(job.rungs) /\ job.rungs # <<>>
      /\ \A r \in ToSet(job.rungs) : IsList(r.configs) /\ r.configs # <<>>
  BY <1>1 DEF JobOK
<1>3. /\ IsList(Tail(job.reports)) /\ Head(job.reports) \in ToSet(job.reports)
      /\ ToSet(Tail(job.reports)) \subseteq ToSet(job.reports)
      /\ Len(job.reports) > 1 => Tail(job.reports) # <<>>
  BY <1>2, ListTail
<1>4. /\ IsList(Tail(job.rungs)) /\ ToSet(Tail(job.rungs)) \subseteq ToSet(job.rungs)
      /\ Len(job.rungs) > 1 => Tail(job.rungs) # <<>>
  BY <1>2, ListTail
<1>5. SavedOK'
  <2>1. IsList(runs) /\ \A n \in DOMAIN runs : ReportTrue(runs[n])
    BY DEF HarnessInv, SavedOK
  <2>2. ReportTrue(Head(job.reports))
    BY <1>2, <1>3
  <2>3. IsList(runs') /\ \A n \in DOMAIN runs' : ReportTrue(runs'[n])
    BY <1>1, <2>1, <2>2, ListAppend
  <2> QED
    BY <2>3 DEF SavedOK, ReportTrue, Full, NamesOf
<1>6. \A d \in corpus' : IsDoc(d)
  BY <1>1 DEF HarnessInv
<1>7. Owned("eval")' = Owned("eval")
  BY <1>1 DEF Owned
<1>8. CASE Len(job.reports) > 1
  <2>1. job' = [job EXCEPT !.reports = Tail(@)]
    BY <1>8 DEF Save
  <2>2. /\ DOMAIN job' = Fields /\ job'.phase = "save" /\ job'.todo = job.todo
        /\ job'.command = job.command /\ job'.owner = job.owner /\ job'.dataset = job.dataset
        /\ job'.rungs = job.rungs /\ job'.previous = job.previous /\ job'.reports = Tail(job.reports)
    BY <1>1, <2>1 DEF Fields
  <2>3. JobOK'
    <3>1. \A r \in ToSet(job'.reports) : ReportTrue(r)
      BY <1>2, <1>3, <2>2
    <3> QED
      BY <1>1, <1>2, <1>3, <1>8, <2>2, <3>1 DEF JobOK, Indexing, ReportTrue, Full, NamesOf
  <2>4. Progress'
    BY <2>2 DEF Progress, Indexing
  <2>5. job.command = "ab" => LadderCorpus'
    BY <1>1, <1>7, <2>2 DEF LadderCorpus, Indexing, Full, NamesOf
  <2> QED
    BY <1>5, <1>6, <2>2, <2>3, <2>4, <2>5 DEF HarnessInv, CommandOK
<1>9. CASE ~(Len(job.reports) > 1) /\ Len(job.rungs) > 1
  <2>1. job' = [job EXCEPT !.phase = "claim", !.reports = <<>>, !.rungs = Tail(@),
                           !.previous = <<Head(job.rungs).cut>>]
    BY <1>9 DEF Save
  <2>2. /\ DOMAIN job' = Fields /\ job'.phase = "claim" /\ job'.todo = job.todo
        /\ job'.command = job.command /\ job'.owner = job.owner /\ job'.dataset = job.dataset
        /\ job'.rungs = Tail(job.rungs) /\ job'.previous = <<Head(job.rungs).cut>>
    BY <1>1, <2>1 DEF Fields
  <2>3. JobOK'
    BY <1>1, <1>2, <1>4, <1>9, <2>2 DEF JobOK, Indexing
  <2>4. Progress'
    BY <2>2 DEF Progress, Indexing
  <2>5. job.command = "ab" => LadderCorpus'
    <3>1. job'.previous[1] = Head(job.rungs).cut
      BY <2>2
    <3> QED
      BY <1>1, <1>7, <2>2, <3>1 DEF LadderCorpus, Indexing, Full, NamesOf
  <2> QED
    BY <1>5, <1>6, <2>2, <2>3, <2>4, <2>5 DEF HarnessInv, CommandOK
<1>10. CASE ~(Len(job.reports) > 1) /\ ~(Len(job.rungs) > 1)
  <2>1. job' = None
    BY <1>10 DEF Save
  <2> QED
    BY <1>5, <1>6, <2>1 DEF HarnessInv, CommandOK
<1> QED
  BY <1>8, <1>9, <1>10

\* The command dies, and the next one finds what it left.
LEMMA DieKeeps == HarnessInv /\ Die => HarnessInv'
  BY DEF Die, HarnessInv, CommandOK, SavedOK, ReportTrue, Full, NamesOf

\* An upload is a document of another account.
LEMMA UploadKeeps == HarnessInv /\ Upload => HarnessInv'
<1> SUFFICES ASSUME HarnessInv, Upload PROVE HarnessInv'
  OBVIOUS
<1>1. PICK e : /\ e.owner = "user" /\ IsDoc(e) /\ corpus' = corpus \cup {e}
               /\ UNCHANGED <<content, job, runs, commands>>
  <2>1. PICK n \in Name : corpus' = corpus \cup {[name |-> n, owner |-> "user", status |-> "ready",
                                                   cut |-> CHOOSE c \in Cut : TRUE]}
    BY DEF Upload
  <2> DEFINE e == [name |-> n, owner |-> "user", status |-> "ready", cut |-> CHOOSE c \in Cut : TRUE]
  <2>2. e.owner = "user" /\ IsDoc(e)
    BY DEF IsDoc
  <2>3. UNCHANGED <<content, job, runs, commands>>
    BY DEF Upload
  <2> QED
    BY <2>1, <2>2, <2>3
<1>2. job # None => Owned(job.owner)' = Owned(job.owner)
  <2>1. job # None => job.owner # "user"
    BY DEF HarnessInv, CommandOK, JobOK, Sweeper
  <2> QED
    BY <1>1, <2>1 DEF Owned
<1>3. CommandOK'
  BY <1>1, <1>2, CommandStays DEF HarnessInv
<1> QED
  BY <1>1, <1>3 DEF HarnessInv, SavedOK, ReportTrue, Full, NamesOf

\* Neither an edited dataset nor a step elsewhere touches what they rely on.
LEMMA OthersKeep == HarnessInv /\ UNCHANGED <<corpus, job, runs>> => HarnessInv'
<1> SUFFICES ASSUME HarnessInv, UNCHANGED <<corpus, job, runs>> PROVE HarnessInv'
  OBVIOUS
<1>1. job # None => Owned(job.owner)' = Owned(job.owner)
  BY DEF Owned
<1>2. CommandOK'
  BY <1>1, CommandStays DEF HarnessInv
<1> QED
  BY <1>2 DEF HarnessInv, SavedOK, ReportTrue, Full, NamesOf

\* At the start no command runs and nothing is saved.
LEMMA HarnessStarts == HarnessInit => HarnessInv
<1> SUFFICES ASSUME HarnessInit PROVE HarnessInv
  OBVIOUS
<1>1. corpus = {} /\ job = None /\ runs = <<>>
  BY DEF HarnessInit
<1>2. IsList(runs) /\ DOMAIN runs = {}
  BY <1>1, EmptySeq DEF IsList
<1> QED
  BY <1>1, <1>2 DEF HarnessInv, SavedOK, CommandOK

\* Every step of the harness keeps its invariant.
LEMMA HarnessKeeps == HarnessInv /\ [HarnessNext]_harness => HarnessInv'
<1>1. HarnessInv /\ Edit => HarnessInv'
  BY OthersKeep DEF Edit
<1>2. HarnessInv /\ UNCHANGED harness => HarnessInv'
  BY OthersKeep DEF harness
<1> QED
  BY <1>1, <1>2, RunKeeps, AbKeeps, SweepKeeps, DieKeeps, ClaimKeeps, EnsureKeeps, DropKeeps, InsertKeeps,
     BuildKeeps, ScoreKeeps, SaveKeeps, UploadKeeps DEF HarnessNext

\* What the ladder's numbers mean follows from what every saved run was
\* measured on; that a sweep starts whole, from what it was to index.
LEMMA HarnessIsTrue == HarnessInv => LadderTrue
<1> SUFFICES ASSUME HarnessInv PROVE LadderTrue
  OBVIOUS
<1>1. \A n \in DOMAIN runs : ReportTrue(runs[n])
  BY DEF HarnessInv, SavedOK
<1>2. \A n \in DOMAIN runs : runs[n].ladder => runs[n].searched = Full(runs[n].dataset, runs[n].cut)
  BY <1>1 DEF ReportTrue
<1>3. \A n, d, c : Latest(n, d, c) = 0 \/ Latest(n, d, c) \in DOMAIN runs
  <2> TAKE n, d, c
  <2> DEFINE fitting == {k \in DOMAIN runs : runs[k].dataset = d /\ runs[k].config = c}
  <2> DEFINE those == {k \in fitting : Cardinality({j \in fitting : j > k}) = n}
  <2>1. Latest(n, d, c) = IF those = {} THEN 0 ELSE CHOOSE k \in those : TRUE
    BY DEF Latest
  <2>2. those \subseteq DOMAIN runs
    OBVIOUS
  <2> HIDE DEF those
  <2> QED
    BY <2>1, <2>2
<1>4. ASSUME NEW g \in Gates, g[1] # 0, g[2] # 0
      PROVE  LET base == runs[g[1]]
                 head == runs[g[2]]
             IN  base.ladder /\ head.ladder /\ base.asked = head.asked /\ Passes(base, head)
                   => base.found \subseteq head.found /\ base.searched = head.searched
  <2>1. g[1] \in DOMAIN runs /\ g[2] \in DOMAIN runs
    BY <1>3, <1>4 DEF Gates
  <2> DEFINE base == runs[g[1]]
  <2> DEFINE head == runs[g[2]]
  <2>2. /\ base.found \subseteq base.asked
        /\ base.ladder => base.searched = Full(base.dataset, base.cut)
        /\ head.ladder => head.searched = Full(head.dataset, head.cut)
    BY <1>1, <2>1 DEF ReportTrue
  <2> HIDE DEF base, head
  <2>3. ASSUME base.ladder, head.ladder, base.asked = head.asked, Passes(base, head)
        PROVE  base.found \subseteq head.found /\ base.searched = head.searched
    BY <2>2, <2>3 DEF Passes, Comparable, HasRegression
  <2> QED
    BY <2>3 DEF base, head
<1>5. ASSUME job # None, job.phase = "sweep" PROVE \A n \in ToSet(SweepDocs) : Ready(job.owner, n)
  <2>1. JobOK /\ Progress
    BY <1>5 DEF HarnessInv, CommandOK
  <2>2. job.command \in Sweeper /\ job.todo = <<>>
    BY <1>5, <2>1 DEF JobOK, Indexing
  <2>3. ToSet(job.todo) = {}
    BY <2>2 DEF ToSet
  <2> QED
    BY <1>5, <2>1, <2>2, <2>3 DEF Progress, Owed
<1> QED
  BY <1>2, <1>4, <1>5 DEF LadderTrue, Full

\* Every number of a ladder was measured on its own index: whatever ran, died
\* or was kept before, a run of `ab` that is saved searched its dataset, all of
\* it ready and cut as the run says, and nothing else; a diff of two such runs
\* that passes compares the same index and found again what was found; and a
\* sweep starts on a corpus that is complete.
THEOREM LadderIsMeasured == Spec => []LadderTrue
<1>1. Init => HarnessInv
  BY HarnessStarts DEF Init
<1>2. HarnessInv /\ [Next]_evaluation => HarnessInv'
  <2>1. [Next]_evaluation => [HarnessNext]_harness
    <3>1. UNCHANGED evaluation => UNCHANGED harness
      BY DEF evaluation
    <3> QED
      BY <3>1 DEF Next
  <2> QED
    BY <2>1, HarnessKeeps
<1> QED
  BY <1>1, <1>2, HarnessIsTrue, PTL DEF Spec

-----------------------------------------------------------------------------
(***************************************************************************)
(* The sweeps: what has a row is paid, once, and what is left has none.    *)
(***************************************************************************)
\* A set of numbers that is not empty has a least one.
LEMMA LeastNumber ==
    ASSUME NEW N \in SUBSET Nat, N # {}
    PROVE  \E n \in N : \A m \in N : n <= m
<1> DEFINE V == Nat
<1> DEFINE R == OpToRel(<, V)
<1>1. IsWellFoundedOn(R, V) /\ N \subseteq V
  BY NatLessThanWellFounded, Zenon
<1>2. \A m, n \in V : m < n => <<m, n>> \in R
  BY DEF OpToRel
<1> HIDE DEF R, V
<1>3. PICK n \in N : \A m \in N : ~ (<<m, n>> \in R)
  BY <1>1, WFMin
<1>4. \A m \in N : ~ (m < n)
  BY <1>1, <1>2, <1>3
<1> QED
  BY <1>3, <1>4

\* The loops always have a place to go on at, while any is left.
LEMMA FirstPlace ==
    ASSUME NEW P \in SUBSET (Nat \X Nat), P # {}
    PROVE  \E p \in P : \A q \in P \ {p} : Before(p, q)
<1> DEFINE M == {m \in Nat : \E n \in Nat : <<m, n>> \in P}
<1>1. PICK m \in M : \A k \in M : m <= k
  <2>1. M # {} /\ M \in SUBSET Nat
    OBVIOUS
  <2> HIDE DEF M
  <2> QED
    BY <2>1, LeastNumber
<1> DEFINE N == {n \in Nat : <<m, n>> \in P}
<1>2. PICK n \in N : \A k \in N : n <= k
  <2>1. N # {} /\ N \in SUBSET Nat
    OBVIOUS
  <2> HIDE DEF N
  <2> QED
    BY <2>1, LeastNumber
<1>3. <<m, n>> \in P
  OBVIOUS
<1>4. ASSUME NEW q \in P \ {<<m, n>>} PROVE Before(<<m, n>>, q)
  <2>1. q[1] \in Nat /\ q[2] \in Nat /\ q = <<q[1], q[2]>> /\ q[1] \in M
    OBVIOUS
  <2>2. m <= q[1]
    BY <1>1, <2>1
  <2>3. CASE q[1] = m
    <3>1. q[2] \in N /\ q[2] # n
      BY <2>1, <2>3
    <3>2. n <= q[2] /\ n \in Nat
      BY <1>2, <3>1
    <3> QED
      BY <2>1, <2>3, <3>1, <3>2 DEF Before
  <2>4. CASE q[1] # m
    BY <1>1, <2>1, <2>2, <2>4 DEF Before
  <2> QED
    BY <2>3, <2>4
<1> QED
  BY <1>3, <1>4

\* What is paid: every row is there once and the costs fit in what was answered.
CostOK == \A n \in DOMAIN file : file[n].cost \in Nat /\ (file[n].mode # Modes[1] => file[n].cost = 0)
\* No question has two rows in a mode.
OnceEach == \A i, j \in DOMAIN file : Key(file[i]) = Key(file[j]) => i = j
\* What the rows say was generated, all of it,
Paid == SumOf(Costs, DOMAIN file)
\* is no more than the account has traces of.
RowsOK == IsList(file) /\ answered \in Nat /\ CostOK /\ OnceEach /\ Paid \in Int /\ Paid <= answered

\* What is left to a process is what has no row, and the account had answered
\* what was paid when the episode began.
Running == sweep.phase \in {"next", "asking"}
SweepOK ==
    /\ Running => "limit" \in DOMAIN sweep
    /\ "limit" \in DOMAIN sweep => /\ {"phase", "left", "failures"} \subseteq DOMAIN sweep
                                   /\ sweep.left = Left(sweep.limit, Done(file))
                                   /\ sweep.phase = "over" => sweep.left = {}
    /\ sweep.phase = "asking" =>
          /\ sweep.left # {} /\ "since" \in DOMAIN episode
          /\ episode.since \in Nat /\ Paid <= episode.since /\ episode.since <= answered
\* The inductive invariant of the sweeps.
SweepInv == RowsOK /\ SweepOK

\* The places of the two loops are pairs of numbers.
LEMMA PlacesInNat == \A limit, done : Left(limit, done) \in SUBSET (Nat \X Nat)
<1>1. DOMAIN Modes \subseteq Nat /\ DOMAIN Items \subseteq Nat
  BY SweepKeys, LenProperties
<1> QED
  BY <1>1 DEF Left, Taken, Stratified

\* The place the loops are at is one that is left, and has no row yet.
LEMMA CurrentIsLeft ==
    ASSUME SweepInv, sweep.phase = "asking"
    PROVE  Current \in sweep.left /\ KeyAt(Current) \notin Done(file)
<1>1. sweep.left = Left(sweep.limit, Done(file)) /\ sweep.left # {}
  BY DEF SweepInv, SweepOK, Running
<1>2. \E p \in sweep.left : \A q \in sweep.left \ {p} : Before(p, q)
  BY <1>1, PlacesInNat, FirstPlace
<1>3. Current \in sweep.left
  BY <1>2 DEF Current
<1> QED
  BY <1>1, <1>3 DEF Left

\* A row and the keys and costs behind it.
LEMMA RowAdded ==
    ASSUME RowsOK, NEW row, file' = Append(file, row), row.cost \in Nat
    PROVE  /\ DOMAIN file' = DOMAIN file \cup {Len(file) + 1} /\ Len(file) + 1 \notin DOMAIN file
           /\ \A n \in DOMAIN file : file'[n] = file[n]
           /\ file'[Len(file) + 1] = row
           /\ IsList(file') /\ Done(file') = Done(file) \cup {Key(row)}
           /\ Paid' = Paid + row.cost
<1> DEFINE n == Len(file)
<1>1. file \in Seq(ToSet(file) \cup {row}) /\ n \in Nat /\ DOMAIN file = 1 .. n
  <2>1. file \in Seq(ToSet(file)) /\ n \in Nat /\ DOMAIN file = 1 .. n /\ file \in [1 .. n -> ToSet(file)]
    BY LenProperties DEF RowsOK, IsList
  <2>2. file \in [1 .. n -> ToSet(file) \cup {row}]
    BY <2>1
  <2> DEFINE S == ToSet(file) \cup {row}
  <2> HIDE DEF n, S
  <2>3. file \in Seq(S)
    BY <2>1, <2>2 DEF S
  <2> QED
    BY <2>1, <2>3 DEF n, S
<1>2. DOMAIN file' = 1 .. n + 1 /\ file'[n + 1] = row /\ \A i \in 1 .. n : file'[i] = file[i]
  BY <1>1, AppendProperties, LenProperties
<1>3. IsList(file')
  BY ListAppend DEF RowsOK
<1>4. 1 .. n + 1 = (1 .. n) \cup {n + 1} /\ n + 1 \notin 1 .. n
  BY <1>1
<1> HIDE DEF n
<1>5. Done(file') = Done(file) \cup {Key(row)}
  BY <1>1, <1>2, <1>4 DEF Done
<1>6. Paid' = Paid + row.cost
  <2> DEFINE S == 1 .. n + 1
  <2> DEFINE T == 1 .. n
  <2> DEFINE w == Costs'
  <2> DEFINE v == Costs
  <2>1. IsFiniteSet(S) /\ T \in SUBSET S
    BY <1>1, <1>4, FS_Interval
  <2>2. v \in [T -> Int]
    BY <1>1 DEF Costs, RowsOK, CostOK
  <2>3. w = [i \in S |-> file'[i].cost] /\ \A i \in T : w[i] = v[i]
    BY <1>1, <1>2, <1>4 DEF Costs
  <2>4. w \in [S -> Int] /\ w[n + 1] = row.cost
    BY <1>1, <1>2, <1>4, <2>3 DEF RowsOK, CostOK
  <2>5. S \ {n + 1} = T /\ n + 1 \in S
    BY <1>4
  <2>6. Paid' = SumOf(w, S) /\ Paid = SumOf(v, T)
    BY <1>1, <1>2 DEF Paid
  <2> HIDE DEF S, T, w, v
  <2>7. SumOf(w, S) = w[n + 1] + SumOf(w, T)
    <3>1. S \in SUBSET S
      OBVIOUS
    <3> QED
      BY <2>1, <2>4, <2>5, <3>1, SumTakes
  <2>8. SumOf(v, T) = SumOf(w, T)
    <3>1. \A i \in T : v[i] = w[i]
      BY <2>3
    <3> QED
      BY <2>1, <2>2, <2>4, <3>1, SumSame
  <2>9. Paid \in Int
    BY DEF RowsOK
  <2> QED
    BY <2>4, <2>6, <2>7, <2>8, <2>9
<1> QED
  BY <1>1, <1>2, <1>3, <1>4, <1>5, <1>6 DEF n

\* A step that writes no row leaves the rows paid for.
LEMMA RowsStay ==
    ASSUME RowsOK, UNCHANGED file, answered' \in Nat, answered' >= answered
    PROVE  RowsOK' /\ Paid' = Paid /\ Done(file') = Done(file)
<1>1. Paid' = Paid
  BY DEF Paid, Costs
<1>2. CostOK' /\ OnceEach'
  BY DEF RowsOK, CostOK, OnceEach, Key
<1> QED
  BY <1>1, <1>2 DEF RowsOK

\* A process, resumed or not, has before it what has no row (load_done).
LEMMA StartSweepKeeps == SweepInv /\ StartSweep => SweepInv'
<1> SUFFICES ASSUME SweepInv, StartSweep PROVE SweepInv'
  OBVIOUS
<1>1. RowsOK' /\ Done(file') = Done(file)
  BY RowsStay DEF StartSweep, SweepInv, RowsOK
<1>2. PICK limit \in Take, under \in Conditions : sweep' = Process(limit, under, Done(file))
  BY DEF StartSweep
<1>3. /\ sweep'.phase = "next" /\ sweep'.limit = limit /\ sweep'.left = Left(limit, Done(file))
      /\ {"phase", "left", "failures", "limit"} \subseteq DOMAIN sweep'
  BY <1>2 DEF Process
<1> QED
  BY <1>1, <1>3 DEF SweepInv, SweepOK, Running

\* An episode goes on: its process has what is left, and the answers only grow.
LEMMA EpisodeGoesOn ==
    ASSUME SweepInv, sweep.phase = "asking", UNCHANGED <<file, sweep>>, answered' \in Nat, answered' >= answered,
           "since" \in DOMAIN episode => "since" \in DOMAIN episode' /\ episode'.since = episode.since
    PROVE  SweepInv'
<1>1. RowsOK' /\ Paid' = Paid /\ Done(file') = Done(file)
  BY RowsStay DEF SweepInv
<1>2. answered \in Nat /\ Paid \in Int
  BY DEF SweepInv, RowsOK
<1> QED
  BY <1>1, <1>2 DEF SweepInv, SweepOK, Running

\* An episode begins where all that was paid was answered.
LEMMA BeginKeeps == SweepInv /\ Begin => SweepInv'
<1> SUFFICES ASSUME SweepInv, Begin PROVE SweepInv'
  OBVIOUS
<1>1. RowsOK' /\ Paid' = Paid /\ Done(file') = Done(file)
  BY RowsStay DEF Begin, SweepInv, RowsOK
<1>2. Running /\ "limit" \in DOMAIN sweep
  BY DEF Begin, SweepInv, SweepOK, Running
<1>3. /\ DOMAIN sweep' = DOMAIN sweep /\ sweep'.phase = "asking" /\ sweep'.limit = sweep.limit
      /\ sweep'.left = sweep.left /\ sweep.left # {}
  BY <1>2 DEF Begin, SweepInv, SweepOK
<1>4. "since" \in DOMAIN episode' /\ episode'.since = answered /\ UNCHANGED answered
  BY DEF Begin
<1> QED
  BY <1>1, <1>2, <1>3, <1>4 DEF SweepInv, SweepOK, RowsOK, Running

\* What an episode waits or records leaves the time it began at alone.
LEMMA SinceStays ==
    ASSUME NEW e, "since" \in DOMAIN e, NEW pace, NEW error
    PROVE  /\ DOMAIN Wait(e, pace) = DOMAIN e /\ Wait(e, pace).since = e.since
           /\ DOMAIN Recorded(e, error, pace) = DOMAIN e /\ Recorded(e, error, pace).since = e.since
<1>1. DOMAIN Wait(e, pace) = DOMAIN e /\ Wait(e, pace).since = e.since
  BY DEF Wait
<1>2. DOMAIN Recorded(e, error, pace) = DOMAIN Wait(e, pace) /\ Recorded(e, error, pace).since = Wait(e, pace).since
  BY <1>1 DEF Recorded
<1> QED
  BY <1>1, <1>2

\* The agent thinks, waits and calls; the server may answer once more.
LEMMA ThinkKeeps == SweepInv /\ (Think \/ Limited \/ Call) => SweepInv'
<1> SUFFICES ASSUME SweepInv, Think \/ Limited \/ Call PROVE SweepInv'
  OBVIOUS
<1>1. answered \in Nat
  BY DEF SweepInv, RowsOK
<1>2. CASE Think
  <2>1. "since" \in DOMAIN episode => "since" \in DOMAIN episode' /\ episode'.since = episode.since
    <3>1. SUFFICES ASSUME "since" \in DOMAIN episode PROVE "since" \in DOMAIN episode' /\ episode'.since = episode.since
      OBVIOUS
    <3>2. PICK pace \in Pace, asks \in 0 .. 2 :
            episode' = [Wait(episode, pace) EXCEPT !.turns = @ + 1, !.tries = 0, !.todo = asks, !.wall = @ + 1,
                                                   !.phase = IF asks = 0 THEN "over" ELSE "tool"]
      BY <1>2, Zenon DEF Think
    <3> QED
      BY <3>1, <3>2, SinceStays
  <2>2. sweep.phase = "asking" /\ UNCHANGED <<file, sweep, answered>>
    BY <1>2, Zenon DEF Think
  <2> QED
    BY <1>1, <2>1, <2>2, EpisodeGoesOn
<1>3. CASE Limited
  <2>1. "since" \in DOMAIN episode => "since" \in DOMAIN episode' /\ episode'.since = episode.since
    BY <1>3 DEF Limited
  <2> QED
    BY <1>1, <1>3, <2>1, EpisodeGoesOn DEF Limited
<1>4. CASE Call
  <2>1. "since" \in DOMAIN episode => "since" \in DOMAIN episode' /\ episode'.since = episode.since
    <3>1. SUFFICES ASSUME "since" \in DOMAIN episode PROVE "since" \in DOMAIN episode' /\ episode'.since = episode.since
      OBVIOUS
    <3>2. CASE episode' = [episode EXCEPT !.phase = "over"]
      BY <3>1, <3>2
    <3>3. ASSUME NEW pace, NEW error,
                 episode' = [Recorded(episode, error, pace) EXCEPT !.todo = @ - 1,
                               !.phase = IF episode.todo > 1 THEN "tool"
                                         ELSE IF episode.turns = MaxTurns THEN "over" ELSE "model"]
          PROVE  "since" \in DOMAIN episode' /\ episode'.since = episode.since
      BY <3>1, <3>3, SinceStays
    <3> QED
      BY <1>4, <3>2, <3>3, Zenon DEF Call
  <2>2. answered' \in {answered, answered + 1}
    BY <1>4, Zenon DEF Call
  <2>3. sweep.phase = "asking" /\ UNCHANGED <<file, sweep>>
    BY <1>4, Zenon DEF Call
  <2> QED
    BY <1>1, <2>1, <2>2, <2>3, EpisodeGoesOn
<1> QED
  BY <1>2, <1>3, <1>4

\* The row of a question takes its place, and only its place, out of what is left.
LEMMA PlaceDone ==
    ASSUME NEW limit, NEW done, NEW p \in Left(limit, done)
    PROVE  Left(limit, done \cup {KeyAt(p)}) = Left(limit, done) \ {p}
<1> DEFINE Places == (DOMAIN Modes) \X Taken(limit)
<1>1. \A q \in Places : KeyAt(q) = KeyAt(p) => q = p
  <2>1. ASSUME NEW q \in Places, KeyAt(q) = KeyAt(p) PROVE q = p
    <3>1. p \in Places /\ Taken(limit) \subseteq DOMAIN Items
      BY DEF Left, Taken, Stratified
    <3>2. Modes[q[1]] = Modes[p[1]] /\ Items[q[2]].id = Items[p[2]].id
      BY <2>1 DEF KeyAt
    <3>3. /\ p[1] \in DOMAIN Modes /\ q[1] \in DOMAIN Modes /\ p[2] \in DOMAIN Items /\ q[2] \in DOMAIN Items
          /\ p = <<p[1], p[2]>> /\ q = <<q[1], q[2]>>
      BY <2>1, <3>1
    <3>4. q[1] = p[1] /\ q[2] = p[2]
      BY <3>2, <3>3, SweepKeys
    <3> QED
      BY <3>3, <3>4
  <2> QED
    BY <2>1
<1>2. Left(limit, done) = {q \in Places : KeyAt(q) \notin done}
  BY DEF Left
<1>3. Left(limit, done \cup {KeyAt(p)}) = {q \in Places : KeyAt(q) \notin done \cup {KeyAt(p)}}
  BY DEF Left
<1> HIDE DEF Places
<1> QED
  BY <1>1, <1>2, <1>3

\* The row is of a place without one, and costs what was answered since.
LEMMA WriteKeeps == SweepInv /\ Write => SweepInv'
<1> SUFFICES ASSUME SweepInv, Write PROVE SweepInv'
  OBVIOUS
<1> DEFINE row == Row(episode)
<1> DEFINE rest == sweep.left \ {Current}
<1>1. sweep.phase = "asking" /\ file' = Append(file, row) /\ UNCHANGED answered
  BY DEF Write
<1>2. Current \in sweep.left /\ KeyAt(Current) \notin Done(file)
  BY <1>1, CurrentIsLeft
<1>3. /\ "limit" \in DOMAIN sweep /\ sweep.left = Left(sweep.limit, Done(file))
      /\ {"phase", "left", "failures"} \subseteq DOMAIN sweep
      /\ "since" \in DOMAIN episode /\ episode.since \in Nat /\ Paid <= episode.since /\ episode.since <= answered
      /\ answered \in Nat /\ Paid \in Int /\ RowsOK
  BY <1>1 DEF SweepInv, SweepOK, RowsOK, Running
<1>4. Key(row) = KeyAt(Current)
  BY DEF Row, Key, KeyAt
<1>5. row.cost \in Nat /\ row.cost <= answered - episode.since /\ (row.mode # Modes[1] => row.cost = 0)
  <2>1. row.cost = (IF Current[1] = 1 THEN answered - episode.since ELSE 0) /\ row.mode = Modes[Current[1]]
    BY DEF Row, ServerTokens, InServer, KeyAt
  <2> HIDE DEF row
  <2> QED
    BY <1>3, <2>1
<1> HIDE DEF row
<1>6. /\ DOMAIN file' = DOMAIN file \cup {Len(file) + 1} /\ Len(file) + 1 \notin DOMAIN file
      /\ \A n \in DOMAIN file : file'[n] = file[n]
      /\ file'[Len(file) + 1] = row
      /\ IsList(file') /\ Done(file') = Done(file) \cup {Key(row)}
      /\ Paid' = Paid + row.cost
  BY <1>1, <1>3, <1>5, RowAdded
<1>7. CostOK'
  BY <1>3, <1>5, <1>6 DEF RowsOK, CostOK
<1>8. OnceEach'
  <2>1. \A n \in DOMAIN file : Key(file[n]) # Key(row)
    BY <1>2, <1>4 DEF Done
  <2> QED
    BY <1>3, <1>6, <2>1 DEF RowsOK, OnceEach
<1>9. RowsOK'
  BY <1>1, <1>3, <1>5, <1>6, <1>7, <1>8 DEF RowsOK
<1>10. Left(sweep.limit, Done(file')) = rest
  BY <1>2, <1>3, <1>4, <1>6, PlaceDone
<1> HIDE DEF rest
<1>11. \/ sweep' = [phase |-> "over"]
       \/ /\ DOMAIN sweep' = DOMAIN sweep /\ sweep'.phase = "next" /\ sweep'.limit = sweep.limit
          /\ sweep'.left = rest
  BY <1>3 DEF Write, row, rest
<1>12. SweepOK'
  <2>1. CASE sweep' = [phase |-> "over"]
    BY <2>1 DEF SweepOK, Running
  <2>2. CASE sweep' # [phase |-> "over"]
    BY <1>3, <1>10, <1>11, <2>2 DEF SweepOK, Running
  <2> QED
    BY <2>1, <2>2
<1> QED
  BY <1>9, <1>12 DEF SweepInv

\* The tables are printed, or the process dies.
LEMMA OthersOfSweep == SweepInv /\ (Report \/ Crash \/ UNCHANGED sweeping) => SweepInv'
<1> SUFFICES ASSUME SweepInv, Report \/ Crash \/ UNCHANGED sweeping PROVE SweepInv'
  OBVIOUS
<1>1. UNCHANGED file /\ UNCHANGED answered
  BY DEF Report, Crash, sweeping
<1>2. RowsOK' /\ Paid' = Paid /\ Done(file') = Done(file)
  BY <1>1, RowsStay DEF SweepInv, RowsOK
<1> USE DEF SweepInv, SweepOK, Running
<1>3. CASE Report
  <2>1. sweep.left = {} /\ "limit" \in DOMAIN sweep
    BY <1>3 DEF Report
  <2>2. /\ DOMAIN sweep' = DOMAIN sweep /\ sweep'.phase = "over" /\ sweep'.limit = sweep.limit /\ sweep'.left = sweep.left
    BY <1>3, <2>1 DEF Report
  <2> QED
    BY <1>2, <2>1, <2>2
<1>4. CASE Crash
  <2>1. sweep'.phase = "over" /\ "limit" \notin DOMAIN sweep'
    BY <1>4 DEF Crash
  <2> QED
    BY <1>2, <2>1
<1>5. CASE UNCHANGED sweeping
  BY <1>1, <1>2, <1>5 DEF sweeping
<1> QED
  BY <1>3, <1>4, <1>5

\* At the start there is no file.
LEMMA SweepStarts == SweepInit => SweepInv
<1> SUFFICES ASSUME SweepInit PROVE SweepInv
  OBVIOUS
<1>1. file = <<>> /\ DOMAIN file = {} /\ answered = 0 /\ sweep.phase = "none" /\ "limit" \notin DOMAIN sweep
  BY DEF SweepInit, NoSweep
<1>2. IsList(file)
  BY <1>1, EmptySeq DEF IsList
<1>3. Paid = 0
  <2>1. Costs \in [{} -> Int]
    BY <1>1 DEF Costs
  <2>2. IsFiniteSet({})
    BY FS_EmptySet
  <2>3. SumOf(Costs, {}) = 0
    BY <2>1, <2>2, SumTakes
  <2> QED
    BY <1>1, <2>3 DEF Paid
<1> QED
  BY <1>1, <1>2, <1>3 DEF SweepInv, RowsOK, CostOK, OnceEach, SweepOK, Running

\* Every step of a sweep keeps the invariant.
LEMMA SweepingKeeps == SweepInv /\ [SweepNext]_sweeping => SweepInv'
BY StartSweepKeeps, BeginKeeps, ThinkKeeps, WriteKeeps, OthersOfSweep DEF SweepNext

\* The invariant is what SweepExact says.
LEMMA SweepIsExact == SweepInv => SweepExact
<1> SUFFICES ASSUME SweepInv PROVE SweepExact
  OBVIOUS
<1>1. sweep.phase = "asking" => KeyAt(Current) \notin Done(file)
  BY CurrentIsLeft
<1>2. ASSUME sweep.phase = "over", "limit" \in DOMAIN sweep, NEW m \in ToSet(Modes), NEW n \in Taken(sweep.limit)
      PROVE  <<m, Items[n].id>> \in Done(file)
  <2>1. Left(sweep.limit, Done(file)) = {}
    BY <1>2 DEF SweepInv, SweepOK
  <2>2. PICK k \in DOMAIN Modes : Modes[k] = m
    BY DEF ToSet
  <2>3. <<k, n>> \in (DOMAIN Modes) \X Taken(sweep.limit) /\ KeyAt(<<k, n>>) = <<m, Items[n].id>>
    BY <2>2 DEF KeyAt
  <2> QED
    BY <2>1, <2>3 DEF Left
<1>3. MapThenSumSet(LAMBDA n : Costs[n], DOMAIN file) <= answered
  BY DEF SweepInv, RowsOK, Paid, SumOf
<1> QED
  BY <1>1, <1>2, <1>3 DEF SweepExact, SweepInv, RowsOK, CostOK, OnceEach

\* What is paid is paid once (w6_run, l3_run): for every dataset, list of modes,
\* limit and number of processes that die and are resumed, no question has two
\* rows in a mode, no episode begins for one that has its row, the tables are
\* printed over the same questions in every mode, and what the server generated
\* is in one row's costs at most.
THEOREM SweepIsPaidOnce == Spec => []SweepExact
<1>1. Init => SweepInv
  BY SweepStarts DEF Init
<1>2. SweepInv /\ [Next]_evaluation => SweepInv'
  <2>1. [Next]_evaluation => [SweepNext]_sweeping
    <3>1. UNCHANGED evaluation => UNCHANGED sweeping
      BY DEF evaluation
    <3> QED
      BY <3>1 DEF Next
  <2> QED
    BY <2>1, SweepingKeeps
<1> QED
  BY <1>1, <1>2, SweepIsExact, PTL DEF Spec

-----------------------------------------------------------------------------
(***************************************************************************)
(* The judges: whose work a file of verdicts is, and what labels it meets. *)
(***************************************************************************)
\* The records of one process: a beginning of the answers, under one rubric.
Work(s) ==
    /\ IsList(s)
    /\ \A n \in DOMAIN s :
         /\ n \in DOMAIN Answers /\ s[n].id = Answers[n].id
         /\ s[n].by = s[1].by /\ s[n].rubric = s[1].rubric
         /\ s[n].scores \in [Dims[Answers[n].type] -> Scale]
\* A process at work has done a beginning, all of it its own.
WorkOK ==
    judge.phase # "none" =>
       /\ {"phase", "last", "done", "under"} \subseteq DOMAIN judge
       /\ Work(judge.done)
       /\ \A n \in DOMAIN judge.done : judge.done[n].by = sittings /\ judge.done[n].rubric = judge.under

\* The labels: one for a question and a dimension, filled in on the scale.
LabelsOK ==
    /\ IsFiniteSet(labels)
    /\ \A l \in labels : l = [id |-> l.id, dim |-> l.dim, rubric |-> l.rubric, of |-> l.of, human |-> l.human]
    /\ \A l \in labels : l.human # Blank => l.human \in Scale
    /\ \A k, l \in labels : k.id = l.id /\ k.dim = l.dim => k = l

\* What an adoption takes: pairs of one rubric, none twice, and two readers who
\* tell answers apart.
Adopted(ps) ==
    /\ \A p \in ps : Cardinality(p.rubrics) = 1
    /\ \A p, q \in ps : p.id = q.id /\ p.dim = q.dim => p = q
    /\ Cardinality({p.judge : p \in ps}) > 1
    /\ Cardinality({p.human : p \in ps}) > 1
\* Such are the pairs kappa adopts on.
AgreementOK == agreement.says = "adopt" => Adopted(agreement.pairs)

\* The inductive invariant of the judges.
JudgingInv == Work(records) /\ Work(kept) /\ WorkOK /\ LabelsOK /\ AgreementOK

\* The first of the records is a record of them, and stands for all.
LEMMA WorkOfOne ==
    ASSUME NEW s, Work(s), NEW r \in ToSet(s)
    PROVE  /\ s # <<>> /\ 1 \in DOMAIN s /\ s[1] \in ToSet(s)
           /\ r.rubric = s[1].rubric
           /\ \A d \in DOMAIN r.scores : r.scores[d] \in Scale
           /\ IsFiniteSet(DOMAIN r.scores)
           /\ \A q \in ToSet(s) : q.id = r.id => q = r
<1>1. PICK n \in DOMAIN s : s[n] = r
  BY DEF ToSet
<1>2. /\ n \in DOMAIN Answers /\ s[n].id = Answers[n].id /\ s[n].rubric = s[1].rubric
      /\ s[n].scores \in [Dims[Answers[n].type] -> Scale]
  BY <1>1 DEF Work
<1>3. s \in Seq(ToSet(s)) /\ Len(s) \in Nat /\ DOMAIN s = 1 .. Len(s)
  BY LenProperties DEF Work, IsList
<1>4. 1 \in DOMAIN s /\ s # <<>>
  BY <1>1, <1>3, EmptySeq
<1>5. s[1] \in ToSet(s)
  BY <1>4 DEF ToSet
<1>6. IsFiniteSet(DOMAIN r.scores) /\ \A d \in DOMAIN r.scores : r.scores[d] \in Scale
  BY <1>1, <1>2, JudgingKeys
<1>7. \A q \in ToSet(s) : q.id = r.id => q = r
  <2>1. ASSUME NEW q \in ToSet(s), q.id = r.id PROVE q = r
    <3>1. PICK m \in DOMAIN s : s[m] = q
      BY DEF ToSet
    <3>2. m \in DOMAIN Answers /\ s[m].id = Answers[m].id
      BY <3>1 DEF Work
    <3> QED
      BY <1>1, <1>2, <2>1, <3>1, <3>2, JudgingKeys
  <2> QED
    BY <2>1
<1> QED
  BY <1>1, <1>2, <1>4, <1>5, <1>6, <1>7

\* What is written of a process's work is work of one process.
LEMMA WorkBegins ==
    ASSUME NEW s, Work(s), NEW n \in 0 .. Len(s)
    PROVE  Work(SubSeq(s, 1, n))
<1> DEFINE t == SubSeq(s, 1, n)
<1>1. s \in Seq(ToSet(s)) /\ Len(s) \in Nat /\ DOMAIN s = 1 .. Len(s) /\ s \in [1 .. Len(s) -> ToSet(s)]
  BY LenProperties DEF Work, IsList
<1>2. t \in Seq(ToSet(s)) /\ Len(t) = n /\ \A i \in 1 .. n : t[i] = s[i]
  BY <1>1, SubSeqProperties
<1>3. DOMAIN t = 1 .. n /\ t \in [1 .. n -> ToSet(s)]
  BY <1>2, LenProperties
<1> HIDE DEF t
<1>4. IsList(t)
  <2>1. t \in [1 .. n -> ToSet(t)]
    BY <1>3 DEF ToSet
  <2> QED
    BY <1>2, <1>3, <2>1 DEF IsList
<1>5. \A i \in 1 .. n : i \in DOMAIN s /\ 1 \in 1 .. n
  BY <1>1
<1> QED
  BY <1>2, <1>3, <1>4, <1>5 DEF Work, t

\* No record is the work of one process.
LEMMA WorkNone == Work(<<>>)
<1>1. IsList(<<>>) /\ DOMAIN <<>> = {}
  BY EmptySeq DEF IsList
<1> QED
  BY <1>1 DEF Work

-----------------------------------------------------------------------------
\* Where the judge, or the people, always say the same, what is observed
\* and what would be by chance are as far apart.
LEMMA NoneAdopted ==
    ASSUME NEW ps, IsFiniteSet(ps), \A p \in ps : p.judge \in Int /\ p.human \in Int,
           \/ \A p, q \in ps : p.judge = q.judge
           \/ \A p, q \in ps : p.human = q.human
    PROVE  KappaVerdict(ps) # "adopt"
<1> DEFINE v == ByChance(ps)
<1> DEFINE w == Apart(ps)
<1> DEFINE S == ps \X ps
<1>1. \A a, b \in Int : Square(a, b) \in Int /\ Square(a, b) >= 0
  <2>1. \A c \in Int : c * c \in Int /\ c * c >= 0
    OBVIOUS
  <2> QED
    BY <2>1 DEF Square
<1>2. w \in [ps -> Int] /\ \A p \in ps : w[p] = Square(p.judge, p.human) /\ w[p] >= 0
  BY <1>1 DEF Apart
<1>3. v \in [S -> Int] /\ \A p, q \in ps : v[<<p, q>>] = Square(p.judge, q.human)
  BY <1>1 DEF ByChance
<1>4. IsFiniteSet(S)
  BY FS_Product
<1>5. Observed(ps) = SumOf(w, ps) /\ Expected(ps) = SumOf(v, S)
  BY DEF Observed, Expected, SumOf
<1> HIDE DEF v, w, S
<1>6. SumOf(v, S) = Cardinality(ps) * SumOf(w, ps)
  <2>1. CASE \A p, q \in ps : p.judge = q.judge
    <3> DEFINE at == [p \in ps \X ps |-> p]
    <3>1. at \in [ps \X ps -> S] /\ (\A p, q \in ps \X ps : at[p] = at[q] => p = q) /\ Grid(at, ps, ps) = S
      BY DEF S, Grid
    <3>2. \A p \in ps \X ps : v[at[p]] = w[p[2]]
      <4>1. ASSUME NEW p \in ps \X ps PROVE v[at[p]] = w[p[2]]
        <5>1. at[p] = p /\ p = <<p[1], p[2]>> /\ p[1] \in ps /\ p[2] \in ps
          OBVIOUS
        <5>2. p[1].judge = p[2].judge
          BY <2>1, <5>1
        <5>3. v[p] = Square(p[1].judge, p[2].human)
          BY <1>3, <5>1
        <5> HIDE DEF at
        <5> QED
          BY <1>2, <5>1, <5>2, <5>3
      <4> QED
        BY <4>1
    <3>3. Table(S, v, ps, ps, w, at)
      <4> HIDE DEF at
      <4> QED
        BY <1>2, <1>3, <3>1, <3>2 DEF Table
    <3> HIDE DEF at
    <3> QED
      BY <1>4, <3>1, <3>3, SumGrid
  <2>2. CASE \A p, q \in ps : p.human = q.human
    <3> DEFINE at == [p \in ps \X ps |-> <<p[2], p[1]>>]
    <3>1. at \in [ps \X ps -> S] /\ \A a, b \in ps : at[<<a, b>>] = <<b, a>>
      BY DEF S
    <3>2. \A p \in ps \X ps : p = <<p[1], p[2]>> /\ p[1] \in ps /\ p[2] \in ps
      OBVIOUS
    <3> HIDE DEF at
    <3>3. \A p, q \in ps \X ps : at[p] = at[q] => p = q
      <4>1. ASSUME NEW p \in ps \X ps, NEW q \in ps \X ps, at[p] = at[q] PROVE p = q
        <5>1. at[p] = <<p[2], p[1]>> /\ at[q] = <<q[2], q[1]>>
          BY <3>1, <3>2
        <5>2. <<p[2], p[1]>> = <<q[2], q[1]>>
          BY <4>1, <5>1
        <5>3. p[1] = q[1] /\ p[2] = q[2]
          BY <5>2
        <5> QED
          BY <3>2, <5>3
      <4> QED
        BY <4>1
    <3>4. Grid(at, ps, ps) = S
      <4>1. ASSUME NEW p \in ps \X ps PROVE \E q \in ps \X ps : at[q] = p
        <5>1. <<p[2], p[1]>> \in ps \X ps /\ at[<<p[2], p[1]>>] = p
          BY <3>1, <3>2
        <5> QED
          BY <5>1
      <4>2. \A p \in ps \X ps : at[p] \in ps \X ps
        BY <3>1 DEF S
      <4> QED
        BY <4>1, <4>2 DEF S, Grid
    <3>5. \A p \in ps \X ps : v[at[p]] = w[p[2]]
      <4>1. ASSUME NEW p \in ps \X ps PROVE v[at[p]] = w[p[2]]
        <5>1. p[1].human = p[2].human /\ at[p] = <<p[2], p[1]>> /\ p[1] \in ps /\ p[2] \in ps
          BY <2>2, <3>1, <3>2
        <5>2. v[at[p]] = Square(p[2].judge, p[1].human)
          BY <1>3, <5>1
        <5> QED
          BY <1>2, <5>1, <5>2
      <4> QED
        BY <4>1
    <3>6. Table(S, v, ps, ps, w, at)
      BY <1>2, <1>3, <3>1, <3>3, <3>5 DEF Table
    <3> QED
      BY <1>4, <3>4, <3>6, SumGrid
  <2> QED
    BY <2>1, <2>2
<1>7. SumOf(w, ps) \in Int /\ SumOf(w, ps) >= 0 /\ Cardinality(ps) \in Nat
  <2>1. ps \in SUBSET ps
    OBVIOUS
  <2> QED
    BY <1>2, <2>1, SumTakes, SumNatural, FS_CardinalityType
<1> DEFINE n == Cardinality(ps)
<1> DEFINE o == SumOf(w, ps)
<1>8. n * o \in Int /\ n * o >= 0 /\ 5 * n * o = 5 * (n * o)
  <2> HIDE DEF n, o
  <2>1. n \in Nat /\ o \in Int /\ o >= 0
    BY <1>7 DEF n, o
  <2> QED
    BY <2>1
<1>9. Observed(ps) = o /\ Expected(ps) = n * o
  BY <1>5, <1>6
<1> HIDE DEF o, n
<1>10. ASSUME n * o # 0 PROVE ~ (5 * n * o <= 2 * (n * o))
  <2> DEFINE e == n * o
  <2>1. e \in Int /\ e >= 0 /\ e # 0 /\ 5 * n * o = 5 * e
    BY <1>8, <1>10
  <2> HIDE DEF e
  <2>2. ~ (5 * n * o <= 2 * e)
    BY <2>1
  <2> QED
    BY <2>2 DEF e
<1> QED
  BY <1>9, <1>10 DEF KappaVerdict, n

-----------------------------------------------------------------------------
\* So is what has the next answer's record in addition.
LEMMA WorkGrows ==
    ASSUME NEW s, Work(s), Len(s) < Len(Answers), NEW e,
           e.id = Answers[Len(s) + 1].id, e.scores \in [Dims[Answers[Len(s) + 1].type] -> Scale],
           \A n \in DOMAIN s : e.by = s[n].by /\ e.rubric = s[n].rubric
    PROVE  /\ Work(Append(s, e))
           /\ \A n \in DOMAIN Append(s, e) : (n \in DOMAIN s /\ Append(s, e)[n] = s[n]) \/ Append(s, e)[n] = e
<1> DEFINE t == Append(s, e)
<1>1. s \in Seq(ToSet(s)) /\ Len(s) \in Nat /\ DOMAIN s = 1 .. Len(s)
  BY LenProperties DEF Work, IsList
<1>2. Len(Answers) \in Nat /\ DOMAIN Answers = 1 .. Len(Answers)
  BY JudgingKeys, LenProperties
<1>3. IsList(t) /\ \A n \in DOMAIN t : (n \in DOMAIN s /\ t[n] = s[n]) \/ t[n] = e
  BY ListAppend DEF Work
<1>4. DOMAIN t = 1 .. Len(s) + 1 /\ t[Len(s) + 1] = e /\ \A n \in 1 .. Len(s) : t[n] = s[n]
  <2> DEFINE S == ToSet(s) \cup {e}
  <2>1. s \in [1 .. Len(s) -> S]
    <3>1. s \in [1 .. Len(s) -> ToSet(s)]
      BY <1>1, LenProperties
    <3> QED
      BY <3>1
  <2> HIDE DEF S
  <2>2. s \in Seq(S)
    BY <1>1, <2>1
  <2>3. e \in S
    BY DEF S
  <2> QED
    BY <1>1, <2>2, <2>3, AppendProperties, LenProperties
<1> HIDE DEF t
<1>5. Len(s) + 1 \in DOMAIN Answers
  BY <1>1, <1>2
<1>6. ASSUME NEW n \in DOMAIN t
      PROVE  /\ n \in DOMAIN Answers /\ t[n].id = Answers[n].id
             /\ t[n].by = t[1].by /\ t[n].rubric = t[1].rubric
             /\ t[n].scores \in [Dims[Answers[n].type] -> Scale]
  <2>1. CASE n \in 1 .. Len(s)
    <3>1. 1 \in 1 .. Len(s) /\ t[1] = s[1] /\ t[n] = s[n]
      BY <1>1, <1>4, <2>1
    <3> QED
      BY <1>1, <2>1, <3>1 DEF Work
  <2>2. CASE n = Len(s) + 1
    <3>1. t[n] = e
      BY <1>4, <2>2
    <3>2. CASE Len(s) = 0
      BY <1>5, <2>2, <3>1, <3>2
    <3>3. CASE Len(s) # 0
      <4>1. 1 \in DOMAIN s /\ t[1] = s[1]
        BY <1>1, <1>4, <3>3
      <4> QED
        BY <1>5, <2>2, <3>1, <4>1
    <3> QED
      BY <3>2, <3>3
  <2> QED
    BY <1>1, <1>4, <2>1, <2>2
<1> QED
  BY <1>3, <1>6 DEF Work, t

\* Only what a process has done, and what is written of it, is at stake here.
LEMMA LabelsStay == UNCHANGED <<labels, agreement>> /\ LabelsOK /\ AgreementOK => LabelsOK' /\ AgreementOK'
BY DEF LabelsOK, AgreementOK, Adopted

\* A process sits down with nothing done.
LEMMA SitKeeps == JudgingInv /\ Sit => JudgingInv'
<1> SUFFICES ASSUME JudgingInv, Sit PROVE JudgingInv'
  OBVIOUS
<1>1. Work(records') /\ Work(kept')
  BY DEF JudgingInv, Sit
<1>2. judge'.done = <<>> /\ judge'.phase = "ask" /\ {"phase", "last", "done", "under"} \subseteq DOMAIN judge'
  BY DEF Sit
<1>3. WorkOK'
  <2>1. DOMAIN judge'.done = {} /\ Work(judge'.done)
    BY <1>2, WorkNone
  <2> QED
    BY <1>2, <2>1 DEF WorkOK, Work, IsList
<1>4. LabelsOK' /\ AgreementOK'
  BY LabelsStay DEF JudgingInv, Sit
<1> QED
  BY <1>1, <1>3, <1>4 DEF JudgingInv, Work, IsList

\* A verdict on the scale is kept in the order of the answers.
LEMMA AskKeeps == JudgingInv /\ Ask => JudgingInv'
<1> SUFFICES ASSUME JudgingInv, Ask PROVE JudgingInv'
  OBVIOUS
<1>1. Work(records') /\ Work(kept')
  BY DEF JudgingInv, Ask
<1>2. LabelsOK' /\ AgreementOK'
  BY LabelsStay DEF JudgingInv, Ask
<1> DEFINE a == Answers[Len(judge.done) + 1]
<1>3. PICK s \in [Applicable(a.type) -> Scale] :
        judge' = [judge EXCEPT !.phase = "open", !.done = Append(judge.done, Judged(a, s))]
  BY Zenon DEF Ask
<1> DEFINE e == Judged(a, s)
<1>4. /\ judge.phase = "ask" /\ Len(judge.done) < Len(Answers) /\ UNCHANGED sittings
      /\ {"phase", "last", "done", "under"} \subseteq DOMAIN judge
      /\ Work(judge.done)
      /\ \A n \in DOMAIN judge.done : judge.done[n].by = sittings /\ judge.done[n].rubric = judge.under
  BY DEF Ask, JudgingInv, WorkOK
<1>5. e.id = a.id /\ e.scores \in [Dims[a.type] -> Scale] /\ e.by = sittings /\ e.rubric = judge.under
  BY DEF Judged, Applicable
<1>6. /\ Work(Append(judge.done, e))
      /\ \A n \in DOMAIN Append(judge.done, e) :
            (n \in DOMAIN judge.done /\ Append(judge.done, e)[n] = judge.done[n]) \/ Append(judge.done, e)[n] = e
  <2> HIDE DEF e
  <2> QED
    BY <1>4, <1>5, WorkGrows
<1>7. DOMAIN judge' = DOMAIN judge /\ judge'.under = judge.under /\ judge'.done = Append(judge.done, e)
  BY <1>3, <1>4
<1> HIDE DEF e
<1>8. WorkOK'
  BY <1>4, <1>5, <1>6, <1>7 DEF WorkOK, Work, IsList
<1> QED
  BY <1>1, <1>2, <1>8 DEF JudgingInv, Work, IsList

\* A verdict is refused; the file is emptied, written, left.
LEMMA RejectKeeps == JudgingInv /\ (Reject \/ Truncate \/ WriteRecords \/ Rise) => JudgingInv'
<1> SUFFICES ASSUME JudgingInv, Reject \/ Truncate \/ WriteRecords \/ Rise PROVE JudgingInv'
  OBVIOUS
<1>1. LabelsOK' /\ AgreementOK'
  BY LabelsStay DEF JudgingInv, Reject, Truncate, WriteRecords, Rise
<1>2. /\ judge.phase # "none" /\ UNCHANGED <<kept, sittings>>
      /\ {"phase", "last", "done", "under"} \subseteq DOMAIN judge
      /\ Work(judge.done)
      /\ \A n \in DOMAIN judge.done : judge.done[n].by = sittings /\ judge.done[n].rubric = judge.under
  BY DEF Reject, Truncate, WriteRecords, Rise, JudgingInv, WorkOK
<1>3. records' \in {records, <<>>, judge.done}
  BY DEF Reject, Truncate, WriteRecords, Rise
<1>4. Work(records') /\ Work(kept')
  BY <1>2, <1>3, WorkNone DEF JudgingInv
<1>5. judge' = NoJudge \/ (DOMAIN judge' = DOMAIN judge /\ judge'.done = judge.done /\ judge'.under = judge.under)
  BY <1>2 DEF Reject, Truncate, WriteRecords, Rise
<1>6. WorkOK'
  BY <1>2, <1>5 DEF WorkOK, NoJudge, Work, IsList
<1> QED
  BY <1>1, <1>4, <1>6 DEF JudgingInv, Work, IsList

\* A process dies, and a part of its work may be in the file.
LEMMA PerishKeeps == JudgingInv /\ Perish => JudgingInv'
<1> SUFFICES ASSUME JudgingInv, Perish PROVE JudgingInv'
  OBVIOUS
<1>1. LabelsOK' /\ AgreementOK' /\ WorkOK'
  BY LabelsStay DEF JudgingInv, Perish, WorkOK, NoJudge
<1>2. Work(judge.done)
  BY DEF Perish, JudgingInv, WorkOK
<1>3. records' = records \/ \E n \in 0 .. Len(judge.done) : records' = SubSeq(judge.done, 1, n)
  BY DEF Perish
<1>4. Work(records') /\ Work(kept')
  BY <1>2, <1>3, WorkBegins DEF JudgingInv, Perish
<1> QED
  BY <1>1, <1>4 DEF JudgingInv, Work, IsList

\* The rubric is edited, answers are generated, a file is put aside.
LEMMA AsideKeeps == JudgingInv /\ (EditRubric \/ Generate \/ PutAside \/ UNCHANGED judging) => JudgingInv'
<1> SUFFICES ASSUME JudgingInv, EditRubric \/ Generate \/ PutAside \/ UNCHANGED judging PROVE JudgingInv'
  OBVIOUS
<1>1. LabelsOK' /\ AgreementOK'
  BY LabelsStay DEF JudgingInv, EditRubric, Generate, PutAside, judging
<1>2. UNCHANGED <<records, judge, sittings>> /\ kept' \in {kept, records}
  BY DEF EditRubric, Generate, PutAside, judging
<1>3. Work(records') /\ Work(kept')
  BY <1>2 DEF JudgingInv
<1>4. WorkOK'
  BY <1>2 DEF JudgingInv, WorkOK, Work, IsList
<1> QED
  BY <1>1, <1>3, <1>4 DEF JudgingInv, Work, IsList

\* What is drawn are records, and one row is drawn of each for a dimension.
LEMMA DrawKeeps == JudgingInv /\ Draw => JudgingInv'
<1> SUFFICES ASSUME JudgingInv, Draw PROVE JudgingInv'
  OBVIOUS
<1>1. Work(records) /\ UNCHANGED <<records, kept, judge, sittings>> /\ agreement'.says = "none"
  BY DEF Draw, JudgingInv, NoAgreement
<1>2. PICK sample \in Samples : \E set \in Drawn(sample) : labels' = BlankRows(set)
  BY DEF Draw
<1>3. PICK set \in Drawn(sample) : labels' = BlankRows(set)
  BY <1>2
<1>4. set \subseteq ToSet(records)
  BY <1>3 DEF Drawn, kSubset
<1> DEFINE Blanks(r) == {[id |-> r.id, dim |-> d, rubric |-> r.rubric, of |-> r.of, human |-> Blank] : d \in DOMAIN r.scores}
<1>5. \A l \in labels' : \E r \in set : l \in Blanks(r)
  BY <1>3 DEF BlankRows
<1>6. IsFiniteSet(labels')
  <2>1. IsFiniteSet(set)
    <3>1. DOMAIN records = 1 .. Len(records) /\ Len(records) \in Nat
      BY <1>1, LenProperties DEF Work, IsList
    <3>2. IsFiniteSet(DOMAIN records)
      BY <3>1, FS_Interval
    <3>3. IsFiniteSet({records[n] : n \in DOMAIN records})
      BY <3>2, ImageFinite
    <3> QED
      BY <1>4, <3>3, FS_Subset DEF ToSet
  <2>2. ASSUME NEW r \in set PROVE IsFiniteSet(Blanks(r))
    <3> DEFINE f == [d \in DOMAIN r.scores |-> [id |-> r.id, dim |-> d, rubric |-> r.rubric, of |-> r.of, human |-> Blank]]
    <3>1. IsFiniteSet(DOMAIN r.scores)
      BY <1>1, <1>4, WorkOfOne
    <3>2. Blanks(r) = {f[d] : d \in DOMAIN r.scores}
      OBVIOUS
    <3> HIDE DEF f, Blanks
    <3> QED
      BY <3>1, <3>2, ImageFinite
  <2> DEFINE g == [r \in set |-> Blanks(r)]
  <2>3. BlankRows(set) = UNION {g[r] : r \in set}
    BY DEF BlankRows
  <2>4. \A r \in set : IsFiniteSet(g[r])
    BY <2>2
  <2> HIDE DEF g, Blanks
  <2>5. IsFiniteSet({g[r] : r \in set})
    BY <2>1, ImageFinite
  <2> DEFINE G == {g[r] : r \in set}
  <2>6. \A T \in G : IsFiniteSet(T)
    BY <2>4
  <2> HIDE DEF G
  <2>7. IsFiniteSet(UNION G)
    BY <2>5, <2>6, FS_UNION DEF G
  <2> QED
    BY <1>3, <2>3, <2>7 DEF G
<1>7. ASSUME NEW k \in labels', NEW l \in labels', k.id = l.id, k.dim = l.dim PROVE k = l
  <2>1. PICK r \in set : k \in Blanks(r)
    BY <1>5
  <2>2. PICK q \in set : l \in Blanks(q)
    BY <1>5
  <2>3. k.id = r.id /\ l.id = q.id
    BY <2>1, <2>2
  <2>4. r = q
    BY <1>1, <1>4, <1>7, <2>3, WorkOfOne
  <2>5. /\ k = [id |-> r.id, dim |-> k.dim, rubric |-> r.rubric, of |-> r.of, human |-> Blank]
        /\ l = [id |-> q.id, dim |-> l.dim, rubric |-> q.rubric, of |-> q.of, human |-> Blank]
    BY <2>1, <2>2
  <2> HIDE DEF Blanks
  <2> QED
    BY <1>7, <2>4, <2>5
<1>8. \A l \in labels' : /\ l = [id |-> l.id, dim |-> l.dim, rubric |-> l.rubric, of |-> l.of, human |-> l.human]
                         /\ l.human = Blank
  BY <1>5
<1>9. LabelsOK'
  BY <1>6, <1>7, <1>8 DEF LabelsOK
<1>10. Work(records') /\ Work(kept') /\ WorkOK' /\ AgreementOK'
  BY <1>1 DEF JudgingInv, WorkOK, Work, IsList, AgreementOK
<1> QED
  BY <1>9, <1>10 DEF JudgingInv, Work, IsList

\* A person says what one verdict should have been.
LEMMA FillKeeps == JudgingInv /\ Fill => JudgingInv'
<1> SUFFICES ASSUME JudgingInv, Fill PROVE JudgingInv'
  OBVIOUS
<1>1. PICK l \in labels, s \in Scale : l.human = Blank /\ labels' = (labels \ {l}) \cup {[l EXCEPT !.human = s]}
  BY DEF Fill
<1> DEFINE m == [l EXCEPT !.human = s]
<1>2. l = [id |-> l.id, dim |-> l.dim, rubric |-> l.rubric, of |-> l.of, human |-> l.human]
  BY DEF JudgingInv, LabelsOK
<1>3. /\ m.id = l.id /\ m.dim = l.dim /\ m.human = s
      /\ m = [id |-> m.id, dim |-> m.dim, rubric |-> m.rubric, of |-> m.of, human |-> m.human]
  BY <1>2
<1> HIDE DEF m
<1>4. labels' = (labels \ {l}) \cup {m}
  BY <1>1 DEF m
<1>5. IsFiniteSet(labels')
  BY <1>4, FS_RemoveElement, FS_AddElement DEF JudgingInv, LabelsOK
<1>6. \A j, k \in labels' : j.id = k.id /\ j.dim = k.dim => j = k
  BY <1>3, <1>4 DEF JudgingInv, LabelsOK
<1>7. LabelsOK'
  <2>1. \A k \in labels' : /\ k = [id |-> k.id, dim |-> k.dim, rubric |-> k.rubric, of |-> k.of, human |-> k.human]
                           /\ k.human # Blank => k.human \in Scale
    BY <1>3, <1>4 DEF JudgingInv, LabelsOK
  <2> QED
    BY <1>5, <1>6, <2>1 DEF LabelsOK
<1>8. Work(records') /\ Work(kept') /\ WorkOK' /\ AgreementOK'
  BY DEF JudgingInv, Fill, WorkOK, Work, IsList, AgreementOK, Adopted
<1> QED
  BY <1>7, <1>8 DEF JudgingInv, Work, IsList

\* What kappa is of: filled labels, each with the verdict it is about.
LEMMA PairsTrue ==
    ASSUME JudgingInv, ~ Mismatched
    PROVE  /\ IsFiniteSet(Pairs)
           /\ \A p \in Pairs : p.judge \in Int /\ p.human \in Int /\ Cardinality(p.rubrics) = 1
           /\ \A p, q \in Pairs : p.id = q.id /\ p.dim = q.dim => p = q
<1> DEFINE Joined == {k \in Filled \X ToSet(records) : k[1].id = k[2].id /\ k[1].dim \in DOMAIN k[2].scores}
<1> DEFINE Pair(k) == [id |-> k[1].id, dim |-> k[1].dim, judge |-> k[2].scores[k[1].dim], human |-> k[1].human,
                       rubrics |-> {k[1].rubric, k[2].rubric}, generations |-> {k[1].of, k[2].of}]
<1>1. Pairs = {Pair(k) : k \in Joined}
  BY DEF Pairs
<1>2. Work(records)
  BY DEF JudgingInv
<1>3. /\ Filled \subseteq labels /\ IsFiniteSet(labels)
      /\ \A l \in Filled : l.human \in Scale /\ l.rubric = records[1].rubric
      /\ \A k, l \in Filled : k.id = l.id /\ k.dim = l.dim => k = l
  BY DEF Filled, Mismatched, JudgingInv, LabelsOK
<1>4. IsFiniteSet(Joined)
  <2>1. DOMAIN records = 1 .. Len(records) /\ Len(records) \in Nat
    BY <1>2, LenProperties DEF Work, IsList
  <2>2. IsFiniteSet(DOMAIN records)
    BY <2>1, FS_Interval
  <2>3. IsFiniteSet({records[n] : n \in DOMAIN records})
    BY <2>2, ImageFinite
  <2>4. IsFiniteSet(ToSet(records)) /\ IsFiniteSet(Filled)
    BY <1>3, <2>3, FS_Subset DEF ToSet
  <2>5. IsFiniteSet(Filled \X ToSet(records))
    BY <2>4, FS_Product
  <2>6. Joined \in SUBSET (Filled \X ToSet(records))
    OBVIOUS
  <2> HIDE DEF Joined
  <2> QED
    BY <2>5, <2>6, FS_Subset
<1>5. IsFiniteSet(Pairs)
  <2> DEFINE f == [k \in Joined |-> Pair(k)]
  <2>1. Pairs = {f[k] : k \in Joined}
    BY <1>1
  <2> HIDE DEF f, Joined, Pair
  <2> QED
    BY <1>4, <2>1, ImageFinite
<1>6. ASSUME NEW k \in Joined
      PROVE  /\ k = <<k[1], k[2]>> /\ k[1] \in Filled /\ k[2] \in ToSet(records) /\ k[1].id = k[2].id
             /\ k[2].scores[k[1].dim] \in Scale /\ k[1].human \in Scale /\ k[1].rubric = k[2].rubric
  <2>1. k[1] \in Filled /\ k[2] \in ToSet(records) /\ k[1].id = k[2].id /\ k[1].dim \in DOMAIN k[2].scores
        /\ k = <<k[1], k[2]>>
    OBVIOUS
  <2>2. k[2].scores[k[1].dim] \in Scale /\ k[2].rubric = records[1].rubric
    BY <1>2, <2>1, WorkOfOne
  <2> HIDE DEF Joined
  <2> QED
    BY <1>3, <2>1, <2>2
<1> HIDE DEF Joined
<1>7. ASSUME NEW p \in Pairs PROVE p.judge \in Int /\ p.human \in Int /\ Cardinality(p.rubrics) = 1
  <2>1. PICK k \in Joined : p = Pair(k)
    BY <1>1
  <2>2. p.judge \in Scale /\ p.human \in Scale /\ p.rubrics = {k[1].rubric}
    BY <1>6, <2>1
  <2> QED
    <3>1. Cardinality({k[1].rubric}) = 1
      BY FS_Singleton
    <3>2. p.judge \in Int /\ p.human \in Int
      <4>1. \A x \in Scale : x \in Int
        BY JudgingBounds
      <4> QED
        BY <2>2, <4>1
    <3> QED
      BY <2>2, <3>1, <3>2
<1>8. ASSUME NEW p \in Pairs, NEW q \in Pairs, p.id = q.id, p.dim = q.dim PROVE p = q
  <2>1. PICK k \in Joined : p = Pair(k)
    BY <1>1
  <2>2. PICK j \in Joined : q = Pair(j)
    BY <1>1
  <2>3. k[1].id = j[1].id /\ k[1].dim = j[1].dim
    BY <1>8, <2>1, <2>2
  <2> HIDE DEF Pair
  <2>4. k[1] = j[1]
    BY <1>3, <1>6, <2>3
  <2>5. k[2] = j[2]
    BY <1>2, <1>6, <2>3, WorkOfOne
  <2> QED
    BY <1>6, <2>1, <2>2, <2>4, <2>5
<1> QED
  BY <1>5, <1>7, <1>8

\* A set of which two things differ in f has at least two values of it.
LEMMA TwoValues ==
    ASSUME NEW S, IsFiniteSet(S), NEW f, \E x, y \in S : f[x] # f[y]
    PROVE  Cardinality({f[z] : z \in S}) > 1
<1> DEFINE T == {f[z] : z \in S}
<1>0. PICK x \in S, y \in S : f[x] # f[y]
  OBVIOUS
<1>1. IsFiniteSet(T) /\ {f[x], f[y]} \in SUBSET T
  BY ImageFinite
<1> HIDE DEF T
<1>2. Cardinality(T) \in Nat
  BY <1>1, FS_CardinalityType
<1>3. Cardinality(T) # 0
  BY <1>1, FS_EmptySet
<1>4. Cardinality(T) # 1
  <2>1. ASSUME NEW z, T = {z} PROVE FALSE
    BY <1>0, <1>1, <2>1
  <2> QED
    BY <1>1, <2>1, FS_Singleton
<1> QED
  BY <1>2, <1>3, <1>4 DEF T

\* Kappa adopts only on pairs of one rubric that both sides tell apart.
LEMMA KappaKeeps == JudgingInv /\ Kappa => JudgingInv'
<1> SUFFICES ASSUME JudgingInv, Kappa PROVE JudgingInv'
  OBVIOUS
<1>1. UNCHANGED <<records, kept, judge, labels, sittings>> /\ agreement' = KappaReport
  BY DEF Kappa
<1>2. ASSUME agreement'.says = "adopt" PROVE Adopted(agreement'.pairs)
  <2>1. ~ Mismatched /\ KappaVerdict(Pairs) = "adopt" /\ agreement'.pairs = Pairs
    BY <1>1, <1>2 DEF KappaReport
  <2>2. /\ IsFiniteSet(Pairs)
        /\ \A p \in Pairs : p.judge \in Int /\ p.human \in Int /\ Cardinality(p.rubrics) = 1
        /\ \A p, q \in Pairs : p.id = q.id /\ p.dim = q.dim => p = q
    BY <2>1, PairsTrue
  <2>3. PICK a \in Pairs, b \in Pairs : a.judge # b.judge
    BY <2>1, <2>2, NoneAdopted
  <2>4. PICK c \in Pairs, d \in Pairs : c.human # d.human
    BY <2>1, <2>2, NoneAdopted
  <2>5. Cardinality({p.judge : p \in Pairs}) > 1
    <3> DEFINE f == [p \in Pairs |-> p.judge]
    <3>1. {p.judge : p \in Pairs} = {f[p] : p \in Pairs} /\ \E x, y \in Pairs : f[x] # f[y]
      BY <2>3
    <3> HIDE DEF f
    <3>2. Cardinality({f[p] : p \in Pairs}) > 1
      BY <2>2, <3>1, TwoValues
    <3> QED
      BY <3>1, <3>2
  <2>6. Cardinality({p.human : p \in Pairs}) > 1
    <3> DEFINE f == [p \in Pairs |-> p.human]
    <3>1. {p.human : p \in Pairs} = {f[p] : p \in Pairs} /\ \E x, y \in Pairs : f[x] # f[y]
      BY <2>4
    <3> HIDE DEF f
    <3>2. Cardinality({f[p] : p \in Pairs}) > 1
      BY <2>2, <3>1, TwoValues
    <3> QED
      BY <3>1, <3>2
  <2> QED
    BY <2>1, <2>2, <2>5, <2>6 DEF Adopted
<1>3. AgreementOK'
  BY <1>2 DEF AgreementOK, Adopted
<1>4. Work(records') /\ Work(kept') /\ WorkOK' /\ LabelsOK'
  BY <1>1 DEF JudgingInv, WorkOK, Work, IsList, LabelsOK
<1> QED
  BY <1>3, <1>4 DEF JudgingInv, Work, IsList

\* At the start nothing is judged.
LEMMA JudgingStarts == JudgingInit => JudgingInv
<1> SUFFICES ASSUME JudgingInit PROVE JudgingInv
  OBVIOUS
<1>1. Work(records) /\ Work(kept)
  BY WorkNone DEF JudgingInit
<1>2. LabelsOK
  BY FS_EmptySet DEF JudgingInit, LabelsOK
<1> QED
  BY <1>1, <1>2 DEF JudgingInit, JudgingInv, WorkOK, NoJudge, AgreementOK, NoAgreement

\* Every step of the judges and of those who check them keeps the invariant.
LEMMA JudgingKeeps == JudgingInv /\ [JudgingNext]_judging => JudgingInv'
BY SitKeeps, AskKeeps, RejectKeeps, PerishKeeps, AsideKeeps, DrawKeeps, FillKeeps, KappaKeeps DEF JudgingNext

\* The invariant is what JudgeTrue says.
LEMMA JudgeIsTrue == JudgingInv => JudgeTrue
<1> SUFFICES ASSUME JudgingInv PROVE JudgeTrue
  OBVIOUS
<1>1. \A n \in DOMAIN records :
         /\ records[n].by = records[1].by /\ records[n].rubric = records[1].rubric
         /\ records[n].id = Answers[n].id
  BY DEF JudgingInv, Work
<1>2. ASSUME SameRubric(kept, records) PROVE Cardinality({r.rubric.text : r \in ToSet(kept \o records)}) = 1
  <2> DEFINE one == records[1].rubric
  <2>1. kept # <<>> /\ records # <<>> /\ kept[1].rubric = one
    BY <1>2 DEF SameRubric
  <2> DEFINE S == ToSet(kept) \cup ToSet(records)
  <2>2. kept \in Seq(ToSet(kept)) /\ records \in Seq(ToSet(records)) /\ Len(kept) \in Nat /\ Len(records) \in Nat
    BY LenProperties DEF JudgingInv, Work, IsList
  <2>3. kept \in Seq(S) /\ records \in Seq(S)
    <3>1. kept \in [1 .. Len(kept) -> ToSet(kept)] /\ records \in [1 .. Len(records) -> ToSet(records)]
      BY <2>2, LenProperties
    <3>2. kept \in [1 .. Len(kept) -> S] /\ records \in [1 .. Len(records) -> S]
      BY <3>1
    <3> HIDE DEF S
    <3> QED
      BY <2>2, <3>2
  <2>4. /\ kept \o records \in Seq(S) /\ Len(kept \o records) = Len(kept) + Len(records)
        /\ DOMAIN (kept \o records) = 1 .. Len(kept) + Len(records)
    <3> HIDE DEF S
    <3> QED
      BY <2>3, ConcatProperties, LenProperties
  <2>5. Len(kept) # 0
    BY <2>1, <2>2, EmptySeq
  <2>6. \A r \in S : r.rubric = one
    BY <2>1, WorkOfOne DEF JudgingInv
  <2> DEFINE both == kept \o records
  <2>7. both \in [1 .. Len(kept) + Len(records) -> S]
    <3> HIDE DEF S
    <3> QED
      BY <2>4, LenProperties
  <2> HIDE DEF both, S
  <2>8. \A r \in ToSet(both) : r.rubric = one
    BY <2>6, <2>7 DEF ToSet
  <2>9. both[1] \in ToSet(both)
    BY <2>2, <2>5, <2>7, SMTT(30) DEF ToSet
  <2>10. {r.rubric.text : r \in ToSet(both)} = {one.text}
    BY <2>8, <2>9
  <2> QED
    BY <2>10, FS_Singleton DEF both
<1>3. agreement.says = "adopt" => Adopted(agreement.pairs)
  BY DEF JudgingInv, AgreementOK
<1> QED
  BY <1>1, <1>2, <1>3 DEF JudgeTrue, Adopted

\* A judge is believed for good reasons (l2.py, l2_run.py): for every set of
\* answers, scales, rubrics and deaths, the file of verdicts is one process's
\* work under one rubric, kappa adopts only on pairs of that rubric, none of
\* them twice, on which judge and people both tell answers apart, and means
\* that are subtracted were given under one text.
THEOREM JudgeIsBelieved == Spec => []JudgeTrue
<1>1. Init => JudgingInv
  BY JudgingStarts DEF Init
<1>2. JudgingInv /\ [Next]_evaluation => JudgingInv'
  <2>1. [Next]_evaluation => [JudgingNext]_judging
    <3>1. UNCHANGED evaluation => UNCHANGED judging
      BY DEF evaluation
    <3> QED
      BY <3>1 DEF Next
  <2> QED
    BY <2>1, JudgingKeeps
<1> QED
  BY <1>1, <1>2, JudgeIsTrue, PTL DEF Spec
=============================================================================
