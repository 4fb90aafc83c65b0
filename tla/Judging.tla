------------------------------ MODULE Judging ------------------------------
(***************************************************************************)
(* The judge and the people it is checked against (eval/judge_local.py,    *)
(* eval/l2.py, eval/l2_run.py, and judge in eval/w6_run.py): answers are   *)
(* judged one by one and the file of verdicts is rewritten after each;     *)
(* blank labels are drawn from it for people to fill in; and kappa joins   *)
(* the two, to say whether the judge may be believed.                      *)
(*                                                                         *)
(* The rubric may be edited and the answers generated again at any time;   *)
(* a process reads both when it starts.                                    *)
(***************************************************************************)
EXTENDS Integers, Sequences, SequencesExt, FiniteSets, FiniteSetsExt

CONSTANTS
    Answers,            \* the sequence of [id, type]: what is judged
    Dims,               \* type :> the dimensions that apply to it
    Scale,              \* the scores
    Samples,            \* what --sample may be: 0 is all
    MaxRubric, MaxAnswers, MaxSittings  \* bounds: edits, generations, processes of the judge

ASSUME JudgingBounds ==
    Scale \subseteq Nat /\ {MaxRubric, MaxAnswers, MaxSittings} \subseteq Nat

\* What is judged are the rows of a sweep or of a dataset, one for each id.
ASSUME JudgingKeys ==
    /\ Answers \in Seq(ToSet(Answers)) /\ \A i, j \in DOMAIN Answers : Answers[i].id = Answers[j].id => i = j
    /\ \A n \in DOMAIN Answers : IsFiniteSet(Dims[Answers[n].type])

VARIABLES
    rubric,     \* [version, text]: what it is called, and what its hash is of
    answers,    \* which generation of the answers there is
    records,    \* the file of verdicts, a sequence of Verdicts
    kept,       \* an earlier file of them that was put aside
    judge,      \* the process that judges
    labels,     \* the labels: set of [id, dim, rubric, of, human]
    agreement,  \* what kappa said, and of which pairs
    sittings    \* how many processes have judged

judging == <<rubric, answers, records, kept, judge, labels, agreement, sittings>>

NoJudge == [phase |-> "none"]
Blank == -1
NoAgreement == [says |-> "none", pairs |-> {}]

JudgingInit ==
    /\ rubric = [version |-> 0, text |-> 0] /\ answers = 0 /\ records = <<>> /\ kept = <<>> /\ judge = NoJudge
    /\ labels = {} /\ agreement = NoAgreement /\ sittings = 0

-----------------------------------------------------------------------------
Sit ==
    /\ judge.phase = "none" /\ sittings < MaxSittings /\ sittings' = sittings + 1
    /\ judge' = [phase |-> "ask", under |-> rubric, of |-> answers, last |-> FALSE, done |-> <<>>]
    /\ UNCHANGED <<rubric, answers, records, kept, labels, agreement>>

\* A question nothing answers has no correctness to measure.
Applicable(type) == Dims[type]

\* What is stored of a judgement: under which rubric, and of which answer.
Judged(a, scores) ==
    [id |-> a.id, type |-> a.type, rubric |-> judge.under, of |-> judge.of, by |-> sittings, scores |-> scores]

\* An answer is judged in the dimensions that apply to it.
Ask ==
    /\ judge.phase = "ask" /\ Len(judge.done) < Len(Answers)
    /\ LET a == Answers[Len(judge.done) + 1]
       IN  \E s \in [Applicable(a.type) -> Scale] :
             judge' = [judge EXCEPT !.phase = "open", !.done = Append(@, Judged(a, s))]
    /\ UNCHANGED <<rubric, answers, records, kept, labels, agreement, sittings>>

\* No reply, or one that is no verdict (a score off the scale, no evidence):
\* what there is is saved once more and the process ends.
Reject ==
    /\ judge.phase = "ask" /\ Len(judge.done) < Len(Answers)
    /\ judge' = IF judge.done = <<>> THEN NoJudge ELSE [judge EXCEPT !.phase = "open", !.last = TRUE]
    /\ UNCHANGED <<rubric, answers, records, kept, labels, agreement, sittings>>

\* write_records empties the file,
Truncate ==
    /\ judge.phase = "open" /\ records' = <<>> /\ judge' = [judge EXCEPT !.phase = "write"]
    /\ UNCHANGED <<rubric, answers, kept, labels, agreement, sittings>>

\* and writes every record there is.
WriteRecords ==
    /\ judge.phase = "write" /\ records' = judge.done
    /\ judge' = IF judge.last THEN NoJudge ELSE [judge EXCEPT !.phase = "ask"]
    /\ UNCHANGED <<rubric, answers, kept, labels, agreement, sittings>>

Rise ==
    /\ judge.phase = "ask" /\ Len(judge.done) = Len(Answers) /\ judge' = NoJudge
    /\ UNCHANGED <<rubric, answers, records, kept, labels, agreement, sittings>>

\* A process that dies while it writes leaves what was flushed.
Perish ==
    /\ judge.phase # "none" /\ judge' = NoJudge
    /\ IF judge.phase = "write" THEN \E n \in 0 .. Len(judge.done) : records' = SubSeq(judge.done, 1, n)
       ELSE UNCHANGED records
    /\ UNCHANGED <<rubric, answers, kept, labels, agreement, sittings>>

\* The hash changes with the text; the version is raised by hand, or not.
EditRubric ==
    /\ rubric.text < MaxRubric
    /\ \E v \in {rubric.version, rubric.version + 1} : rubric' = [version |-> v, text |-> rubric.text + 1]
    /\ UNCHANGED <<answers, records, kept, judge, labels, agreement, sittings>>
Generate ==
    /\ answers < MaxAnswers /\ answers' = answers + 1
    /\ UNCHANGED <<rubric, records, kept, judge, labels, agreement, sittings>>

\* (A bound: a behaviour compares files or labels one, not both.)
PutAside ==
    /\ records # kept /\ labels = {} /\ kept' = records
    /\ UNCHANGED <<rubric, answers, records, judge, labels, agreement, sittings>>

\* compare looks at the first record of each file,
SameVersion(base, head) ==
    base # <<>> /\ head # <<>> /\ base[1].rubric.version = head[1].rubric.version
SameRubric(base, head) ==
    base # <<>> /\ head # <<>> /\ base[1].rubric = head[1].rubric

\* and takes the difference of two means, where both have something to average.
Averaged(file, d) == {n \in DOMAIN file : d \in DOMAIN file[n].scores}
Compared(base, head) == {d \in UNION Range(Dims) : Averaged(base, d) # {} /\ Averaged(head, d) # {}}

-----------------------------------------------------------------------------
\* --sample takes a record of each type in turn until it has enough: of two
\* types the one with less to show gave all it has.
Drawn(sample) ==
    LET all == ToSet(records)
        Of(t, set) == {r \in set : r.type = t}
    IN  IF sample = 0 \/ sample >= Len(records) THEN {all}
        ELSE {set \in kSubset(sample, all) :
                \A t, u \in DOMAIN Dims :
                    Cardinality(Of(t, set)) + 1 < Cardinality(Of(u, set)) => Of(t, set) = Of(t, all)}

BlankRows(set) ==
    UNION {{[id |-> r.id, dim |-> d, rubric |-> r.rubric, of |-> r.of, human |-> Blank] :
                d \in DOMAIN r.scores} : r \in set}

\* labels: a blank row for every verdict, over whatever labels there were.
Draw ==
    /\ records # <<>> /\ kept = <<>>
    /\ \E sample \in Samples : \E set \in Drawn(sample) : labels' = BlankRows(set)
    /\ agreement' = NoAgreement
    /\ UNCHANGED <<rubric, answers, records, kept, judge, sittings>>

Fill ==
    /\ \E l \in labels, s \in Scale :
         l.human = Blank /\ labels' = (labels \ {l}) \cup {[l EXCEPT !.human = s]}
    /\ UNCHANGED <<rubric, answers, records, kept, judge, agreement, sittings>>

\* join_labels passes over blank rows and over rows no verdict answers, and
\* refuses labels of another rubric than the first record's.
Filled == {l \in labels : l.human # Blank}
MismatchedNever == records = <<>>
Mismatched == records = <<>> \/ \E l \in Filled : l.rubric # records[1].rubric

Pairs ==
    {[id |-> k[1].id, dim |-> k[1].dim, judge |-> k[2].scores[k[1].dim], human |-> k[1].human,
      rubrics |-> {k[1].rubric, k[2].rubric}, generations |-> {k[1].of, k[2].of}] :
        k \in {k \in Filled \X ToSet(records) : k[1].id = k[2].id /\ k[1].dim \in DOMAIN k[2].scores}}

\* The quadratic kappa of n pairs is 1 - n * Observed / Expected; the span of
\* the scale cancels out, and 0.6 is two fifths of disagreement left.
Square(a, b) == (a - b) * (a - b)
Apart(ps) == [p \in ps |-> Square(p.judge, p.human)]
ByChance(ps) == [k \in ps \X ps |-> Square(k[1].judge, k[2].human)]
Observed(ps) == MapThenSumSet(LAMBDA p : Apart(ps)[p], ps)
Expected(ps) == MapThenSumSet(LAMBDA k : ByChance(ps)[k], ps \X ps)

KappaVerdict(ps) ==
    LET left == 5 * Cardinality(ps) * Observed(ps)
    IN  IF Expected(ps) = 0 THEN "undefined"
        ELSE IF left <= 2 * Expected(ps) THEN "adopt"
        ELSE IF left > 3 * Expected(ps) THEN "rewrite" ELSE "hold"

\* The headline is of the pairs of all dimensions together.
KappaReport ==
    IF Mismatched THEN [says |-> "refused", pairs |-> {}]
    ELSE [says |-> KappaVerdict(Pairs), pairs |-> Pairs]

Kappa ==
    /\ agreement' = KappaReport
    /\ UNCHANGED <<rubric, answers, records, kept, judge, labels, sittings>>

JudgingNext ==
    \/ Sit \/ Ask \/ Reject \/ Truncate \/ WriteRecords \/ Rise \/ Perish
    \/ EditRubric \/ Generate \/ PutAside \/ Draw \/ Fill \/ Kappa

-----------------------------------------------------------------------------
\* A judge is believed for good reasons.  However processes died and the
\* rubric changed, the file is the work of one process under one rubric, in
\* the order of the answers (so that its first record speaks for all, as
\* kappa, compare and the averages take it); and when kappa says adopt, every
\* pair is of one rubric, no verdict is paired twice, and both the judge and
\* the people tell answers apart - a judge that always says the same is not
\* adopted, whatever people say.  Means that compare subtracts were given
\* under one and the same text, also where it was edited under its old name.
JudgeTrue ==
    /\ \A n \in DOMAIN records :
         /\ records[n].by = records[1].by /\ records[n].rubric = records[1].rubric
         /\ records[n].id = Answers[n].id
    /\ agreement.says = "adopt" =>
         /\ \A p \in agreement.pairs : Cardinality(p.rubrics) = 1
         /\ \A p, q \in agreement.pairs : p.id = q.id /\ p.dim = q.dim => p = q
         /\ Cardinality({p.judge : p \in agreement.pairs}) > 1
         /\ Cardinality({p.human : p \in agreement.pairs}) > 1
    /\ SameRubric(kept, records) => Cardinality({r.rubric.text : r \in ToSet(kept \o records)}) = 1

\* What the code does not keep.  A label is joined by question, variant and
\* dimension, not by the answer a person read: answers that were generated
\* and judged again are paired with what was said of the old ones.
PairsReadTheSame == \A p \in agreement.pairs : Cardinality(p.generations) = 1

\* l2.py:403-404: what cannot be compared is not.  But a file that a process
\* left unfinished is compared with a whole one: the means are of different
\* questions.
MeansOfTheSame ==
    SameRubric(kept, records) =>
        \A d \in Compared(kept, records) :
            {kept[n].id : n \in Averaged(kept, d)} = {records[n].id : n \in Averaged(records, d)}

\* l2_run.py:105-107 and w6_run.py:810: a process that dies does not throw
\* away the inferences it has paid for.  But the file is emptied before it is
\* written, and the next process begins at the first answer.
JudgedIsKept ==
    [][\A n \in DOMAIN records : \E k \in DOMAIN records' : records'[k].id = records[n].id]_judging
=============================================================================
