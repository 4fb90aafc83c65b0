------------------------------ MODULE Scoring ------------------------------
(***************************************************************************)
(* What the numbers of an evaluation are computed by: gold snippets become *)
(* chunks (eval/gold.py) and rankings are scored against them              *)
(* (eval/metrics.py); an agent's calls (eval/l3.py), its refusals and      *)
(* citations and the table they make (eval/w6.py), comparisons in both     *)
(* orders (eval/l2.py) and diagnoses (eval/judge.py) are graded; a sweep   *)
(* that is limited takes its questions type by type (eval/w6_run.py), and  *)
(* a dataset keeps a part of every type back                               *)
(* (eval/datasets/build_synthetic.py).                                     *)
(*                                                                         *)
(* Each grader is an action that grades one sheet; what it was given and   *)
(* what it said are kept for the properties to relate.  A ratio is a pair  *)
(* of naturals, a logarithmic discount the set of the ranks that earn one. *)
(***************************************************************************)
EXTENDS Integers, Sequences, SequencesExt, FiniteSets, FiniteSetsExt

CONSTANTS
    GoldSheets,     \* set of [pages, chunks, snippet]: sequences of letters; chunks of [page, at, size]
    MaxMatches,     \* how often a snippet may occur
    Chunk,          \* chunks that are ranked
    MaxRank,        \* bound: the length of a ranking
    MaxGroups, MaxCalls,    \* bounds: needles that ask for calls of their own, calls
    MaxBudget,      \* bound: the calls a scenario allows
    MaxRows,        \* bound: the rows of a table
    MaxOfType,      \* bound: the questions of one type
    Type,           \* the types of questions, ordered
    MaxItems,       \* bound: the questions of a dataset
    Page,           \* set of <<document, number>>
    MaxSentences    \* bound

ASSUME ScoringBounds ==
    {MaxMatches, MaxRank, MaxGroups, MaxCalls, MaxBudget, MaxRows, MaxOfType, MaxItems, MaxSentences}
        \subseteq Nat

VARIABLE graded     \* the sheet that was graded and what it got

Fresh == graded.by = "none"

-----------------------------------------------------------------------------
(* gold.py: letters are words' characters, 0 the space between two pages.  *)
Text(pages) == FoldLeft(LAMBDA text, p : IF text = <<>> THEN p ELSE text \o <<0>> \o p, <<>>, pages)

\* Where a page begins in the text.
Offset(pages, k) == FoldLeft(LAMBDA sum, p : sum + Len(p) + 1, 1, SubSeq(pages, 1, k - 1))

Find(text, needle, from, to) ==
    LET at == {s \in from .. to - Len(needle) + 1 : SubSeq(text, s, s + Len(needle) - 1) = needle}
    IN  IF at = {} THEN 0 ELSE Min(at)

FindSnippet(text, snippet) ==
    {s \in 1 .. Len(text) - Len(snippet) + 1 : SubSeq(text, s, s + Len(snippet) - 1) = snippet}

Content(pages, c) == SubSeq(pages[c.page], c.at, c.at + c.size - 1)

\* Each chunk is looked for in its page behind where the one before it was
\* found, and failing that anywhere; cursor[k] belongs to page k.
Place(text, pages, state, c) ==
    LET needle == Content(pages, c)
        last == Offset(pages, c.page) + Len(pages[c.page]) - 1
        inside == Find(text, needle, state.cursor[c.page], last)
        start == IF inside # 0 THEN inside ELSE Find(text, needle, 1, Len(text))
    IN  IF start = 0 THEN [state EXCEPT !.placed = Append(@, 0)]
        ELSE [placed |-> Append(state.placed, start), cursor |-> [state.cursor EXCEPT ![c.page] = start + 1]]

PlaceChunks(pages, chunks) ==
    FoldLeft(LAMBDA state, c : Place(Text(pages), pages, state, c),
             [placed |-> <<>>, cursor |-> [k \in DOMAIN pages |-> Offset(pages, k)]], chunks).placed

Overlap(s, m, t, n) == s < t + n /\ t < s + m

\* The chunks a snippet touches; a snippet that occurs nowhere, too often or
\* in no chunk is refused.
ResolveSpan(sheet) ==
    LET matches == FindSnippet(Text(sheet.pages), sheet.snippet)
        placed == PlaceChunks(sheet.pages, sheet.chunks)
        ids == {n \in DOMAIN sheet.chunks : placed[n] # 0 /\
                  \E s \in matches : Overlap(placed[n], sheet.chunks[n].size, s, Len(sheet.snippet))}
    IN  [placed |-> placed, ids |-> ids,
         ok |-> matches # {} /\ Cardinality(matches) <= MaxMatches /\ ids # {}]

GradeGold ==
    /\ Fresh
    /\ \E sheet \in GoldSheets : graded' = [by |-> "gold", sheet |-> sheet, got |-> ResolveSpan(sheet)]

-----------------------------------------------------------------------------
(* metrics.py: a gold is a sequence of sets of chunks, one per span.       *)
Top(ranked, k) == SubSeq(ranked, 1, IF k < Len(ranked) THEN k ELSE Len(ranked))

SpanRecall(ranked, gold, k) == Cardinality({j \in DOMAIN gold : gold[j] \cap ToSet(Top(ranked, k)) # {}})
Precision(ranked, gold, k) == Cardinality({n \in DOMAIN Top(ranked, k) : ranked[n] \in UNION ToSet(gold)})
FirstGoldRank(ranked, gold) ==
    LET hits == {n \in DOMAIN ranked : ranked[n] \in UNION ToSet(gold)} IN IF hits = {} THEN 0 ELSE Min(hits)

\* nDCG: a rank earns its discount for the first span it is the first to cover.
Earning(ranked, gold, k) ==
    FoldLeft(LAMBDA state, n :
                LET new == {j \in DOMAIN gold : j \notin state.covered /\ ranked[n] \in gold[j]}
                IN  IF new = {} THEN state
                    ELSE [covered |-> state.covered \cup {Min(new)}, ranks |-> state.ranks \cup {n}],
             [covered |-> {}, ranks |-> {}], [n \in DOMAIN Top(ranked, k) |-> n]).ranks
Ideal(gold, k) == 1 .. Min({Len(gold), k})

\* A ranking names no chunk twice.
GradeRanking ==
    /\ Fresh
    /\ \E n \in 0 .. MaxRank, spans \in 1 .. 2, k \in 1 .. MaxRank :
       \E ranked \in {r \in [1 .. n -> Chunk] : IsInjective(r)}, gold \in [1 .. spans -> SUBSET Chunk \ {{}}] :
           graded' = [by |-> "ranking", sheet |-> [ranked |-> ranked, gold |-> gold, k |-> k],
                      got |-> [recall |-> SpanRecall(ranked, gold, k), precision |-> Precision(ranked, gold, k),
                               first |-> FirstGoldRank(ranked, gold), earning |-> Earning(ranked, gold, k)]]

-----------------------------------------------------------------------------
(* l3.py: meets[g] is the set of the calls whose query has all of group    *)
(* g's words.  Every group takes the first call that is free and lets the  *)
(* others be satisfied.                                                    *)
\* (A version that lets a call satisfy two groups.)
MatchedByAnyCall(meets, calls) == \A g \in DOMAIN meets : meets[g] # {}
MatchedByDistinctCalls(meets, calls) ==
    LET assign[k \in 1 .. Len(meets) + 1, used \in SUBSET (1 .. calls)] ==
            k > Len(meets) \/ \E i \in meets[k] \ used : assign[k + 1, used \cup {i}]
    IN  Len(meets) <= calls /\ assign[1, {}]

\* scenarios.py: what a line of the file may ask for.
ValidScenario(sc) ==
    /\ sc.min \in 0 .. sc.max
    /\ sc.role = "none" => sc.max = 0

\* A surface that does not offer the role asks for the fallback; nothing to be
\* called is right under every surface.
ExpectedRole(sc, offers) == IF sc.role \in offers \cup {"none"} THEN sc.role ELSE sc.fallback

\* The first matching call is judged by itself: its query and its arguments
\* fit what the scenario says of them; the groups are judged over all of them.
ScoreArguments(fits, meets, matching) ==
    IF matching = 0 THEN "unscored"
    ELSE IF 1 \in fits /\ (meets = <<>> \/ MatchedByDistinctCalls(meets, matching)) THEN "right" ELSE "wrong"

\* A role that is not offered has no tool, and is chosen by no call at all.
\* Where no call matches, the choice of the tool is already wrong and the
\* arguments are not scored.
ScoreEpisode(sc, offers, fits, meets, tools) ==
    LET role == ExpectedRole(sc, offers)
        calls == Len(tools)
        matching == Cardinality({n \in DOMAIN tools : tools[n] = role})
        needed == IF role = "none" THEN 0 ELSE sc.min
        budget == IF role = "none" THEN 0 ELSE sc.max
    IN  [choice |-> IF role \in offers THEN calls > 0 /\ tools[1] = role ELSE calls = 0,
         arguments |-> IF role = "none" THEN "unscored" ELSE ScoreArguments(fits, meets, matching),
         unnecessary |-> IF calls > needed THEN calls - needed ELSE 0,
         over |-> calls > budget]

\* "other" is any tool the scenario does not speak of; fits and meets speak of
\* the matching calls, in their order.
GradeEpisode ==
    /\ Fresh
    /\ \E sc \in [role : {"none", "search"}, fallback : {"none", "list"}, min : 0 .. MaxBudget, max : 0 .. MaxBudget],
          offers \in SUBSET {"search", "list"}, n \in 0 .. MaxCalls, groups \in 0 .. MaxGroups :
       /\ ValidScenario(sc)
       /\ \E tools \in [1 .. n -> offers \cup {"other"}] :
          LET calls == 1 .. Cardinality({k \in 1 .. n : tools[k] = ExpectedRole(sc, offers)})
          IN  \E fits \in SUBSET calls, meets \in [1 .. groups -> SUBSET calls] :
                 graded' = [by |-> "episode",
                            sheet |-> [scenario |-> sc, offers |-> offers, fits |-> fits, meets |-> meets,
                                       tools |-> tools],
                            got |-> ScoreEpisode(sc, offers, fits, meets, tools)]

-----------------------------------------------------------------------------
(* l2.py and judge_local.py: two variants are shown in both orders; the    *)
(* judge sees slots, the outcome names variants.                           *)
InSlots(order) == IF order = "ab" THEN [first |-> "a", second |-> "b"] ELSE [first |-> "b", second |-> "a"]
Pick(slot, order) == IF slot = "tie" THEN "tie" ELSE InSlots(order)[slot]
Outcome(picked) == [ab |-> Pick(picked.ab, "ab"), ba |-> Pick(picked.ba, "ba")]
Winner(o) == IF o.ab = o.ba THEN o.ab ELSE "none"
PositionBiased(o) == o.ab # o.ba /\ o.ab = "a" /\ o.ba = "b"

Summary(outcomes) ==
    LET Won(v) == Cardinality({n \in DOMAIN outcomes : Winner(outcomes[n]) = v})
    IN  [n |-> Len(outcomes), decided |-> Won("a") + Won("b") + Won("tie"),
         wins |-> [v \in {"a", "b", "tie"} |-> Won(v)],
         biased |-> Cardinality({n \in DOMAIN outcomes : PositionBiased(outcomes[n])})]

\* w6_run.py: the questions both modes have a row of are compared one by one
\* until the judge fails; what there is then is summed up.
GradeComparison ==
    /\ Fresh
    /\ \E rows \in SUBSET ({"server", "client"} \X {1, 2}) :
       LET both == {q \in {1, 2} : {<<"server", q>>, <<"client", q>>} \subseteq rows}
       IN  \E judged \in 0 .. Cardinality(both) :
           \E picked \in [1 .. judged -> [ab : {"first", "second", "tie"}, ba : {"first", "second", "tie"}]] :
              graded' = [by |-> "comparison", sheet |-> [rows |-> rows, picked |-> picked],
                         got |-> Summary([n \in 1 .. judged |-> Outcome(picked[n])])]

-----------------------------------------------------------------------------
(* w6.py: an answer is sentences [short, refuses] and the page numbers it  *)
(* cites; its generator saw pages of documents, and so the gold.           *)
LooksRefused(answer) ==
    LET sentences == SelectSeq(answer, LAMBDA s : ~s.short)
    IN  /\ sentences # <<>>
        /\ sentences[1].refuses \/ \A n \in DOMAIN sentences : sentences[n].refuses

Numbers(pages) == {p[2] : p \in pages}

\* hits: cited numbers that were seen; gold: whether one is the gold's.
ScoreCitations(cited, seen, gold, refused) ==
    IF refused THEN [scored |-> FALSE, hits |-> {}, gold |-> "none"]
    ELSE [scored |-> TRUE, hits |-> cited \cap Numbers(seen),
          gold |-> IF gold = {} THEN "none" ELSE IF cited \cap Numbers(gold) # {} THEN "hit" ELSE "miss"]

GradeAnswer ==
    /\ Fresh
    /\ \E n \in 0 .. MaxSentences :
       \E answer \in [1 .. n -> [short : BOOLEAN, refuses : BOOLEAN]], cited \in SUBSET Numbers(Page),
          seen, gold \in SUBSET Page :
           graded' = [by |-> "answer", sheet |-> [answer |-> answer, cited |-> cited, seen |-> seen, gold |-> gold],
                      got |-> [refused |-> LooksRefused(answer),
                               citation |-> ScoreCitations(cited, seen, gold, LooksRefused(answer))]]

-----------------------------------------------------------------------------
(* w6.py: the table of a mode.  A row keeps what was paid for - the final  *)
(* answer, here whether it reads as a refusal and what it cites, and what  *)
(* the server said before, with its flag and how that text reads - and the *)
(* verdict that was passed when it was written, perhaps by an older        *)
(* detector.  Only a question that has an answer has gold pages, and only  *)
(* if its snippets were found in the documents.                            *)
Rows == {r \in [noAnswer : BOOLEAN, gold : BOOLEAN, refuses : BOOLEAN, cites : BOOLEAN, stored : BOOLEAN,
                server : {"none", "answered", "refused"}, reads : BOOLEAN] : r.noAnswer => ~r.gold}

\* The report passes every verdict anew.
Rescore(row) == [row EXCEPT !.stored = row.refuses]
Verdict(row) == row.stored
Count(rows, P(_)) == Cardinality({n \in DOMAIN rows : P(rows[n])})

RefusalMetrics(rows) ==
    [noAnswer |-> Count(rows, LAMBDA r : r.noAnswer),
     refused |-> Count(rows, LAMBDA r : r.noAnswer /\ Verdict(r)),
     answerable |-> Count(rows, LAMBDA r : ~r.noAnswer),
     falsely |-> Count(rows, LAMBDA r : ~r.noAnswer /\ Verdict(r))]

\* row[key]["scored"]: the row has that text, and it was no refusal.
Scored(row, key) == IF key = "citation" THEN ~Verdict(row) ELSE row.server = "answered"

CitationMetrics(rows, key) ==
    [scored |-> Count(rows, LAMBDA r : Scored(r, key)),
     cited |-> Count(rows, LAMBDA r : Scored(r, key) /\ r.cites),
     gold |-> Count(rows, LAMBDA r : Scored(r, key) /\ r.gold)]

\* How the detector reads what the server has a flag for.
DetectorAgreement(rows) ==
    [n |-> Count(rows, LAMBDA r : r.server # "none"),
     agree |-> Count(rows, LAMBDA r : r.server # "none" /\ (r.server = "refused" <=> r.reads)),
     falsePositive |-> Count(rows, LAMBDA r : r.server = "answered" /\ r.reads),
     falseNegative |-> Count(rows, LAMBDA r : r.server = "refused" /\ ~r.reads)]

Summarize(rows) ==
    [refusal |-> RefusalMetrics(rows), citation |-> CitationMetrics(rows, "citation"),
     server |-> CitationMetrics(rows, "server_citation"), detector |-> DetectorAgreement(rows)]

GradeTable ==
    /\ Fresh
    /\ \E n \in 0 .. MaxRows : \E rows \in [1 .. n -> Rows] :
           graded' = [by |-> "table", sheet |-> rows, got |-> Summarize([k \in 1 .. n |-> Rescore(rows[k])])]

-----------------------------------------------------------------------------
(* w6_run.py: a round robin over the types, put back in order.             *)
Stratified(items, limit) ==
    LET Depth(n) == Cardinality({m \in 1 .. n - 1 : items[m] = items[n]})
        Before(n) == {m \in DOMAIN items : \/ Depth(m) < Depth(n)
                                           \/ Depth(m) = Depth(n) /\ items[m] < items[n]}
    IN  IF limit = 0 \/ limit >= Len(items) THEN DOMAIN items
        ELSE {n \in DOMAIN items : Cardinality(Before(n)) < limit}

GradeDataset ==
    /\ Fresh
    /\ \E n \in 1 .. MaxItems, limit \in 0 .. MaxItems : \E items \in [1 .. n -> Type] :
           graded' = [by |-> "dataset", sheet |-> [items |-> items, limit |-> limit],
                      got |-> Stratified(items, limit)]

-----------------------------------------------------------------------------
(* build_synthetic.py: of the n questions of a type, in the order of their *)
(* hashes, the last three tenths are held out; round() takes halves to the *)
(* even neighbour.                                                         *)
HeldOut(n) ==
    LET tenths == 3 * n
    IN  IF tenths % 10 < 5 \/ (tenths % 10 = 5 /\ (tenths \div 10) % 2 = 0)
        THEN tenths \div 10 ELSE tenths \div 10 + 1

AssignSplits(n) == [k \in 1 .. n |-> IF k > n - HeldOut(n) THEN "holdout" ELSE "tune"]

\* A dataset of n questions of a type is built again with one more, whose
\* hash comes before that of the at-th.
GradeSplits ==
    /\ Fresh
    /\ \E n \in 0 .. MaxOfType : \E at \in 1 .. n + 1 :
           graded' = [by |-> "splits", sheet |-> [n |-> n, at |-> at],
                      got |-> [before |-> AssignSplits(n),
                               after |-> RemoveAt(AssignSplits(n + 1), at)]]

-----------------------------------------------------------------------------
(* judge.py: four metrics, each absent, low or good; where it failed.      *)
Metric == {"faithfulness", "relevancy", "precision", "recall"}
Diagnose(low) ==
    IF "recall" \in low /\ "faithfulness" \notin low THEN "recall"
    ELSE IF "precision" \in low THEN "precision"
    ELSE IF "recall" \notin low /\ "faithfulness" \in low THEN "faithfulness"
    ELSE IF "relevancy" \in low THEN "relevancy" ELSE "healthy"

GradeMetrics ==
    /\ Fresh
    /\ \E low \in SUBSET Metric : graded' = [by |-> "metrics", sheet |-> low, got |-> Diagnose(low)]

ScoringInit == graded = [by |-> "none"]
ScoringNext ==
    \/ GradeGold \/ GradeRanking \/ GradeEpisode \/ GradeComparison
    \/ GradeAnswer \/ GradeTable \/ GradeDataset \/ GradeSplits \/ GradeMetrics

-----------------------------------------------------------------------------
\* Every chunk that holds all of a snippet is gold, however often pages
\* repeat themselves: a chunk is placed where it stands or before it, never
\* behind it, and what it holds it holds there too.
GoldTrue ==
    graded.by = "gold" =>
        LET s == graded.sheet
            At(n) == Offset(s.pages, s.chunks[n].page) + s.chunks[n].at - 1
            Holds(n) == FindSnippet(Content(s.pages, s.chunks[n]), s.snippet) # {}
        IN  /\ \A n \in DOMAIN s.chunks : graded.got.placed[n] \in 1 .. At(n)
            /\ \A n \in DOMAIN s.chunks : Holds(n) => n \in graded.got.ids

\* The columns of a table agree: a question has something in its top k for
\* recall, for precision, for nDCG and for the rank of the first hit, or for
\* none of them; nDCG is at most one, and pays no more ranks than recall
\* counts spans.
RankingTrue ==
    graded.by = "ranking" =>
        LET s == graded.sheet
            g == graded.got
            hit == g.first \in 1 .. s.k
        IN  /\ g.recall > 0 <=> hit
            /\ g.precision > 0 <=> hit
            /\ g.earning # {} <=> hit
            /\ Cardinality(g.earning) <= g.recall /\ Cardinality(g.earning) <= g.precision
            /\ Cardinality(g.earning) <= Cardinality(Ideal(s.gold, s.k))

\* Asking for two things at once is never right where two calls are asked
\* for: arguments are right exactly when the first call fits by itself - no
\* later one makes up for it - and no set of groups has fewer calls that meet
\* one of them than it has groups.  A call too many is an unnecessary one too;
\* where nothing is to be called, by the scenario or by its fallback, every
\* call is both, and a tool the surface does not have is not held against the
\* arguments.
EpisodeTrue ==
    graded.by = "episode" =>
        LET s == graded.sheet
            g == graded.got
            role == ExpectedRole(s.scenario, s.offers)
        IN  /\ g.arguments # "unscored" =>
                 (g.arguments = "right" <=>
                    /\ 1 \in s.fits
                    /\ \A gs \in SUBSET DOMAIN s.meets :
                          Cardinality(UNION {s.meets[k] : k \in gs}) >= Cardinality(gs))
            /\ g.over => g.unnecessary > 0
            /\ role = "none" => (g.over <=> ~g.choice) /\ g.unnecessary = Len(s.tools)
            /\ g.choice => (g.arguments = "unscored" <=> s.tools = <<>>)
            /\ role \notin s.offers => g.arguments = "unscored"

\* A judge that looks at the slot and not at the answer decides nothing: every
\* win of a variant is one it got in both slots, what is decided and what the
\* first slot decided are different questions, and only questions both modes
\* answered are counted.
ComparisonTrue ==
    graded.by = "comparison" =>
        LET s == graded.sheet
            g == graded.got
        IN  /\ g.wins["a"] + g.wins["b"]
                 <= Cardinality({n \in DOMAIN s.picked : {s.picked[n].ab, s.picked[n].ba} = {"first", "second"}})
            /\ g.decided + g.biased <= g.n
            /\ 2 * g.n <= Cardinality(s.rows)

\* An answer that opens with what was asked for is never taken for a refusal,
\* whatever it says later that the documents lack; a refusal, and only that,
\* is in none of the citation columns.
AnswerTrue ==
    graded.by = "answer" =>
        /\ graded.got.refused => \E n \in DOMAIN graded.sheet.answer :
             /\ graded.sheet.answer[n].refuses
             /\ \A m \in 1 .. n : graded.sheet.answer[m].short <=> m < n
        /\ graded.got.citation.scored <=> ~graded.got.refused

\* The columns of the table of a mode speak of the same answers: each answer
\* is in a refusal column or in the citations' denominator, never in both, and
\* a detector that agrees with the server on every answer is the only one
\* without a false alarm and without a miss - whatever the rows said of
\* themselves when they were written.  What the server said and refused is in
\* none of its citation columns, even where it does not read as a refusal.
\* Of the questions that have an answer, the gold column lacks those that were
\* refused and those whose gold pages were not found, and no others.
TableTrue ==
    graded.by = "table" =>
        LET rows == graded.sheet
            g == graded.got
        IN  /\ g.refusal.refused + g.refusal.falsely + g.citation.scored = Len(rows)
            /\ g.refusal.noAnswer + g.refusal.answerable = Len(rows)
            /\ g.citation.gold + g.refusal.falsely
                 + Cardinality({n \in DOMAIN rows : ~rows[n].noAnswer /\ ~rows[n].refuses /\ ~rows[n].gold})
                 = g.refusal.answerable
            /\ g.detector.agree + g.detector.falsePositive + g.detector.falseNegative = g.detector.n
            /\ g.server.scored + g.detector.falseNegative <= g.detector.n

\* A limited sweep has its number of questions, and no type is left out, or
\* cut shorter than another by more than one, while it has questions left.
DatasetTrue ==
    graded.by = "dataset" =>
        LET s == graded.sheet
            Of(t, set) == {n \in set : s.items[n] = t}
        IN  /\ Cardinality(graded.got) = IF s.limit \in 1 .. Len(s.items) THEN s.limit ELSE Len(s.items)
            /\ \A t, u \in Type :
                 Cardinality(Of(t, graded.got)) + 1 < Cardinality(Of(u, graded.got))
                    => Of(t, graded.got) = Of(t, DOMAIN s.items)

\* What is kept back stays kept back as far as it can: one more question of a
\* type, wherever its hash puts it, moves at most one of the others across the
\* line, and a type of two questions or more has both sides.
SplitsTrue ==
    graded.by = "splits" =>
        LET g == graded.got
        IN  /\ Cardinality({k \in DOMAIN g.before : g.before[k] # g.after[k]}) <= 1
            /\ graded.sheet.n >= 2 => ToSet(g.before) = {"tune", "holdout"}

\* What a table of the evaluation says was computed as it is named.
ScoresTrue ==
    /\ GoldTrue /\ RankingTrue /\ EpisodeTrue /\ ComparisonTrue
    /\ AnswerTrue /\ TableTrue /\ DatasetTrue /\ SplitsTrue

-----------------------------------------------------------------------------
(* What the code does not keep.                                            *)

\* gold.py:96-112: no neighbour is marked as gold for where its text was put.
\* But a chunk whose text stands on its page before it is placed there.
GoldExact ==
    graded.by = "gold" /\ graded.got.ok =>
        LET s == graded.sheet
            At(n) == Offset(s.pages, s.chunks[n].page) + s.chunks[n].at - 1
        IN  \A n \in graded.got.ids : \E t \in FindSnippet(Text(s.pages), s.snippet) :
                Overlap(At(n), s.chunks[n].size, t, Len(s.snippet))

\* l2.py:471-473: both runs picked the same slot.  But only the first slot,
\* picked twice, is counted.
BiasCounted ==
    graded.by = "comparison" =>
        graded.got.biased =
            Cardinality({n \in DOMAIN graded.sheet.picked :
                graded.sheet.picked[n].ab = graded.sheet.picked[n].ba /\ graded.sheet.picked[n].ab # "tie"})

\* w6.py:276-278: an answer that is nothing but refusals under a heading is a
\* refusal.  But where the first rule says no, the second cannot say yes.
HeadingThenRefusal ==
    graded.by = "answer" =>
        LET a == graded.sheet.answer
        IN  Len(a) > 1 /\ (\A n \in 2 .. Len(a) : a[n].refuses /\ ~a[n].short) => graded.got.refused

\* metrics.py:152-155: with several documents the same number is not the same
\* page.  But W6 compares numbers.
PageOfTheDocument ==
    graded.by = "answer" /\ graded.got.citation.gold = "hit" =>
        \E p \in graded.sheet.gold : p[2] \in graded.sheet.cited /\ p \in graded.sheet.seen

\* build_synthetic.py:108-111: a dataset that is built again keeps its splits,
\* or the holdout is spoilt.  But one more question of a type may push another
\* one over the line, into what is tuned on.
HoldoutStaysOut ==
    graded.by = "splits" =>
        \A k \in DOMAIN graded.got.before : graded.got.before[k] = "holdout" => graded.got.after[k] = "holdout"

\* judge.py:184-189: the metrics name where it failed.  But where retrieval
\* and generation both fail, it says nothing did.
DiagnosisNames == graded.by = "metrics" => (graded.got = "healthy" => graded.sheet = {})
=============================================================================
