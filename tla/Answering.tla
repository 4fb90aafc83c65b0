------------------------------ MODULE Answering ------------------------------
(***************************************************************************)
(* From a question to its answer: the embedding, the first stage of the    *)
(* retrieval and its fusion (services/retrieve.py, fusion.py), the         *)
(* reranker, the grounding floor and the language model (generate.py,      *)
(* llm.py), with what each server's failure becomes on its way to the      *)
(* caller (upstream.py, pipeline.py).                                      *)
(*                                                                         *)
(* Vectors are left out: what the database ranks and how the servers score *)
(* is any ranking and any score.  A score is a level of its own space      *)
(* (cosine, reranker) or an RRF sum, and spaces do not compare.  What the  *)
(* question costs and leaves behind is QueryPipeline's.                    *)
(***************************************************************************)
EXTENDS Naturals, FiniteSets, Sequences, SequencesExt

CONSTANTS
    Chunk,                  \* the chunks of the asker's scope
    Backfilled,             \* those with a sparse vector
    CandK, TopK,            \* candidates of a hybrid search, hits of a dense one
    RerankTop, Limits,      \* the context size, and what an agent may ask for (0: nothing)
    RrfK,                   \* the constant of the fusion
    Scores,                 \* scores of the cosine and of the reranker
    MinScore, RerankMinScore,
    Delays                  \* retry delays the provider sends, in tenths; 0 for none

ASSUME AnsweringSizes == /\ Backfilled \subseteq Chunk /\ Scores \subseteq Nat /\ Delays \subseteq Nat
                         /\ CandK \in Nat \ {0} /\ TopK \in Nat \ {0} /\ RerankTop \in Nat \ {0}
                         /\ RrfK \in Nat /\ Limits \subseteq Nat /\ IsFiniteSet(Chunk)
                         /\ MinScore \in Nat /\ RerankMinScore \in Nat

\* config.py: rrf_k is 60 and cand_k 40.
ASSUME FusionSizes == CandK < RrfK + 2

VARIABLES
    ask,        \* the question's way: [hybrid, limit, streamed]
    at,         \* where it is
    ranking,    \* [dense, sparse]: what each retriever returned
    ranked,     \* the candidates as the reranker sorts them
    stage,      \* what the trace records: [rrf, rerank]
    context,    \* the chunks found: a sequence of [chunk, score]
    prompted,   \* the chunks put into a prompt, <<>> when none was sent
    begun,      \* the model's text streamed so far
    reply       \* [status, kind, refused, cited, retry]

answering == <<ask, at, ranking, ranked, stage, context, prompted, begun, reply>>

Unanswered == [status |-> 0, kind |-> "none", refused |-> FALSE, cited |-> <<>>, retry |-> 0]

AnsweringInit ==
    /\ ask \in [hybrid : BOOLEAN, limit : Limits, streamed : BOOLEAN]
    /\ ask.streamed => ask.limit = 0       \* only the agents' tool passes a limit
    /\ at = "embed"
    /\ ranking = [dense |-> <<>>, sparse |-> <<>>] /\ ranked = <<>> /\ stage = [rrf |-> <<>>, rerank |-> <<>>]
    /\ context = <<>> /\ prompted = <<>> /\ begun = FALSE /\ reply = Unanswered

-----------------------------------------------------------------------------
Scored(space, level) == [space |-> space, level |-> level]
Chunks(s) == {s[i].chunk : i \in DOMAIN s}
Cut(s, n) == SubSeq(s, 1, IF n < Len(s) THEN n ELSE Len(s))
OrElse(n, default) == IF n = 0 THEN default ELSE n

\* Rankings that a LIMIT k query over S may return.
Rankings(S, k) ==
    LET n == IF k < Cardinality(S) THEN k ELSE Cardinality(S)
    IN  {r \in [1 .. n -> S] : IsInjective(r)}

Descending(s) == \A i, j \in DOMAIN s : i < j => s[i].score.level >= s[j].score.level

-----------------------------------------------------------------------------
\* Failures of a model server: it does not answer or is in trouble (5xx, 429);
\* it rejects what it was sent (another 4xx); it answers with too few vectors.
Trouble == {"silent", "5xx", "429"}
Failures == Trouble \cup {"4xx"}

\* calling() and _reachable(): trouble is 503, the rest is left alone and is 500.
Unreachable(failure) ==
    IF failure \in Trouble THEN [Unanswered EXCEPT !.status = 503, !.kind = "search_unavailable"]
                           ELSE [Unanswered EXCEPT !.status = 500, !.kind = "internal"]

Fail(answer) == at' = "done" /\ reply' = answer

EmbedDense ==
    /\ at = "embed" /\ ~ask.hybrid
    /\ \/ at' = "search" /\ UNCHANGED reply
       \/ \E f \in Failures \cup {"short"} : Fail(Unreachable(f))
    /\ UNCHANGED <<ask, ranking, ranked, stage, context, prompted, begun>>

EmbedFull ==
    /\ at = "embed" /\ ask.hybrid
    /\ \/ at' = "search" /\ UNCHANGED reply
       \/ \E f \in Failures \cup {"short"} : Fail(Unreachable(f))
    /\ UNCHANGED <<ask, ranking, ranked, stage, context, prompted, begun>>

SearchDense ==
    /\ at = "search" /\ ~ask.hybrid
    /\ \E r \in Rankings(Chunk, TopK) : \E level \in [DOMAIN r -> Scores] :
        LET hits == [i \in DOMAIN r |-> [chunk |-> r[i], score |-> Scored("cosine", level[i])]]
        IN  Descending(hits) /\ context' = Cut(hits, OrElse(ask.limit, Len(hits)))
    /\ at' = "ground"
    /\ UNCHANGED <<ask, ranking, ranked, stage, prompted, begun, reply>>

HybridSearch ==
    /\ at = "search" /\ ask.hybrid
    /\ \E d \in Rankings(Chunk, CandK), s \in Rankings(Backfilled, CandK) :
        ranking' = [dense |-> d, sparse |-> s]
    /\ at' = "fuse"
    /\ UNCHANGED <<ask, ranked, stage, context, prompted, begun, reply>>

-----------------------------------------------------------------------------
\* 1/(k + rank) of a retriever that found the chunk, and the sum, as fractions.
RankOf(c, r) == CHOOSE i \in DOMAIN r : r[i] = c
Share(c, r) == IF c \in Range(r) THEN [up |-> 1, down |-> RrfK + RankOf(c, r)] ELSE [up |-> 0, down |-> 1]
Sum(x, y) == [up |-> x.up * y.down + y.up * x.down, down |-> x.down * y.down]
Greater(x, y) == x.up * y.down > y.up * x.down
RrfScore(c) == Sum(Share(c, ranking.dense), Share(c, ranking.sparse))

\* The dictionary's order: the dense ranking, then what only the sparse one has.
Candidates == Range(ranking.dense) \cup Range(ranking.sparse)
MetBefore(a, b) ==
    \/ /\ a \in Range(ranking.dense)
       /\ b \in Range(ranking.dense) => RankOf(a, ranking.dense) < RankOf(b, ranking.dense)
    \/ {a, b} \cap Range(ranking.dense) = {} /\ RankOf(a, ranking.sparse) < RankOf(b, ranking.sparse)

\* Best first; equals stay in the order they were met in.
Ahead(a, b) == \/ Greater(RrfScore(a), RrfScore(b))
               \/ ~Greater(RrfScore(b), RrfScore(a)) /\ MetBefore(a, b)
BestFirst(r) == /\ \A i, j \in DOMAIN r : i < j => Ahead(r[i], r[j])
                /\ \A c \in Candidates \ Range(r) : \A i \in DOMAIN r : Ahead(r[i], c)

Fuse ==
    /\ at = "fuse"
    /\ \E r \in Rankings(Candidates, CandK) :
        /\ BestFirst(r)
        /\ stage' = [stage EXCEPT !.rrf =
                [i \in DOMAIN r |-> [chunk |-> r[i], score |-> Scored("rrf", RrfScore(r[i]))]]]
        /\ at' = IF r = <<>> THEN "ground" ELSE "rerank"
    /\ UNCHANGED <<ask, ranking, ranked, context, prompted, begun, reply>>

\* The server's answer, sorted by score.
Sorted(r) == Descending(r)

\* The reranked chunks are the candidates themselves: their new score is
\* also what the trace's RRF stage then records.
Rescored(candidates, top) ==
    [i \in DOMAIN candidates |->
        IF candidates[i].chunk \in Chunks(top)
        THEN top[CHOOSE j \in DOMAIN top : top[j].chunk = candidates[i].chunk]
        ELSE candidates[i]]

Rerank ==
    /\ at = "rerank"
    /\ \/ \E r \in Rankings(Chunks(stage.rrf), CandK) : \E level \in [DOMAIN r -> Scores] :
            LET top == Cut(ranked', OrElse(ask.limit, RerankTop))
            IN  /\ ranked' = [i \in DOMAIN r |-> [chunk |-> r[i], score |-> Scored("rerank", level[i])]]
                /\ Sorted(ranked')
                /\ context' = top
                /\ stage' = [rrf |-> Rescored(stage.rrf, top), rerank |-> top]
                /\ at' = "ground" /\ UNCHANGED reply
       \/ \E f \in Failures : Fail(Unreachable(f)) /\ UNCHANGED <<ranked, context, stage>>
    /\ UNCHANGED <<ask, ranking, prompted, begun>>

-----------------------------------------------------------------------------
\* A version with one floor for both spaces.
FloorOfCosine == MinScore

GroundingFloor == IF ask.hybrid THEN RerankMinScore ELSE MinScore
Grounded ==
    FlattenSeq([i \in DOMAIN context |-> IF context[i].score.level >= GroundingFloor THEN <<context[i]>> ELSE <<>>])

\* Without a chunk over the floor the model is not asked.
Ground ==
    /\ at = "ground"
    /\ IF Grounded = <<>>
       THEN Fail([Unanswered EXCEPT !.status = 200, !.kind = "answer", !.refused = TRUE]) /\ UNCHANGED prompted
       ELSE prompted' = Grounded /\ at' = "generate" /\ UNCHANGED reply
    /\ UNCHANGED <<ask, ranking, ranked, stage, context, begun>>

\* A piece of the model's text goes out before the text is known.
Token ==
    /\ at = "generate" /\ ask.streamed /\ ~begun /\ begun' = TRUE
    /\ UNCHANGED <<ask, at, ranking, ranked, stage, context, prompted, reply>>

\* The text: an answer, the refusal (alone or in an answer), or nothing.
Refusals == {"refusal", "hedged", "empty"}

Answer(text) ==
    [Unanswered EXCEPT !.status = 200, !.kind = "answer", !.refused = text \in Refusals,
                       !.cited = IF text \in Refusals THEN <<>> ELSE prompted]

\* The text is stripped at the end: blanks that went out may leave nothing.
Complete ==
    /\ at = "generate"
    /\ \E text \in {"answer"} \cup Refusals :
        /\ text # "empty" /\ ask.streamed => begun
        /\ Fail(Answer(text))
    /\ UNCHANGED <<ask, ranking, ranked, stage, context, prompted, begun>>

\* _retry_after: whole seconds, cut off.
RetryAfter(delay) == delay \div 10

\* _retryable: what the caller is told.
ProviderError(status, kind, retry) == [Unanswered EXCEPT !.status = status, !.kind = kind, !.retry = retry]

\* _provider_errors: exhaustion and overload are told, with the provider's own
\* delay when it sends one; a rejected request or a broken line is a crash.
ProviderFails ==
    /\ at = "generate"
    /\ \/ \E delay \in Delays : \/ Fail(ProviderError(429, "model_quota_exceeded", RetryAfter(delay)))
                                \/ Fail(ProviderError(503, "model_unavailable", RetryAfter(delay)))
       \/ Fail(ProviderError(500, "internal", 0))
    /\ UNCHANGED <<ask, ranking, ranked, stage, context, prompted, begun>>

AnsweringNext == \/ EmbedDense \/ EmbedFull \/ SearchDense \/ HybridSearch \/ Fuse \/ Rerank
                 \/ Ground \/ Token \/ Complete \/ ProviderFails

-----------------------------------------------------------------------------
Answered == reply.kind = "answer"
CitedChunks == Chunks(reply.cited)

\* An answer stands on what was found: it cites exactly the chunks its prompt
\* was built from, each over the floor of the space its score is in, no more
\* of them than the caller's context holds, and all of them from the rankings
\* of this question.  A refusal cites nothing, however it came about, and a
\* reply that failed neither answers nor cites.
AnswerGrounded ==
    /\ Answered => (reply.refused <=> reply.cited = <<>>)
    /\ ~Answered => reply.cited = <<>>
    /\ CitedChunks \subseteq Chunks(prompted)
    /\ Answered /\ ~reply.refused => CitedChunks = Chunks(prompted)
    /\ Len(prompted) <= OrElse(ask.limit, IF ask.hybrid THEN RerankTop ELSE TopK)
    /\ \A i \in DOMAIN prompted :
        LET score == prompted[i].score
        IN  \/ score.space = "cosine" /\ score.level >= MinScore
            \/ /\ score.space = "rerank" /\ score.level >= RerankMinScore
               /\ prompted[i].chunk \in Range(ranking.dense) \cup Range(ranking.sparse)

\* Nothing better was passed over.  What the fusion cuts off was not found by
\* both retrievers if something it keeps was found by one (k exceeds the
\* candidates less two), and of two that both found, the one that is ahead in
\* both stays ahead.  And a hybrid question is refused without the model only
\* if no candidate at all reached the floor: the context's size hides none.
Fusion == at \notin {"embed", "search", "fuse"} /\ ask.hybrid
BothFound == Range(ranking.dense) \cap Range(ranking.sparse)
AheadInBoth(a, b) == /\ RankOf(a, ranking.dense) < RankOf(b, ranking.dense)
                     /\ RankOf(a, ranking.sparse) < RankOf(b, ranking.sparse)

FoundIsUsed ==
    /\ Fusion /\ ~(Chunks(stage.rrf) \subseteq BothFound) => BothFound \subseteq Chunks(stage.rrf)
    /\ \A i, j \in DOMAIN stage.rrf :
        LET a == stage.rrf[i].chunk   b == stage.rrf[j].chunk
        IN  {a, b} \subseteq BothFound /\ AheadInBoth(a, b) => i < j
    /\ Answered /\ prompted = <<>> =>
        \A i \in DOMAIN ranked : ranked[i].score.level < RerankMinScore

\* What the trace keeps of a stage is what that stage saw: the scores of the
\* RRF stage are RRF scores.  The code does not keep this (pipeline.py:294
\* overwrites the score of the candidate it has handed to both stages).
StageScoresKept == \A i \in DOMAIN stage.rrf : stage.rrf[i].score.space = "rrf"
=============================================================================
