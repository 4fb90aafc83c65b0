------------------------------- MODULE Serving -------------------------------
(***************************************************************************)
(* What stands before and behind a question: the agents' gate, the cutting *)
(* of documents into chunks, the way from a question to its answer, the    *)
(* burst limits, and the tables under all of them.                         *)
(*                                                                         *)
(* What they share - accounts, documents, the ledger - is in Accounts,     *)
(* Documents and QueryPipeline.  Here they share no state, so a behaviour  *)
(* exercises one of them and the others stand still.                       *)
(***************************************************************************)
EXTENDS AgentGate, Chunking, Answering, RateLimit, Schema

VARIABLE part   \* which of the five this behaviour exercises

serving == <<part, gate, cutting, answering, limits, schema>>

\* The others start in one state, whichever.
Init ==
    /\ part \in {"gate", "cutting", "answering", "limits", "schema"}
    /\ part # "gate" =>
        \E c \in {CHOOSE c \in Configs : TRUE} :
            /\ mode = c.mode /\ blank = c.blank /\ apart = c.apart
            /\ surface = (CHOOSE s \in Surfaces : TRUE) /\ jwt = (CHOOSE token \in Minted : TRUE)
    /\ part # "schema" => version = (CHOOSE v \in Founded : TRUE)
    /\ part # "cutting" => book = (CHOOSE b \in Books : TRUE) /\ cut = (CHOOSE c \in Cuts : TRUE)
    /\ part # "answering" => ask = [hybrid |-> TRUE, limit |-> 0, streamed |-> FALSE]
    /\ GateInit /\ ChunkingInit /\ AnsweringInit /\ RateLimitInit /\ SchemaInit

Next ==
    /\ UNCHANGED part
    /\ \/ part = "gate" /\ GateNext /\ UNCHANGED <<cutting, answering, limits, schema>>
       \/ part = "cutting" /\ ChunkingNext /\ UNCHANGED <<gate, answering, limits, schema>>
       \/ part = "answering" /\ AnsweringNext /\ UNCHANGED <<gate, cutting, limits, schema>>
       \/ part = "limits" /\ RateLimitNext /\ UNCHANGED <<gate, cutting, answering, schema>>
       \/ part = "schema" /\ SchemaNext /\ UNCHANGED <<gate, cutting, answering, limits>>

Spec == Init /\ [][Next]_serving

-----------------------------------------------------------------------------
\* The gate tells credentials apart, opens to each what it was listed, and gives
\* the true reason for a refusal (the verifiers, ScopeGate, _to_tool_error).
GateTrue == CredentialsJudged /\ ListedOpens /\ RefusalTrue

\* An answer stands on what was found, and what was found is used: fusion, the
\* rerank and the floors neither lose a better chunk nor cite a worse one.
AnswerTold == AnswerGrounded /\ FoundIsUsed

\* A chunk holds what was written and where: nothing that was written is lost
\* to retrieval, and the headings it is put under are those it stood under.
ChunksTrue == ChunksCover /\ PathsTrue
=============================================================================
