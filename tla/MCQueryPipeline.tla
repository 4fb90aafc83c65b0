--------------------------- MODULE MCQueryPipeline ---------------------------
(***************************************************************************)
(* Instances of QueryPipeline for TLC.  A configuration picks the model    *)
(* values of Request and User and one of the assignments below.            *)
(***************************************************************************)
EXTENDS QueryPipelineRefinement, TLC

CONSTANTS r1, r2, r3, alice, bob

\* Everybody works for one account.
OwnedByAlice == [r \in Request |-> alice]

\* The first request belongs to somebody else.
OwnedByBoth == [r \in Request |-> IF r = r1 THEN bob ELSE alice]

AllConversation == [r \in Request |-> "conversation"]
AllMcpSearch == [r \in Request |-> "mcp_search"]

\* One streamed turn among one-shot requests.
OneTurn == [r \in Request |-> IF r = r1 THEN "conversation" ELSE "query"]

\* A streamed turn and an agent that answers.
TurnAndAgent == [r \in Request |-> IF r = r1 THEN "conversation" ELSE "mcp_answer"]

\* Requests of the same account and consumer are interchangeable.
Interchangeable == Permutations(Request)
=============================================================================
