----------------------- MODULE QueryPipelineRefinement -----------------------
(***************************************************************************)
(* The request handlers of QueryPipeline implement QuotaLedger: the sweep, *)
(* the count, the insert and its commit are together one Admit, although   *)
(* they are four awaits with other requests in between.                    *)
(***************************************************************************)
EXTENDS QueryPipeline

\* A usage_events row as a ledger entry: created_at, and the moment its request
\* counted.  A request's row does not exist before reserve() or after a DELETE.
entryOf ==
    [r \in Request |->
        IF row[r] = "none"
        THEN [kind |-> "none", at |-> 0, counted |-> 0]
        ELSE [kind |-> row[r], at |-> stamp[r], counted |-> countedAt[r]]]

\* Only a lost acknowledgement makes release_reservation delete a settled row.
refundable == IF "lost_ack" \in Faults THEN {"reserved", "settled"} ELSE {"reserved"}

Ledger == INSTANCE QuotaLedger WITH entry <- entryOf, Refundable <- refundable

\* Every behaviour of the handlers is a behaviour of the ledger: an admission is
\* atomic, a charge is final, and only a stale unsettled row is ever struck out.
LedgerSpec == Ledger!Spec
=============================================================================
