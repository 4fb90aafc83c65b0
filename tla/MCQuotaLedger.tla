---------------------------- MODULE MCQuotaLedger ----------------------------
(***************************************************************************)
(* An instance of QuotaLedger for TLC: the model values of Request and     *)
(* User are in the configuration.                                          *)
(***************************************************************************)
EXTENDS QuotaLedger, TLC

CONSTANTS alice

\* Everybody works for one account: the allowances of two accounts never meet.
OwnedByAlice == [r \in Request |-> alice]

\* Requests of one account are interchangeable.
Interchangeable == Permutations(Request)
=============================================================================
