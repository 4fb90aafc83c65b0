----------------------------- MODULE MCDocuments -----------------------------
(***************************************************************************)
(* Instances of Documents for TLC: two uploads of one account, one of them *)
(* too large to follow the other, and questions over them.                 *)
(***************************************************************************)
EXTENDS Documents, TLC

CONSTANTS d1, d2, alice, q1, q2

\* Everything belongs to one account.
OwnedByAlice == [d \in Document |-> alice]
AskedByAlice == [q \in Question |-> alice]

\* Two pages and one page.
TwoAndOne == [d \in Document |-> IF d = d1 THEN 2 ELSE 1]
=============================================================================
