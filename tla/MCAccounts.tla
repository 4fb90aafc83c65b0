----------------------------- MODULE MCAccounts -----------------------------
(***************************************************************************)
(* An instance of Accounts for TLC: five requests that all want the same   *)
(* address, in the combinations that can meet.                             *)
(***************************************************************************)
EXTENDS Accounts, TLC

CONSTANTS a, b, c, d, e, ada

Mix(ka, kb, kc, kd, ke) == a :> ka @@ b :> kb @@ c :> kc @@ d :> kd @@ e :> ke

\* Two signups for one address; two re-issues against two clicks; sessions
\* coming and going under a re-issue.
Meetings == {Mix("signup", "signup", "resend", "verify", "verify"),
             Mix("signup", "resend", "resend", "verify", "verify"),
             Mix("signup", "resend", "logout", "verify", "verify"),
             Mix("signup", "login", "logout", "agent", "resend")}

AllAda == [r \in Request |-> ada]
=============================================================================
