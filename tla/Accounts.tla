------------------------------ MODULE Accounts ------------------------------
(***************************************************************************)
(* Accounts, their sessions and the links that verify their addresses      *)
(* (app/routers/auth.py, services/auth.py, services/verification.py,       *)
(* deps.py, mcp/auth.py).                                                  *)
(*                                                                         *)
(* Requests run beside each other, each in a transaction of its own under  *)
(* READ COMMITTED: a statement sees what was committed when it began, and  *)
(* one that changes a row waits for whoever changed it first.  Every step  *)
(* is one statement or one commit.                                         *)
(***************************************************************************)
EXTENDS Integers, FiniteSets

CONSTANTS
    Request,   \* requests that may ever arrive
    Mixes,     \* the endpoints the requests may call, each a function of r (a bound)
    Email,     \* normalized addresses; an account is named by its address
    EmailOf,   \* EmailOf[r]: the address a signup or a login carries
    Nobody,    \* "no request" as a lock holder, a session or a token
    Faulty     \* whether statements, commits and the mailer may fail

Kinds == {"signup", "login", "logout", "verify", "resend", "agent"}

ASSUME AccountsOK ==
    /\ Mixes \subseteq [Request -> Kinds]
    /\ EmailOf \in [Request -> Email]
    /\ Nobody \notin Request
    /\ Faulty \in BOOLEAN

(***************************************************************************)
(* A session and a token are named by the request that made them: both are *)
(* fresh random values.                                                    *)
(***************************************************************************)
VARIABLES
    kind,      \* kind[r]: the endpoint r calls
    users,     \* addresses with a row in users
    verified,  \* of these, those with email_verified_at
    session,   \* session[r]: the sessions row r created
    token,     \* token[r]: the email_verification_tokens row r created
    holder,    \* holder[t]: the request whose transaction changed t, or Nobody
    mail,      \* mail[t]: the message that carries token t
    pc,        \* pc[r]: how far r got, or what it was answered
    shown,     \* shown[r]: the session or the token r presents, or Nobody
    fresh,     \* fresh[r]: that token had not expired when r looked at the clock
    doomed,    \* doomed[r]: the tokens the DELETE of issue_token found
    overlapped \* pairs of requests whose issues for one account ran at the same time

rows == <<kind, users, verified, session>>
vars == <<rows, token, holder, mail, pc, shown, fresh, doomed, overlapped>>

\* A row of sessions or of email_verification_tokens.  Rows past expires_at
\* are "expired"; a token stays "consumed" for good.
SessionStates == {"none", "live", "expired", "gone"}
TokenStates   == {"none", "live", "expired", "consumed", "gone"}
MailStates    == {"none", "queued", "sent", "lost"}

Working  == {"new", "account", "session", "known", "issue", "delete", "insert",
             "claim", "claimed", "missed"}
Answers  == {"created", "ok", "sent", "loggedout", "conflict", "already", "invalid",
             "unauthenticated", "limited", "failed"}

\* The account a session or a token belongs to.
Owner(x) == IF kind[x] = "resend" THEN EmailOf[shown[x]] ELSE EmailOf[x]

TokensOf(u)   == {t \in Request : token[t] # "none" /\ Owner(t) = u}
Unconsumed(u) == {t \in TokensOf(u) : token[t] \in {"live", "expired"}}
IsLive(t)     == token[t] = "live"

Init ==
    /\ kind \in Mixes
    /\ users = {} /\ verified = {}
    /\ session = [r \in Request |-> "none"]
    /\ token = [r \in Request |-> "none"]
    /\ holder = [r \in Request |-> Nobody]
    /\ mail = [r \in Request |-> "none"]
    /\ pc = [r \in Request |-> "new"]
    /\ shown = [r \in Request |-> Nobody]
    /\ fresh = [r \in Request |-> FALSE]
    /\ doomed = [r \in Request |-> {}]
    /\ overlapped = {}

Goes(r, step) == pc' = [pc EXCEPT ![r] = step]

\* A transaction that ends gives up the rows it changed.
Released(r) == [t \in Request |-> IF holder[t] = r THEN Nobody ELSE holder[t]]

\* Someone else's transaction has changed one of these rows.
Blocked(r, S) == \E t \in S : holder[t] \notin {r, Nobody}

-----------------------------------------------------------------------------
(***************************************************************************)
(* _guard_attempts and the resend limiter: module RateLimit has the bucket *)
(* itself; here it may refuse any request that asks it.                    *)
(***************************************************************************)
Refuse(r) ==
    /\ pc[r] = IF kind[r] = "resend" THEN "known" ELSE "new"
    /\ kind[r] \notin {"logout", "agent"}
    /\ Goes(r, "limited")
    /\ UNCHANGED <<rows, token, holder, mail, shown, fresh, doomed, overlapped>>

-----------------------------------------------------------------------------
(***************************************************************************)
(* signup and login                                                        *)
(***************************************************************************)
\* Faulty: the account is used before it is committed, and never is.
CreateUserUncommitted(r) ==
    /\ kind[r] = "signup" /\ pc[r] = "new"
    /\ Goes(r, "session")
    /\ UNCHANGED <<rows, token, holder, mail, shown, fresh, doomed, overlapped>>

\* The unique index on users.email decides who was first.
CreateUser(r) ==
    /\ kind[r] = "signup" /\ pc[r] = "new"
    /\ IF EmailOf[r] \in users
       THEN Goes(r, "conflict") /\ UNCHANGED users
       ELSE Goes(r, "session") /\ users' = users \cup {EmailOf[r]}
    /\ UNCHANGED <<kind, verified, session, token, holder, mail, shown, fresh, doomed, overlapped>>

\* An unknown address and a wrong password get the same answer.
Login(r) ==
    /\ kind[r] = "login" /\ pc[r] = "new"
    /\ \/ Goes(r, "unauthenticated")
       \/ EmailOf[r] \in users /\ Goes(r, "session")
    /\ UNCHANGED <<rows, token, holder, mail, shown, fresh, doomed, overlapped>>

\* create_session; a login is answered with the cookie, a signup goes on to
\* issue a token.
CreateSession(r) ==
    /\ pc[r] = "session"
    /\ session' = [session EXCEPT ![r] = "live"]
    /\ Goes(r, IF kind[r] = "signup" THEN "issue" ELSE "ok")
    /\ UNCHANGED <<kind, users, verified, token, holder, mail, shown, fresh, doomed, overlapped>>

-----------------------------------------------------------------------------
(***************************************************************************)
(* Cookies and bearer tokens: get_current_user, get_session_user and the   *)
(* SessionTokenVerifier of the MCP server resolve the same rows.           *)
(***************************************************************************)
\* Sessions a client was given: the id leaves the server in a response.
Cookies == {s \in Request : session[s] # "none" /\ pc[s] \in Answers \ {"failed"}}

\* The row decides; one that has expired is deleted on the way.
Authenticate(r) ==
    /\ kind[r] \in {"resend", "agent"} /\ pc[r] = "new"
    /\ \E s \in Cookies \cup {Nobody} :
          /\ shown' = [shown EXCEPT ![r] = s]
          /\ IF s # Nobody /\ session[s] = "live"
             THEN Goes(r, IF kind[r] = "agent" THEN "ok" ELSE "known") /\ UNCHANGED session
             ELSE /\ Goes(r, "unauthenticated")
                  /\ session' = IF s # Nobody /\ session[s] = "expired"
                                THEN [session EXCEPT ![s] = "gone"] ELSE session
    /\ UNCHANGED <<kind, users, verified, token, holder, mail, fresh, doomed, overlapped>>

\* delete_session; the cookie is cleared whatever it named.
Logout(r) ==
    /\ kind[r] = "logout" /\ pc[r] = "new"
    /\ \E s \in Cookies \cup {Nobody} :
          /\ shown' = [shown EXCEPT ![r] = s]
          /\ session' = IF s = Nobody THEN session ELSE [session EXCEPT ![s] = "gone"]
    /\ Goes(r, "loggedout")
    /\ UNCHANGED <<kind, users, verified, token, holder, mail, fresh, doomed, overlapped>>

\* resend_verification: the User was loaded with the session.
CheckUnverified(r) ==
    /\ pc[r] = "known"
    /\ Goes(r, IF Owner(r) \in verified THEN "conflict" ELSE "issue")
    /\ UNCHANGED <<rows, token, holder, mail, shown, fresh, doomed, overlapped>>

-----------------------------------------------------------------------------
(***************************************************************************)
(* issue_token                                                             *)
(***************************************************************************)
\* An issue runs from the beginning of its DELETE to its commit.
Issuing(r) == pc[r] \in {"delete", "insert"}
Meets(r)   == {{r, o} : o \in {x \in Request : Issuing(x) /\ Owner(x) = Owner(r)}}

\* Faulty: only links that have expired are cleared away.
FindExpired(r) ==
    /\ pc[r] = "issue"
    /\ doomed' = [doomed EXCEPT ![r] = {t \in Unconsumed(Owner(r)) : ~IsLive(t)}]
    /\ overlapped' = overlapped \cup Meets(r)
    /\ Goes(r, "delete")
    /\ UNCHANGED <<rows, token, holder, mail, shown, fresh>>

\* The DELETE begins: it sees the unconsumed tokens committed so far.
FindUnused(r) ==
    /\ pc[r] = "issue"
    /\ doomed' = [doomed EXCEPT ![r] = Unconsumed(Owner(r))]
    /\ overlapped' = overlapped \cup Meets(r)
    /\ Goes(r, "delete")
    /\ UNCHANGED <<rows, token, holder, mail, shown, fresh>>

\* It waits for the rows another transaction has changed and takes those that
\* are still unconsumed then.
DeleteUnused(r) ==
    /\ pc[r] = "delete"
    /\ ~Blocked(r, doomed[r])
    /\ LET dying == doomed[r] \cap Unconsumed(Owner(r))
       IN  /\ doomed' = [doomed EXCEPT ![r] = dying]
           /\ holder' = [t \in Request |-> IF t \in dying THEN r ELSE holder[t]]
    /\ Goes(r, "insert")
    /\ UNCHANGED <<rows, token, mail, shown, fresh, overlapped>>

\* Deletion and new token are one commit; the response goes out and the mail
\* is left to a background task.
InsertToken(r) ==
    /\ pc[r] = "insert"
    /\ token' = [t \in Request |-> IF t \in doomed[r] THEN "gone"
                                   ELSE IF t = r THEN "live" ELSE token[t]]
    /\ holder' = Released(r)
    /\ mail' = [mail EXCEPT ![r] = "queued"]
    /\ Goes(r, IF kind[r] = "signup" THEN "created" ELSE "sent")
    /\ doomed' = [doomed EXCEPT ![r] = {}]
    /\ UNCHANGED <<rows, shown, fresh, overlapped>>

\* _deliver_verification: a mailer that raises is only logged.
Deliver(t) ==
    /\ mail[t] = "queued"
    /\ \E outcome \in IF Faulty THEN {"sent", "lost"} ELSE {"sent"} :
          mail' = [mail EXCEPT ![t] = outcome]
    /\ UNCHANGED <<rows, token, holder, pc, shown, fresh, doomed, overlapped>>

-----------------------------------------------------------------------------
(***************************************************************************)
(* verify: consume_token                                                   *)
(***************************************************************************)
\* A link from a mail, or a string that is no token; "now" is read here.
Present(r) ==
    /\ kind[r] = "verify" /\ pc[r] = "new"
    /\ \E t \in {m \in Request : mail[m] = "sent"} \cup {Nobody} :
          /\ shown' = [shown EXCEPT ![r] = t]
          /\ fresh' = [fresh EXCEPT ![r] = t # Nobody /\ token[t] # "expired"]
    /\ Goes(r, "claim")
    /\ UNCHANGED <<rows, token, holder, mail, doomed, overlapped>>

\* The row UPDATE ... RETURNING would change.
Claimable(r) == /\ shown[r] # Nobody /\ fresh[r]
                /\ token[shown[r]] \in {"live", "expired"}

\* The conditional UPDATE waits for the row and judges what it finds then.
Claim(r) ==
    /\ pc[r] = "claim"
    /\ shown[r] # Nobody => ~Blocked(r, {shown[r]})
    /\ IF Claimable(r)
       THEN Goes(r, "claimed") /\ holder' = [holder EXCEPT ![shown[r]] = r]
       ELSE Goes(r, "missed") /\ UNCHANGED holder
    /\ UNCHANGED <<rows, token, mail, shown, fresh, doomed, overlapped>>

\* Faulty: the claim is left open when the request is answered.
ConsumeUncommitted(r) ==
    /\ pc[r] = "claimed"
    /\ Goes(r, "ok")
    /\ UNCHANGED <<rows, token, holder, mail, shown, fresh, doomed, overlapped>>

\* Token and user are marked in one commit (no operation deletes a user).  The
\* refresh after it may fail.
Consume(r) ==
    /\ pc[r] = "claimed"
    /\ token' = [token EXCEPT ![shown[r]] = "consumed"]
    /\ verified' = verified \cup {Owner(shown[r])}
    /\ holder' = Released(r)
    /\ \/ Goes(r, "ok")
       \/ Faulty /\ Goes(r, "failed")
    /\ UNCHANGED <<kind, users, session, mail, shown, fresh, doomed, overlapped>>

\* Faulty: whoever could not claim it is told that it was used.
TellAlways(r) ==
    /\ pc[r] = "missed"
    /\ Goes(r, "already")
    /\ UNCHANGED <<rows, token, holder, mail, shown, fresh, doomed, overlapped>>

\* Why the claim missed: consumed, or gone, expired, unknown.
Tell(r) ==
    /\ pc[r] = "missed"
    /\ Goes(r, IF shown[r] # Nobody /\ token[shown[r]] = "consumed"
               THEN "already" ELSE "invalid")
    /\ UNCHANGED <<rows, token, holder, mail, shown, fresh, doomed, overlapped>>

-----------------------------------------------------------------------------
\* A statement or a commit fails, or the process dies: the transaction is
\* rolled back.  After the session a signup succeeds whatever issue_token does.
Fail(r) ==
    /\ Faulty
    /\ pc[r] \in Working \ {"new"}
    /\ Goes(r, IF kind[r] = "signup" /\ pc[r] \in {"issue", "delete", "insert"}
               THEN "created" ELSE "failed")
    /\ holder' = Released(r)
    /\ doomed' = [doomed EXCEPT ![r] = {}]
    /\ UNCHANGED <<rows, token, mail, shown, fresh, overlapped>>

\* settings.session_ttl_days and verify_token_ttl_hours pass.
ExpireSession(s) ==
    /\ session[s] = "live"
    /\ session' = [session EXCEPT ![s] = "expired"]
    /\ UNCHANGED <<kind, users, verified, token, holder, mail, pc, shown, fresh, doomed, overlapped>>

ExpireToken(t) ==
    /\ token[t] = "live"
    /\ token' = [token EXCEPT ![t] = "expired"]
    /\ UNCHANGED <<rows, holder, mail, pc, shown, fresh, doomed, overlapped>>

\* What a request does once it has been let in.
Works(r) == \/ CreateSession(r) \/ CheckUnverified(r) \/ FindUnused(r)
            \/ DeleteUnused(r) \/ InsertToken(r) \/ Claim(r) \/ Consume(r) \/ Tell(r)

AllDone == (\A r \in Request : pc[r] \in Answers \cup {"new"}) /\ UNCHANGED vars

Next ==
    \/ \E r \in Request :
          \/ CreateUser(r) \/ Login(r) \/ Authenticate(r) \/ Logout(r) \/ Present(r)
          \/ Refuse(r) \/ Works(r) \/ Fail(r)
    \/ \E x \in Request : Deliver(x) \/ ExpireSession(x) \/ ExpireToken(x)
    \/ AllDone

\* The server goes on with some request it has let in while one can go on; that
\* is enough, because every request takes finitely many steps.
Spec == Init /\ [][Next]_vars /\ WF_vars(\E r \in Request : Works(r))

-----------------------------------------------------------------------------
(***************************************************************************)
(* Properties                                                              *)
(***************************************************************************)
TypeOK ==
    /\ kind \in Mixes
    /\ verified \subseteq users /\ users \subseteq Email
    /\ session \in [Request -> SessionStates] /\ token \in [Request -> TokenStates]
    /\ holder \in [Request -> Request \cup {Nobody}]
    /\ mail \in [Request -> MailStates]
    /\ pc \in [Request -> Working \cup Answers]
    /\ shown \in [Request -> Request \cup {Nobody}]
    /\ fresh \in [Request -> BOOLEAN]
    /\ doomed \in [Request -> SUBSET Request] /\ overlapped \subseteq SUBSET Request

\* A link works once: of the requests that present it, in however many tabs, at
\* most one is answered "ok" (consume_token, double consumption).
LinkWorksOnce ==
    \A t \in Request :
        Cardinality({r \in Request : kind[r] = "verify" /\ shown[r] = t /\ pc[r] = "ok"}) <= 1

\* An address is verified exactly when one of its links was used, whatever
\* failed after the claim (consume_token).
VerifiedByLink ==
    \A u \in Email : u \in verified <=> \E t \in TokensOf(u) : token[t] = "consumed"

\* What a click is told is true: "already" means the link was used, and a link
\* that had not expired is called invalid only because a newer one replaced it
\* (consume_token against issue_token).
VerdictsTrue ==
    \A r \in Request : kind[r] = "verify" =>
        /\ pc[r] = "already" => shown[r] # Nobody /\ token[shown[r]] = "consumed"
        /\ pc[r] = "invalid" /\ fresh[r] => token[shown[r]] = "gone"

\* A link verifies its address, once, and says so truly to every tab that was
\* shown it (consume_token).
LinkTrue == LinkWorksOnce /\ VerifiedByLink /\ VerdictsTrue

\* Two links of an account are alive together only if the second issue began
\* before the first had committed: an issue that comes later leaves none of the
\* earlier links alive, though a click holds one of them and fails, or the
\* issue that was replacing it does (the DELETE of issue_token).
TwoLinksOnlyByRace ==
    \A u \in Email :
        \A s, t \in {x \in TokensOf(u) : IsLive(x)} : s # t => {s, t} \in overlapped

\* No request waits for ever, whatever rows two tabs and a re-issue fight over
\* and whichever of them fails.
EveryRequestEnds == <>[](\A r \in Request : pc[r] \in Answers \cup {"new"})
=============================================================================
