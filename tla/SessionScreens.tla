--------------------------- MODULE SessionScreens ---------------------------
(***************************************************************************)
(* Who is signed in, as one browser tab believes it (web/lib/session.tsx), *)
(* and the screens that follow from it: the sign-in form, the screens      *)
(* behind AppLayout with their VerifyBanner, and the page an e-mailed link *)
(* opens (web/app/verify/page.tsx).                                        *)
(*                                                                         *)
(* The session is an HttpOnly cookie: the tab knows of it only what        *)
(* GET /auth/me last told, and answers may overtake one another.           *)
(***************************************************************************)
EXTENDS Naturals

CONSTANTS Probe   \* GET /auth/me requests that may be under way at once (a bound)

VARIABLES
    cookie,     \* the browser holds a session the server accepts
    verified,   \* users.email_verified_at is set
    link,       \* what the token that is presented is worth: "good", "used", "bad"
    user,       \* null ("none"), or the user: "taster" or "verified"
    loading,    \* the first GET /auth/me has not been answered
    asks,       \* asks[k]: [state, answer, for, overtaken]
    screen,     \* "login", "app" or "verify"
    form,       \* the sign-in form: "idle", "submitting", "refused"
    leaving,    \* the logout request is under way
    url,        \* the tokens in the address: [fragment, query]
    hydrated,   \* the page has read its address in the browser
    started,    \* started.current: verify has been called
    verifying,  \* the verify request, and what the page then says
    resend,     \* the resend button: "idle", "sending", "sent"
    outdated    \* an answer arrived that was older than what the tab knew

session == <<cookie, verified, link, user, loading, asks, screen, form, leaving,
             url, hydrated, started, verifying, resend, outdated>>

NoToken == ""
NoAsk == [state |-> "idle", answer |-> "none", for |-> "none", overtaken |-> FALSE]
Me == IF ~cookie THEN "none" ELSE IF verified THEN "verified" ELSE "taster"

SessionInit ==
    /\ cookie \in BOOLEAN /\ verified \in BOOLEAN
    /\ link \in {"good", "used", "bad"}
    /\ link = "good" => ~verified
    /\ link = "used" => verified
    /\ user = "none"
    /\ \/ /\ loading = TRUE
          /\ LET first == CHOOSE k \in Probe : TRUE
             IN  asks = [[k \in Probe |-> NoAsk] EXCEPT ![first] = [@ EXCEPT !.state = "asked", !.for = "mount"]]
       \/ \* The tab has been open for a while, signed out.
          /\ loading = FALSE /\ asks = [k \in Probe |-> NoAsk]
    /\ screen \in {"login", "app", "verify"}
    /\ form = "idle" /\ leaving = FALSE
    /\ url \in [fragment : {NoToken, "a"}, query : {NoToken, "b"}] /\ hydrated = FALSE /\ started = FALSE /\ verifying = "none"
    /\ resend = "idle" /\ outdated = FALSE

\* The tab learns something newer than the answers still on their way.
OvertakeAnswers == [k \in Probe |-> [asks[k] EXCEPT !.overtaken = asks[k].state = "read"]]

-----------------------------------------------------------------------------
(***************************************************************************)
(* SessionProvider                                                         *)
(***************************************************************************)
MeRead(k) ==
    /\ asks[k].state = "asked"
    /\ asks' = [asks EXCEPT ![k] = [@ EXCEPT !.state = "read", !.answer = Me]]
    /\ UNCHANGED <<cookie, verified, link, user, loading, screen, form, leaving, url, hydrated,
                   started, verifying, resend, outdated>>

\* Any failure is taken for a 401. A refresh is followed by the page's "done".
MeArrives(k) ==
    /\ asks[k].state = "read"
    /\ \E lost \in BOOLEAN :
          /\ user' = IF lost THEN "none" ELSE asks[k].answer
          /\ outdated' = (outdated \/ asks[k].overtaken \/ lost)
    /\ loading' = (loading /\ asks[k].for # "mount")
    /\ verifying' = IF asks[k].for = "refresh" THEN "done" ELSE verifying
    /\ asks' = [asks EXCEPT ![k] = NoAsk]
    /\ UNCHANGED <<cookie, verified, link, screen, form, leaving, url, hydrated, started, resend>>

SignOut ==
    /\ screen = "app" /\ user # "none" /\ ~leaving
    /\ leaving' = TRUE
    /\ UNCHANGED <<cookie, verified, link, user, loading, asks, screen, form, url, hydrated,
                   started, verifying, resend, outdated>>

\* Whether or not the server answers, the tab is signed out; when it does not,
\* the error leaves onSignOut before it changes the address.
SignedOut ==
    /\ leaving
    /\ leaving' = FALSE
    /\ user' = "none"
    /\ asks' = OvertakeAnswers
    /\ \/ /\ cookie' = FALSE /\ screen' = "login"
       \/ UNCHANGED <<cookie, screen>>
    /\ UNCHANGED <<verified, link, loading, form, url, hydrated, started, verifying, resend, outdated>>

-----------------------------------------------------------------------------
(***************************************************************************)
(* The sign-in form and AppLayout's redirect                               *)
(***************************************************************************)
Submit ==
    /\ screen = "login" /\ form # "submitting"
    /\ form' = "submitting"
    /\ UNCHANGED <<cookie, verified, link, user, loading, asks, screen, leaving, url, hydrated,
                   started, verifying, resend, outdated>>

SignedIn ==
    /\ form = "submitting"
    /\ form' = "idle" /\ cookie' = TRUE /\ screen' = "app" /\ resend' = "idle"
    /\ user' = IF verified THEN "verified" ELSE "taster"
    /\ asks' = OvertakeAnswers
    /\ UNCHANGED <<verified, link, loading, leaving, url, hydrated, started, verifying, outdated>>

Refused ==
    /\ form = "submitting"
    /\ form' = "refused"
    /\ UNCHANGED <<cookie, verified, link, user, loading, asks, screen, leaving, url, hydrated,
                   started, verifying, resend, outdated>>

Redirect ==
    /\ screen = "app" /\ ~loading /\ user = "none"
    /\ screen' = "login" /\ form' = "idle"
    /\ UNCHANGED <<cookie, verified, link, user, loading, asks, leaving, url, hydrated, started,
                   verifying, resend, outdated>>

-----------------------------------------------------------------------------
(***************************************************************************)
(* The verify page                                                         *)
(***************************************************************************)
\* readVerifyToken: the fragment wins over the query of the older links.
ReadVerifyToken(address) == IF address.fragment # NoToken THEN address.fragment ELSE address.query

\* tokenState: what is not read yet is not taken for missing.
token == IF ~hydrated THEN "unknown" ELSE IF ReadVerifyToken(url) = NoToken THEN "missing" ELSE "present"

\* Hydration: useSyncExternalStore goes over to the address.
ReadAddress ==
    /\ screen = "verify" /\ ~hydrated
    /\ hydrated' = TRUE
    /\ UNCHANGED <<cookie, verified, link, user, loading, asks, screen, form, leaving, url,
                   started, verifying, resend, outdated>>

\* scrubQueryToken: the token moves from the query to the fragment.
Scrub ==
    /\ screen = "verify" /\ hydrated /\ url.query # NoToken
    /\ url' = [fragment |-> ReadVerifyToken(url), query |-> NoToken]
    /\ UNCHANGED <<cookie, verified, link, user, loading, asks, screen, form, leaving, hydrated,
                   started, verifying, resend, outdated>>

\* subscribeToAddress: another link is opened in the tab, and only the fragment
\* changes.
OpenAnother ==
    /\ screen = "verify" /\ hydrated /\ url.fragment # "c"
    /\ url' = [fragment |-> "c", query |-> url.query]
    /\ UNCHANGED <<cookie, verified, link, user, loading, asks, screen, form, leaving, hydrated,
                   started, verifying, resend, outdated>>

\* The effect presents the first token it sees, once; a development build runs
\* it twice.
Verify ==
    /\ screen = "verify" /\ token = "present" /\ ~started
    /\ started' = TRUE /\ verifying' = "asked"
    /\ UNCHANGED <<cookie, verified, link, user, loading, asks, screen, form, leaving,
                   url, hydrated, resend, outdated>>

\* POST /auth/verify at the server: only a link that is good verifies.
VerifiedThere ==
    /\ verifying = "asked"
    /\ verifying' = IF link = "good" THEN "accepted" ELSE "refused"
    /\ verified' = (verified \/ link = "good")
    /\ link' = IF link = "good" THEN "used" ELSE link
    /\ UNCHANGED <<cookie, user, loading, asks, screen, form, leaving, url, hydrated, started,
                   resend, outdated>>

\* Faulty: the page says "done" at once and leaves the user as it was.
DoneAtOnce(k) ==
    /\ verifying = "accepted" /\ asks[k].state = "idle"
    /\ verifying' = "done" /\ asks' = OvertakeAnswers
    /\ UNCHANGED <<cookie, verified, link, user, loading, screen, form, leaving, url, hydrated,
                   started, resend, outdated>>

\* The answer reaches the page, which refreshes the session before it says so.
RefreshAfter(k) ==
    /\ verifying = "accepted" /\ asks[k].state = "idle"
    /\ verifying' = "refreshing"
    /\ asks' = [OvertakeAnswers EXCEPT ![k] = [NoAsk EXCEPT !.state = "asked", !.for = "refresh"]]
    /\ UNCHANGED <<cookie, verified, link, user, loading, screen, form, leaving, url, hydrated,
                   started, resend, outdated>>

VerifyFails ==
    /\ verifying \in {"asked", "accepted", "refused"}
    /\ verifying' = "failed"
    /\ UNCHANGED <<cookie, verified, link, user, loading, asks, screen, form, leaving,
                   url, hydrated, started, resend, outdated>>

\* What VerifyInner shows.
Shows == IF token = "missing" THEN "failed"
         ELSE IF token = "present" /\ verifying \in {"done", "failed"} THEN verifying
         ELSE "checking"

\* ResendOrSignIn, or a link back: nothing on this page is a dead end.
WayOut == IF Shows = "done" THEN "back"
          ELSE IF Shows = "checking" \/ loading THEN "none"
          ELSE CASE user = "none" -> "login"
                 [] user = "taster" /\ resend # "sent" -> "resend"
                 [] OTHER -> "back"

Leave ==
    /\ screen = "verify" /\ WayOut \in {"back", "login"}
    /\ screen' = IF WayOut = "login" THEN "login" ELSE "app"
    /\ resend' = "idle"
    /\ UNCHANGED <<cookie, verified, link, user, loading, asks, form, leaving, url, hydrated,
                   started, verifying, outdated>>

-----------------------------------------------------------------------------
\* VerifyBanner and ResendOrSignIn: one button, three states.
Resend ==
    /\ screen = "app" \/ (screen = "verify" /\ WayOut = "resend")
    /\ user = "taster" /\ resend = "idle"
    /\ resend' = "sending"
    /\ UNCHANGED <<cookie, verified, link, user, loading, asks, screen, form, leaving,
                   url, hydrated, started, verifying, outdated>>

Resent ==
    /\ resend = "sending"
    /\ resend' \in {"sent", "idle"}
    /\ UNCHANGED <<cookie, verified, link, user, loading, asks, screen, form, leaving,
                   url, hydrated, started, verifying, outdated>>

\* The first answer may still be on its way while the user signs in or the
\* page verifies; a session also ends at the server, when it expires.
Expire ==
    /\ cookie /\ cookie' = FALSE
    /\ UNCHANGED <<verified, link, user, loading, asks, screen, form, leaving, url, hydrated,
                   started, verifying, resend, outdated>>

SessionNext ==
    \/ \E k \in Probe : MeRead(k) \/ MeArrives(k) \/ RefreshAfter(k)
    \/ SignOut \/ SignedOut \/ Submit \/ SignedIn \/ Refused \/ Redirect
    \/ ReadAddress \/ Scrub \/ OpenAnother \/ Verify \/ VerifiedThere \/ VerifyFails \/ Leave
    \/ Resend \/ Resent \/ Expire

\* The browser runs effects and delivers answers, or fails the requests.
SessionFair ==
    /\ \A k \in Probe : WF_session(MeRead(k)) /\ WF_session(MeArrives(k)) /\ WF_session(RefreshAfter(k))
    /\ WF_session(ReadAddress) /\ WF_session(Verify) /\ WF_session(VerifiedThere)
    /\ WF_session(verifying = "refused" /\ VerifyFails)
    /\ WF_session(SignedOut) /\ WF_session(Redirect)

-----------------------------------------------------------------------------
(***************************************************************************)
(* Properties                                                              *)
(***************************************************************************)
SessionTypeOK ==
    /\ {cookie, verified, loading, leaving, started, outdated} \subseteq BOOLEAN
    /\ user \in {"none", "taster", "verified"}
    /\ \A k \in Probe : asks[k].state \in {"idle", "asked", "read"}
    /\ screen \in {"login", "app", "verify"} /\ form \in {"idle", "submitting", "refused"}
    /\ hydrated \in BOOLEAN /\ resend \in {"idle", "sending", "sent"}
    /\ verifying \in {"none", "asked", "accepted", "refused", "refreshing", "done", "failed"}

\* As long as no answer arrives late or is lost: the page that says the address
\* is confirmed says it to a tab that no longer limits the user, and a good
\* link that was accepted is not shown as a failure by the same page later.
ConfirmedTold ==
    verifying = "done" => verified /\ (~outdated => user # "taster")

\* A screen behind AppLayout does not stay empty.
NeverBlank == (screen = "app" /\ ~loading /\ user = "none") ~> (screen = "login" \/ user # "none")

\* Every visit of the link ends in an answer and a way on.
LinkAnswers == (screen = "verify") ~> (WayOut # "none" \/ screen # "verify")
=============================================================================
