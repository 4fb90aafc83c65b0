---------------------------- MODULE ServingProofs ----------------------------
(***************************************************************************)
(* Theorems about Serving: the agents' gate, for every set of accounts,    *)
(* documents, settings and tokens; the rate limiter, for every rate, key   *)
(* and order of requests; the schema, for every age of a database and any  *)
(* number of processes and ways back; the way from a question to its       *)
(* answer, whatever is found and however it is scored; and the cutting of  *)
(* documents, for every document and every way to cut it.                  *)
(***************************************************************************)
EXTENDS Serving, Recursion, FiniteSetTheorems, SequenceTheorems, TLAPS

\* What is presented: a session, the token, or neither.
Bearers == User \cup {"jwt", "junk"}
ToolNames == {"search", "fetch", "list", "answer", "tools/list"} \cup ExtraTools
Callers == User \cup {Nobody}
CallScopes == {"all"} \cup Document \cup {NameOf[d] : d \in Document}
CallPlaces == {"idle", "jwt", "account", "session", "admit", "dispatch", "401", "told", "answered"}
              \cup Entered
Words == {"nothing", "needs-scope", "confirm-address", "search-limit", "no-such-document",
          "backend-down", "error", "model-out-of-quota", "model-unavailable",
          "no-such-collection", "authentication-required", "no-such-passage"}
Causes == {"none", "no-key", "scope", "rate-limit", "query-quota", "not-verified", "no-document",
           "no-account", "embedding-down", "reranker-down", "model-quota", "model-down", "bug"}

\* The record of a call (NoCall), and of the token of the identity provider.
Calls ==
    [pc : CallPlaces, bearer : Bearers, tool : ToolNames, of : CallScopes, dead : BOOLEAN,
     user : Callers, held : SUBSET AllScopes, scope : CallScopes, said : Words,
     cause : Causes, read : SUBSET Document, listed : SUBSET ToolNames]
Jwts == [flaw : {"none", "unverified"}, email : Callers, scopes : SUBSET AllScopes, live : BOOLEAN]

\* Types, and what is settled when the server comes up: its surface, its
\* settings, and that no shared cache keeps a list of tools.
GateOK ==
    /\ call \in Calls /\ jwt \in Jwts /\ surface \in Variants
    /\ users \subseteq User /\ session \in [User -> {"live", "expired", "gone"}]
    /\ stored \in [Document -> {"processing", "ready", "gone"}]
    /\ proxied = {} /\ shown \in [Bearers -> SUBSET ToolNames]
    /\ call.tool \in Tools \cup {"tools/list"}
    /\ server = "up" => mode \in Modes /\ (mode = "oauth" => "url" \notin blank)
    /\ call.pc # "idle" => server = "up"
    /\ call.pc = "generate" => call.tool = "answer"

-----------------------------------------------------------------------------
(***************************************************************************)
(* What each action does to the call, field by field.                      *)
(***************************************************************************)
\* What is presented stays.
BearerStays ==
    /\ call' \in Calls
    /\ call'.bearer = call.bearer /\ call'.tool = call.tool /\ call'.of = call.of
    /\ call'.dead = call.dead
\* So does whom it speaks for,
UserStays == call'.user = call.user /\ call'.held = call.held
\* what it has read and listed,
ReadsStay == call'.read = call.read /\ call'.listed = call.listed
\* what it is narrowed to,
ScopeStays == call'.scope = call.scope
\* and that nothing was said yet.
SaidStays == call'.said = call.said /\ call'.cause = call.cause
Tells(what, cause) == call'.pc = "told" /\ call'.said = what /\ call'.cause = cause

\* Every variant's tools are among the names.
LEMMA SurfaceTools ==
    surface \in Variants => surface.tools \subseteq {"search", "fetch", "list", "answer"}
                            /\ Tools \subseteq ToolNames
  BY DEF Variants, Production, Decomposed, QueryOnly, CollectionEnum, ServerAnswer, Tools,
     ToolNames

\* The updates of a call, named.
Reasons(p, k) == call' = [call EXCEPT !.pc = p, !.cause = k]
SpeaksFor(u, held) == call' = [call EXCEPT !.pc = "admit", !.user = u, !.held = held]
Narrows(p, s) == call' = [call EXCEPT !.pc = p, !.scope = s]
HasIn(p, S) == call' = [call EXCEPT !.pc = p, !.read = S]
Lists(L) == call' = [call EXCEPT !.pc = "answered", !.listed = L]

\* A call that only moves on keeps everything else.
LEMMA Moved ==
    ASSUME call \in Calls, NEW p \in CallPlaces, call' = [call EXCEPT !.pc = p]
    PROVE  /\ call'.pc = p
           /\ BearerStays /\ UserStays /\ ReadsStay /\ ScopeStays /\ SaidStays
  BY DEF Calls, BearerStays, UserStays, ReadsStay, ScopeStays, SaidStays

\* One that keeps a reason (VerifyJwt).
LEMMA Reasoned ==
    ASSUME call \in Calls, NEW p \in CallPlaces, NEW k \in Causes,
           Reasons(p, k)
    PROVE  /\ call'.pc = p /\ call'.said = call.said /\ call'.cause = k
           /\ BearerStays /\ UserStays /\ ReadsStay /\ ScopeStays
  BY DEF Reasons, Calls, BearerStays, UserStays, ReadsStay, ScopeStays

\* One that says something to the agent (Says).
LEMMA Told ==
    ASSUME call \in Calls, NEW what \in Words, NEW k \in Causes, Says(what, k)
    PROVE  /\ Tells(what, k)
           /\ BearerStays /\ UserStays /\ ReadsStay /\ ScopeStays
  BY DEF Says, Tells, Calls, CallPlaces, BearerStays, UserStays, ReadsStay, ScopeStays

\* One that finds whom it speaks for (FindAccount, VerifySession).
LEMMA Spoken ==
    ASSUME call \in Calls, NEW u \in Callers, NEW held \in SUBSET AllScopes,
           SpeaksFor(u, held)
    PROVE  /\ call'.pc = "admit" /\ call'.user = u
           /\ BearerStays /\ ReadsStay /\ ScopeStays /\ SaidStays
  BY DEF SpeaksFor, Calls, CallPlaces, BearerStays, ReadsStay, ScopeStays, SaidStays

\* One that is narrowed to a document (EnterTool, ResolveCollection).
LEMMA Narrowed ==
    ASSUME call \in Calls, NEW p \in CallPlaces, NEW s \in CallScopes,
           Narrows(p, s)
    PROVE  call'.pc = p /\ BearerStays /\ UserStays /\ ReadsStay /\ SaidStays
  BY DEF Narrows, Calls, BearerStays, UserStays, ReadsStay, SaidStays

\* One that reads (Retrieve, Fetch, ListCollections).
LEMMA HasRead ==
    ASSUME call \in Calls, NEW p \in CallPlaces, NEW S \in SUBSET Document,
           HasIn(p, S)
    PROVE  /\ call'.pc = p /\ call'.read = S /\ call'.listed = call.listed
           /\ BearerStays /\ UserStays /\ ScopeStays /\ SaidStays
  BY DEF HasIn, Calls, BearerStays, UserStays, ScopeStays, SaidStays

\* One that lists (ListTools).
LEMMA HasListed ==
    ASSUME call \in Calls, NEW L \in SUBSET ToolNames,
           Lists(L)
    PROVE  /\ call'.pc = "answered" /\ call'.listed = L /\ call'.read = call.read
           /\ BearerStays /\ UserStays /\ ScopeStays /\ SaidStays
  BY DEF Lists, Calls, CallPlaces, BearerStays, UserStays, ScopeStays, SaidStays

\* A call begins with a bearer that is dead by then or is not (Present).
PresentDoes ==
  /\ server = "up" /\ UNCHANGED <<config, users, session, jwt, stored, proxied, shown>>
  /\ call' \in Calls /\ call'.pc = "jwt" /\ call'.tool \in Tools \cup {"tools/list"}
  /\ call'.dead <=> Dead(call'.bearer)
  /\ call'.user = Nobody /\ call'.held = {} /\ call'.read = {} /\ call'.listed = {}
  /\ call'.said = "nothing"
\* The record it begins with (NoCall).
Begins(b, t, of, d) ==
    call' = [NoCall EXCEPT !.pc = "jwt", !.bearer = b, !.tool = t, !.of = of, !.dead = d]
\* Its fields.
LEMMA Begun ==
    ASSUME NEW b \in Bearers, NEW t \in ToolNames, NEW of \in CallScopes, NEW d \in BOOLEAN,
           Begins(b, t, of, d)
    PROVE  /\ call' \in Calls /\ call'.pc = "jwt" /\ call'.bearer = b /\ call'.tool = t
           /\ call'.dead = d
           /\ call'.user = Nobody /\ call'.held = {} /\ call'.read = {} /\ call'.listed = {}
           /\ call'.said = "nothing"
<1>1. "all" \in CallScopes /\ Nobody \in Callers
  BY DEF CallScopes, Callers
<1> QED
  BY <1>1 DEF Begins, NoCall, Calls, CallPlaces, Words, Causes
\* Present does that.
LEMMA PresentShape == GateOK /\ Present => PresentDoes
<1> SUFFICES ASSUME GateOK, Present PROVE PresentDoes
  OBVIOUS
<1>1. PICK b \in Bearers, t \in Tools \cup {"tools/list"}, of \in CallScopes :
         call' = [NoCall EXCEPT !.pc = "jwt", !.bearer = b, !.tool = t, !.of = of, !.dead = Dead(b)]
  <2>1. PICK b \in Bearers, t \in Tools \cup {"tools/list"} :
           \E of \in {"all"} \cup (IF t \in {"search", "answer"} THEN surface.args ELSE {}) :
              call' = [NoCall EXCEPT !.pc = "jwt", !.bearer = b, !.tool = t, !.of = of, !.dead = Dead(b)]
    BY Zenon DEF Present, Bearers
  <2>2. {"all"} \cup (IF t \in {"search", "answer"} THEN surface.args ELSE {}) \subseteq CallScopes
    BY DEF GateOK, CallScopes, Variants, Production, Decomposed, QueryOnly, CollectionEnum,
       ServerAnswer
  <2> QED
    BY <2>1, <2>2, Zenon
<1>2. Dead(b) \in BOOLEAN
  BY DEF Dead, Sound
<1>3. t \in ToolNames
  BY SurfaceTools DEF GateOK, ToolNames
<1>4. /\ call' \in Calls /\ call'.pc = "jwt" /\ call'.bearer = b /\ call'.tool = t
      /\ call'.dead = Dead(b)
      /\ call'.user = Nobody /\ call'.held = {} /\ call'.read = {} /\ call'.listed = {}
      /\ call'.said = "nothing"
  <2>1. Begins(b, t, of, Dead(b))
    BY <1>1 DEF Begins
  <2> QED
    BY <1>2, <1>3, <2>1, Begun
<1>5. server = "up" /\ UNCHANGED <<config, users, session, jwt, stored, proxied, shown>>
  BY Zenon DEF Present
<1>6. Dead(call'.bearer) <=> Dead(b)
  BY <1>4
<1> QED
  BY <1>4, <1>5, <1>6 DEF PresentDoes

\* A credential that is no JWT goes on to the session verifier (SkipJwt).
SkipJwtDoes ==
  /\ call.pc = "jwt" /\ Still
  /\ BearerStays /\ UserStays /\ ReadsStay /\ ScopeStays /\ SaidStays
  /\ call'.pc = "session" /\ (mode = "session" \/ call.bearer # "jwt")
\* SkipJwt does that.
LEMMA SkipJwtShape == GateOK /\ SkipJwt => SkipJwtDoes
  BY Moved DEF GateOK, SkipJwt, SkipJwtDoes, Moves, CallPlaces

\* A token is sound, or its key is missing, or it is not (VerifyJwt).
VerifyJwtDoes ==
  /\ call.pc = "jwt" /\ Still
  /\ BearerStays /\ UserStays /\ ReadsStay /\ ScopeStays
  /\ call'.said = call.said /\ call.bearer = "jwt"
  /\ \/ call'.pc = "account" /\ Sound(jwt)
     \/ call'.pc = "session" /\ (call'.cause = "no-key" \/ ~Sound(jwt))
\* VerifyJwt does that.
LEMMA VerifyJwtShape == GateOK /\ VerifyJwt => VerifyJwtDoes
<1> SUFFICES ASSUME GateOK, VerifyJwt PROVE VerifyJwtDoes
  OBVIOUS
<1>0. call.pc = "jwt" /\ call.bearer = "jwt" /\ Still
  BY Zenon DEF VerifyJwt
<1>1. \/ Reasons("account", "none") /\ Sound(jwt)
      \/ Reasons("session", "none") /\ ~Sound(jwt)
      \/ Reasons("session", "no-key")
  BY Zenon DEF VerifyJwt, Reasons
<1> QED
  BY <1>0, <1>1, Reasoned DEF GateOK, CallPlaces, Causes, VerifyJwtDoes

\* A sound token speaks for the account of its address (FindAccount).
FindAccountDoes ==
  /\ call.pc = "account" /\ Still
  /\ BearerStays /\ ReadsStay /\ ScopeStays /\ SaidStays
  /\ \/ jwt.email \in users /\ call'.pc = "admit" /\ call'.user = jwt.email
     \/ jwt.email \notin users /\ call'.pc = "session" /\ UserStays
\* FindAccount does that.
LEMMA FindAccountShape == GateOK /\ FindAccount => FindAccountDoes
<1> SUFFICES ASSUME GateOK, FindAccount PROVE FindAccountDoes
  OBVIOUS
<1>0. call.pc = "account" /\ Still
  BY Zenon DEF FindAccount
<1>1. jwt.email \in Callers /\ jwt.scopes \in SUBSET AllScopes
  BY DEF GateOK, Jwts
<1>2. CASE jwt.email \in users
  <2>1. SpeaksFor(jwt.email, jwt.scopes)
    BY <1>2 DEF FindAccount, SpeaksFor
  <2> QED
    BY <1>0, <1>1, <1>2, <2>1, Spoken DEF GateOK, FindAccountDoes
<1>3. CASE jwt.email \notin users
  <2>1. call' = [call EXCEPT !.pc = "session"]
    BY <1>3 DEF FindAccount
  <2> QED
    BY <1>0, <1>3, <2>1, Moved DEF GateOK, CallPlaces, FindAccountDoes
<1> QED
  BY <1>2, <1>3

\* A session speaks for its account (VerifySession).
VerifySessionDoes ==
  /\ BearerStays /\ ReadsStay /\ ScopeStays /\ SaidStays
  /\ \/ /\ call'.pc = "admit" /\ call'.user = call.bearer
        /\ call.bearer \in users /\ session[call.bearer] = "live"
     \/ /\ call'.pc = "401" /\ UserStays
        /\ \/ mode \notin {"session", "both"} \/ call.bearer \notin users
           \/ session[call.bearer] # "live"
\* VerifySession does that.
LEMMA VerifySessionShape == GateOK /\ VerifySession => VerifySessionDoes
<1> SUFFICES ASSUME GateOK, VerifySession PROVE VerifySessionDoes
  OBVIOUS
<1>1. CASE mode \in {"session", "both"} /\ call.bearer \in users /\ session[call.bearer] = "live"
  <2>1. SpeaksFor(call.bearer, AllScopes)
    BY <1>1 DEF VerifySession, GateOK, SpeaksFor
  <2>2. call.bearer \in Callers
    BY <1>1 DEF GateOK, Callers
  <2> QED
    BY <1>1, <2>1, <2>2, Spoken DEF GateOK, VerifySessionDoes
<1>2. CASE ~(mode \in {"session", "both"} /\ call.bearer \in users /\ session[call.bearer] = "live")
  <2>1. call' = [call EXCEPT !.pc = "401"]
    BY <1>2 DEF VerifySession, GateOK, Moves
  <2> QED
    BY <1>2, <2>1, Moved DEF GateOK, CallPlaces, VerifySessionDoes
<1> QED
  BY <1>1, <1>2

\* The middleware looks once more (Admit).
AdmitDoes ==
  /\ call.pc = "admit" /\ Still
  /\ BearerStays /\ UserStays /\ ReadsStay /\ ScopeStays /\ SaidStays
  /\ \/ call'.pc = "dispatch"
     \/ /\ call'.pc = "401"
        /\ \/ call.bearer = "jwt" /\ ~jwt.live
           \/ mode = "oauth" /\ Audience # "url"
\* Admit does that.
LEMMA AdmitShape == GateOK /\ Admit => AdmitDoes
  BY Moved DEF GateOK, Admit, AdmitDoes, Moves, CallPlaces, Modes

\* A list of tools holds what the scopes open (ListTools).
ListToolsDoes ==
  /\ BearerStays /\ UserStays /\ ScopeStays /\ SaidStays
  /\ call'.read = call.read /\ call'.listed = Visible(call.held)
  /\ call'.pc = "answered"
\* ListTools does that.
LEMMA ListToolsShape == GateOK /\ ListTools => ListToolsDoes
<1> SUFFICES ASSUME GateOK, ListTools PROVE ListToolsDoes
  OBVIOUS
<1>1. Lists(Visible(call.held))
  BY DEF ListTools, GateOK, Lists
<1>2. Visible(call.held) \in SUBSET ToolNames
  BY SurfaceTools DEF GateOK, Visible
<1> QED
  BY <1>1, <1>2, HasListed DEF GateOK, ListToolsDoes

\* A tool is entered with its scope, or refused for want of it (EnterTool).
EnterToolDoes ==
  /\ call.pc = "dispatch" /\ Still
  /\ BearerStays /\ UserStays /\ ReadsStay
  /\ \/ Tells("needs-scope", "scope") /\ ScopeStays /\ RequiredScope(call.tool) \notin call.held
     \/ call'.pc = "answered" /\ SaidStays
     \/ /\ call'.pc \in {"name", "user", "fetch", "list"} /\ SaidStays
        /\ RequiredScope(call.tool) \in call.held
\* EnterTool does that.
LEMMA EnterToolShape == GateOK /\ EnterTool => EnterToolDoes
<1> SUFFICES ASSUME GateOK, EnterTool PROVE EnterToolDoes
  OBVIOUS
<1>0. call.pc = "dispatch" /\ Still
  BY Zenon DEF EnterTool
<1>1. CASE ~Guarded(call.tool, call.held)
  <2>1. Says("needs-scope", "scope")
    BY <1>1 DEF EnterTool
  <2> QED
    BY <1>0, <1>1, <2>1, Told DEF GateOK, Words, Causes, Guarded, EnterToolDoes
<1>2. CASE Guarded(call.tool, call.held) /\ call.tool \in ExtraTools
  <2>1. call' = [call EXCEPT !.pc = "answered"]
    BY <1>2 DEF EnterTool, Moves
  <2> QED
    BY <1>0, <2>1, Moved DEF GateOK, CallPlaces, EnterToolDoes
<1>3. CASE Guarded(call.tool, call.held) /\ call.tool \notin ExtraTools
  <2>1. call.tool \in surface.tools /\ call.tool \in {"search", "fetch", "list", "answer"}
    BY <1>3, SurfaceTools DEF GateOK, Tools, EnterTool
  <2>2. RequiredScope(call.tool) \in call.held
    BY <1>3, <2>1 DEF Guarded, RequiredScope
  <2>3. PICK p \in {"name", "user", "fetch", "list"} :
           call' = [call EXCEPT !.pc = p] \/ Narrows(p, call.of)
    <3>1. CASE call.of \in {NameOf[d] : d \in Document}
      <4>1. call' = [call EXCEPT !.pc = "name"]
        BY <1>3, <3>1 DEF EnterTool, Moves
      <4> QED
        BY <4>1
    <3>2. CASE call.of \notin {NameOf[d] : d \in Document}
      <4> DEFINE p == IF call.tool \in {"search", "answer"} THEN "user" ELSE call.tool
      <4>1. Narrows(p, call.of)
        BY <1>3, <3>2 DEF EnterTool, Narrows
      <4>2. p \in {"name", "user", "fetch", "list"}
        BY <2>1
      <4> QED
        BY <4>1, <4>2
    <3> QED
      BY <3>1, <3>2
  <2>4. call.of \in CallScopes /\ p \in CallPlaces
    BY <2>3 DEF GateOK, Calls, CallPlaces, Entered
  <2>5. CASE call' = [call EXCEPT !.pc = p]
    BY <1>0, <2>2, <2>3, <2>4, <2>5, Moved DEF GateOK, EnterToolDoes
  <2>6. CASE Narrows(p, call.of)
    BY <1>0, <2>2, <2>3, <2>4, <2>6, Narrowed DEF GateOK, EnterToolDoes
  <2> QED
    BY <2>3, <2>5, <2>6
<1> QED
  BY <1>1, <1>2, <1>3

\* A name is a document of the account, or none has it (ResolveCollection).
ResolveCollectionDoes ==
  /\ call.pc = "name" /\ Still
  /\ BearerStays /\ UserStays /\ ReadsStay
  /\ \/ /\ Tells("no-such-collection", "no-document") /\ ScopeStays
        /\ Named(call.user, call.of) = {}
     \/ call'.pc = "user" /\ SaidStays
\* ResolveCollection does that.
LEMMA ResolveCollectionShape == GateOK /\ ResolveCollection => ResolveCollectionDoes
<1> SUFFICES ASSUME GateOK, ResolveCollection PROVE ResolveCollectionDoes
  OBVIOUS
<1>0. call.pc = "name" /\ Still
  BY Zenon DEF ResolveCollection
<1> USE DEF ResolveCollectionDoes
<1>1. CASE Named(call.user, call.of) = {} /\ Says("no-such-collection", "no-document")
  BY <1>0, <1>1, Told DEF GateOK, Words, Causes
<1>2. CASE \E d \in Named(call.user, call.of) : Narrows("user", d)
  <2>1. PICK d \in Document : Narrows("user", d)
    BY <1>2 DEF Named, Documents
  <2>2. d \in CallScopes
    BY DEF CallScopes
  <2> QED
    BY <1>0, <2>1, <2>2, Narrowed DEF GateOK, CallPlaces, Entered
<1> QED
  BY <1>1, <1>2, Zenon DEF ResolveCollection, Narrows

\* The account is there, or the caller is told that it is not (LoadUser).
LoadUserDoes ==
  /\ call.pc = "user" /\ Still
  /\ BearerStays /\ UserStays /\ ReadsStay /\ ScopeStays
  /\ \/ call'.pc = "limits" /\ SaidStays
     \/ Tells("authentication-required", "no-account") /\ call.user \notin users
\* LoadUser does that.
LEMMA LoadUserShape == GateOK /\ LoadUser => LoadUserDoes
  BY Told, Moved DEF GateOK, LoadUser, LoadUserDoes, Moves, CallPlaces, Entered, Words, Causes

\* What is said names its reason.
TellsWhy ==
    /\ call'.pc = "told"
    /\ call'.said \in {"confirm-address", "search-limit", "backend-down", "model-out-of-quota",
                       "model-unavailable", "no-such-document", "error"}
    /\ call'.said = "confirm-address" => call'.cause = "not-verified"
    /\ call'.said = "search-limit" => call'.cause \in {"rate-limit", "query-quota"}
    /\ call'.said = "backend-down" => call'.cause \in {"embedding-down", "reranker-down"}
    /\ call'.said = "model-out-of-quota" => call'.cause = "model-quota"
    /\ call'.said = "model-unavailable" => call'.cause = "model-down"
    /\ call'.said = "no-such-document" => call'.cause = "no-document"

\* So it does when the pipeline fails, unless a search should fail for the model
\* (ToToolError, ToAnswerToolError).
LEMMA FailsWhy ==
    ASSUME call \in Calls, NEW c \in {"rate-limit", "query-quota", "not-verified", "no-document",
                          "embedding-down", "reranker-down", "model-quota", "model-down", "bug"},
           Fails(c), call.tool = "answer" \/ c \notin {"model-quota", "model-down"}
    PROVE  /\ TellsWhy /\ call'.cause = c
           /\ BearerStays /\ UserStays /\ ReadsStay /\ ScopeStays
<1> DEFINE told == IF call.tool = "answer" THEN ToAnswerToolError(c) ELSE ToToolError(c)
<1>1. call' = [call EXCEPT !.pc = "told", !.said = told, !.cause = c]
  BY DEF Fails, Says
<1>2. told \in Words
  BY DEF ToAnswerToolError, ToToolError, StatusOf, Words
<1>3. /\ call' \in Calls /\ call'.pc = "told" /\ call'.said = told /\ call'.cause = c
      /\ BearerStays /\ UserStays /\ ReadsStay /\ ScopeStays
  <2> HIDE DEF told
  <2> QED
    BY <1>1, <1>2 DEF Calls, CallPlaces, Causes, BearerStays, UserStays, ReadsStay, ScopeStays
<1>4. TellsWhy
  BY <1>3 DEF TellsWhy, ToAnswerToolError, ToToolError, StatusOf
<1> QED
  BY <1>3, <1>4

\* The limits let it through, or their reason is given (EnforceLimits).
EnforceLimitsDoes ==
  /\ call.pc = "limits" /\ Still
  /\ BearerStays /\ UserStays /\ ReadsStay /\ ScopeStays
  /\ \/ call'.pc = "scope" /\ SaidStays
     \/ TellsWhy /\ call'.cause # "no-document"
\* EnforceLimits does that.
LEMMA EnforceLimitsShape == GateOK /\ EnforceLimits => EnforceLimitsDoes
<1> SUFFICES ASSUME GateOK, EnforceLimits PROVE EnforceLimitsDoes
  OBVIOUS
<1>0. call.pc = "limits" /\ Still
  BY Zenon DEF EnforceLimits
<1> USE DEF EnforceLimitsDoes
<1>1. CASE Moves("scope")
  BY <1>0, <1>1, Moved DEF GateOK, Moves, CallPlaces, Entered
<1>2. ASSUME NEW c \in {"rate-limit", "query-quota", "not-verified"}, Fails(c) PROVE EnforceLimitsDoes
  BY <1>0, <1>2, FailsWhy DEF GateOK
<1> QED
  BY <1>1, <1>2 DEF EnforceLimits

\* The document is the account's, or the caller is told that there is none (ResolveScope).
ResolveScopeDoes ==
  /\ call.pc = "scope" /\ Still
  /\ BearerStays /\ UserStays /\ ReadsStay /\ ScopeStays
  /\ \/ call'.pc = "retrieve" /\ SaidStays
     \/ TellsWhy /\ call.scope \notin Documents(call.user)
\* ResolveScope does that.
LEMMA ResolveScopeShape == GateOK /\ ResolveScope => ResolveScopeDoes
  BY Moved, FailsWhy DEF GateOK, ResolveScope, ResolveScopeDoes, Moves, CallPlaces, Entered

\* What is read is the account's, or the reason is given (Retrieve).
RetrieveDoes ==
  /\ call.pc = "retrieve" /\ Still
  /\ BearerStays /\ UserStays /\ ScopeStays
  /\ call'.listed = call.listed
  /\ \/ /\ call'.pc \in {"generate", "answered"} /\ SaidStays
        /\ call'.pc = "generate" => call.tool = "answer"
        /\ call'.read = Readable(call.user, call.scope)
     \/ TellsWhy /\ call'.cause # "no-document" /\ ReadsStay
\* Retrieve does that.
LEMMA RetrieveShape == GateOK /\ Retrieve => RetrieveDoes
<1> SUFFICES ASSUME GateOK, Retrieve PROVE RetrieveDoes
  OBVIOUS
<1>0. call.pc = "retrieve" /\ Still
  BY Zenon DEF Retrieve
<1> DEFINE p == IF call.tool = "answer" THEN "generate" ELSE "answered"
<1> USE DEF RetrieveDoes
<1>1. CASE HasIn(p, Readable(call.user, call.scope))
  <2>1. p \in CallPlaces /\ p \in {"generate", "answered"} /\ (p = "generate" => call.tool = "answer")
    BY DEF CallPlaces, Entered
  <2>2. Readable(call.user, call.scope) \in SUBSET Document
    BY DEF Readable, Documents
  <2> HIDE DEF p
  <2> QED
    BY <1>0, <1>1, <2>1, <2>2, HasRead DEF GateOK
<1>2. CASE \E c \in {"embedding-down", "reranker-down", "bug"} : Fails(c)
  BY <1>0, <1>2, FailsWhy DEF GateOK, ReadsStay
<1> QED
  BY <1>1, <1>2 DEF Retrieve, HasIn

\* The model answers, or its reason is given (Generate).
GenerateDoes ==
  /\ call.pc = "generate" /\ Still
  /\ BearerStays /\ UserStays /\ ReadsStay /\ ScopeStays
  /\ \/ call'.pc = "answered" /\ SaidStays
     \/ TellsWhy /\ call'.cause # "no-document"
\* Generate does that.
LEMMA GenerateShape == GateOK /\ Generate => GenerateDoes
<1> SUFFICES ASSUME GateOK, Generate PROVE GenerateDoes
  OBVIOUS
<1>0. call.pc = "generate" /\ Still
  BY Zenon DEF Generate
<1> USE DEF GenerateDoes
<1>1. CASE Moves("answered")
  BY <1>0, <1>1, Moved DEF GateOK, Moves, CallPlaces
<1>2. CASE \E c \in {"model-quota", "model-down", "bug"} : Fails(c)
  <2>1. PICK c \in {"model-quota", "model-down", "bug"} : Fails(c)
    BY <1>2
  <2> QED
    BY <1>0, <2>1, FailsWhy DEF GateOK, Causes
<1> QED
  BY <1>1, <1>2 DEF Generate

\* One passage is read, of a document of the account (Fetch).
FetchDoes ==
  /\ call.pc = "fetch" /\ Still
  /\ BearerStays /\ UserStays /\ ScopeStays
  /\ call'.listed = call.listed
  /\ \/ /\ call'.pc = "answered" /\ SaidStays
        /\ call'.read \subseteq Readable(call.user, "all")
     \/ Tells("no-such-passage", "no-document") /\ ReadsStay
\* Fetch does that.
LEMMA FetchShape == GateOK /\ Fetch => FetchDoes
<1> SUFFICES ASSUME GateOK, Fetch PROVE FetchDoes
  OBVIOUS
<1>0. call.pc = "fetch" /\ Still
  BY Zenon DEF Fetch
<1>1. PICK d \in Document :
         IF d \in Readable(call.user, "all")
         THEN HasIn("answered", {d}) ELSE Says("no-such-passage", "no-document")
  BY Zenon DEF Fetch, HasIn
<1>2. CASE d \in Readable(call.user, "all")
  <2>1. HasIn("answered", {d})
    BY <1>1, <1>2
  <2> QED
    BY <1>0, <1>2, <2>1, HasRead DEF GateOK, CallPlaces, FetchDoes
<1>3. CASE d \notin Readable(call.user, "all")
  BY <1>0, <1>1, <1>3, Told DEF GateOK, Words, Causes, ReadsStay, FetchDoes
<1> QED
  BY <1>2, <1>3

\* The documents of the account are read (ListCollections).
ListCollectionsDoes ==
  /\ call.pc = "list" /\ Still
  /\ BearerStays /\ UserStays /\ ScopeStays /\ SaidStays
  /\ call'.listed = call.listed
  /\ call'.pc = "answered" /\ call'.read = Readable(call.user, "all")
\* ListCollections does that.
LEMMA ListCollectionsShape == GateOK /\ ListCollections => ListCollectionsDoes
<1> SUFFICES ASSUME GateOK, ListCollections PROVE ListCollectionsDoes
  OBVIOUS
<1>0. call.pc = "list" /\ Still
  BY Zenon DEF ListCollections
<1>1. HasIn("answered", Readable(call.user, "all"))
  BY DEF ListCollections, HasIn
<1>2. Readable(call.user, "all") \in SUBSET Document
  BY DEF Readable, Documents
<1> QED
  BY <1>0, <1>1, <1>2, HasRead DEF GateOK, CallPlaces, ListCollectionsDoes


-----------------------------------------------------------------------------
(***************************************************************************)
(* What holds of a call wherever it is.                                    *)
(***************************************************************************)

\* Types, and what is settled when the server comes up (BuildServer).
LEMMA GateStep == GateOK /\ [GateNext]_gate => GateOK'
<1> SUFFICES ASSUME GateOK, [GateNext]_gate PROVE GateOK'
  OBVIOUS
<1> USE AgentAssumption DEF GateOK, Bearers, Modes, Tools, Jwts, BearerStays, UserStays,
     ReadsStay, ScopeStays, SaidStays, Tells, TellsWhy, Still, config
<1>1. ASSUME BuildServer PROVE GateOK'
  BY <1>1 DEF BuildServer, ValidateSettings, Missing, Audience
<1>2. ASSUME Present PROVE GateOK'
  BY <1>2, PresentShape DEF PresentDoes
<1>3. ASSUME SkipJwt PROVE GateOK'
  BY <1>3, SkipJwtShape DEF SkipJwtDoes
<1>4. ASSUME VerifyJwt PROVE GateOK'
  BY <1>4, VerifyJwtShape DEF VerifyJwtDoes
<1>5. ASSUME FindAccount PROVE GateOK'
  BY <1>5, FindAccountShape DEF FindAccountDoes
<1>6. ASSUME VerifySession PROVE GateOK'
  BY <1>6, VerifySessionShape DEF VerifySession, VerifySessionDoes
<1>7. ASSUME Admit PROVE GateOK'
  BY <1>7, AdmitShape DEF AdmitDoes
<1>8. ASSUME ListTools PROVE GateOK'
  <2>1. Visible(call.held) \in SUBSET ToolNames
    BY SurfaceTools DEF Visible
  <2>2. proxied' = {} /\ UNCHANGED <<config, users, session, jwt, stored>>
    BY <1>8 DEF ListTools, CacheScope
  <2>3. shown' \in [Bearers -> SUBSET ToolNames]
    <3>1. shown' = [shown EXCEPT ![call.bearer] = IF call.held = HeldNow(call.bearer)
                                                  THEN Visible(call.held) ELSE shown[call.bearer]]
      BY <1>8 DEF ListTools
    <3>2. call.bearer \in Bearers
      BY DEF Calls
    <3> QED
      BY <2>1, <3>1, <3>2
  <2> QED
    BY <1>8, <2>2, <2>3, ListToolsShape DEF ListTools, ListToolsDoes, BearerStays, config
<1>9. ASSUME EnterTool PROVE GateOK'
  BY <1>9, EnterToolShape DEF EnterToolDoes
<1>10. ASSUME ResolveCollection PROVE GateOK'
  BY <1>10, ResolveCollectionShape DEF ResolveCollectionDoes
<1>11. ASSUME LoadUser PROVE GateOK'
  BY <1>11, LoadUserShape DEF LoadUserDoes
<1>12. ASSUME EnforceLimits PROVE GateOK'
  BY <1>12, EnforceLimitsShape DEF EnforceLimitsDoes
<1>13. ASSUME ResolveScope PROVE GateOK'
  BY <1>13, ResolveScopeShape DEF ResolveScopeDoes
<1>14. ASSUME Retrieve PROVE GateOK'
  BY <1>14, RetrieveShape DEF RetrieveDoes
<1>15. ASSUME Generate PROVE GateOK'
  BY <1>15, GenerateShape DEF GenerateDoes
<1>16. ASSUME Fetch PROVE GateOK'
  BY <1>16, FetchShape DEF FetchDoes
<1>17. ASSUME ListCollections PROVE GateOK'
  BY <1>17, ListCollectionsShape DEF ListCollectionsDoes
<1>18. ASSUME ExpireJwt PROVE GateOK'
  BY <1>18 DEF ExpireJwt, Changes
<1>19. ASSUME Reauthorize PROVE GateOK'
  BY <1>19 DEF Reauthorize, Changes
<1>20. ASSUME NEW u \in User, ExpireSession(u) PROVE GateOK'
  BY <1>20 DEF ExpireSession, Changes
<1>21. ASSUME NEW u \in User, Logout(u) PROVE GateOK'
  BY <1>21 DEF Logout, Changes
<1>22. ASSUME NEW u \in User, RemoveUser(u) PROVE GateOK'
  BY <1>22 DEF RemoveUser, Changes, Here
<1>23. ASSUME NEW d \in Document, IndexDocument(d) PROVE GateOK'
  BY <1>23 DEF IndexDocument, Changes
<1>24. ASSUME NEW d \in Document, DeleteDocument(d) PROVE GateOK'
  BY <1>24 DEF DeleteDocument, Changes, Here
<1>25. CASE UNCHANGED gate
  BY <1>25, SMTT(30) DEF gate
<1> QED
  BY <1>1, <1>2, <1>3, <1>4, <1>5, <1>6, <1>7, <1>8, <1>9, <1>10, <1>11, <1>12,
     <1>13, <1>14, <1>15, <1>16, <1>17, <1>18, <1>19, <1>20, <1>21, <1>22, <1>23, <1>24, <1>25 DEF GateNext

\* Whom a call speaks for, and what its bearer can be by the time it is turned
\* away: a bearer that was dead when it was presented stays so.
BearerInv ==
    /\ call.user # Nobody => call.user = Principal
    /\ \A d \in call.read : Owner[d] = call.user
    /\ call.dead => Dead(call.bearer) /\ call.pc \in {"jwt", "account", "session", "401"}
    /\ call.pc \in {"jwt", "account", "session"} => call.user = Nobody /\ call.read = {}
    /\ call.pc = "account" => /\ call.bearer = "jwt" /\ jwt.flaw = "none"
                              /\ call.dead => jwt.email \notin users
    /\ call.pc = "session" /\ call.bearer = "jwt" =>
          Dead("jwt") \/ mode = "session" \/ call.cause = "no-key"
    /\ call.pc = "401" /\ ~Dead(call.bearer) =>
          \/ call.bearer = "jwt" /\ (mode = "session" \/ call.cause = "no-key" \/ (mode = "oauth" /\ apart))
          \/ call.bearer # "jwt" /\ mode = "oauth"

\* A dead bearer stays dead, and what is read is the account's (the verifiers,
\* Retrieve, Fetch).
LEMMA BearerStep == GateOK /\ BearerInv /\ [GateNext]_gate => BearerInv'
<1> SUFFICES ASSUME GateOK, BearerInv, [GateNext]_gate PROVE BearerInv'
  OBVIOUS
<1> USE AgentAssumption DEF GateOK, BearerInv, Bearers, Modes, Dead, Sound, Principal,
     Jwts, Readable, Documents, Audience, BearerStays, UserStays, ReadsStay, ScopeStays,
     SaidStays, Tells, TellsWhy, Still, config
<1>1. ASSUME BuildServer PROVE BearerInv'
  BY <1>1 DEF BuildServer
<1>2. ASSUME Present PROVE BearerInv'
  BY <1>2, PresentShape DEF PresentDoes
<1>3. ASSUME SkipJwt PROVE BearerInv'
  BY <1>3, SkipJwtShape DEF SkipJwtDoes
<1>4. ASSUME VerifyJwt PROVE BearerInv'
  BY <1>4, VerifyJwtShape DEF VerifyJwtDoes
<1>5. ASSUME FindAccount PROVE BearerInv'
  BY <1>5, FindAccountShape DEF FindAccountDoes
<1>6. ASSUME VerifySession PROVE BearerInv'
  <2>1. /\ call.pc = "session" /\ UNCHANGED <<config, users, jwt>>
        /\ \A u \in User : session'[u] = "live" => session[u] = "live"
    BY <1>6 DEF VerifySession
  <2>2. VerifySessionDoes /\ BearerStays /\ ReadsStay /\ SaidStays
    BY <1>6, VerifySessionShape DEF VerifySessionDoes
  <2>3. Dead(call.bearer) => Dead(call.bearer)'
    BY <2>1, <2>2, AgentAssumption DEF BearerStays, config
  <2>4. CASE call'.pc = "admit"
    BY <2>1, <2>2, <2>3, <2>4, AgentAssumption DEF VerifySessionDoes, BearerStays,
       ReadsStay, SaidStays, config
  <2>5. CASE call'.pc = "401"
    <3>1. /\ call'.pc = "401" /\ call'.user = Nobody /\ call'.read = {}
          /\ call'.bearer = call.bearer /\ call'.dead = call.dead /\ call'.cause = call.cause
          /\ mode' = mode /\ apart' = apart
          /\ Dead(call.bearer) => Dead(call.bearer)'
      BY <2>1, <2>2, <2>3, <2>5, AgentAssumption
         DEF VerifySessionDoes
    <3>2. call.bearer = "jwt" /\ ~Dead(call.bearer) => mode = "session" \/ call.cause = "no-key"
      BY <2>1
    <3>3. call.bearer # "jwt" /\ ~Dead(call.bearer) => mode = "oauth"
      <4>1. mode \in {"session", "oauth", "both"}
        BY <2>1
      <4>2. call.bearer # "jwt" /\ ~Dead(call.bearer) =>
               call.bearer \in users /\ session[call.bearer] = "live"
        OBVIOUS
      <4> QED
        BY <2>2, <2>5, <4>1, <4>2 DEF VerifySessionDoes
    <3> HIDE DEF Dead, Sound, GateOK
    <3> QED
      BY <2>1, <3>1, <3>2, <3>3
  <2> QED
    BY <2>2, <2>4, <2>5 DEF VerifySessionDoes
<1>7. ASSUME Admit PROVE BearerInv'
  BY <1>7, AdmitShape DEF AdmitDoes
<1>8. ASSUME ListTools PROVE BearerInv'
  BY <1>8, ListToolsShape DEF ListTools, ListToolsDoes
<1>9. ASSUME EnterTool PROVE BearerInv'
  BY <1>9, EnterToolShape DEF EnterToolDoes
<1>10. ASSUME ResolveCollection PROVE BearerInv'
  BY <1>10, ResolveCollectionShape DEF ResolveCollectionDoes
<1>11. ASSUME LoadUser PROVE BearerInv'
  BY <1>11, LoadUserShape DEF LoadUserDoes
<1>12. ASSUME EnforceLimits PROVE BearerInv'
  BY <1>12, EnforceLimitsShape DEF EnforceLimitsDoes
<1>13. ASSUME ResolveScope PROVE BearerInv'
  BY <1>13, ResolveScopeShape DEF ResolveScopeDoes
<1>14. ASSUME Retrieve PROVE BearerInv'
  BY <1>14, RetrieveShape DEF RetrieveDoes
<1>15. ASSUME Generate PROVE BearerInv'
  BY <1>15, GenerateShape DEF GenerateDoes
<1>16. ASSUME Fetch PROVE BearerInv'
  BY <1>16, FetchShape DEF FetchDoes
<1>17. ASSUME ListCollections PROVE BearerInv'
  BY <1>17, ListCollectionsShape DEF ListCollectionsDoes
<1>18. ASSUME ExpireJwt PROVE BearerInv'
  BY <1>18 DEF ExpireJwt, Changes
<1>19. ASSUME Reauthorize PROVE BearerInv'
  BY <1>19 DEF Reauthorize, Changes
<1>20. ASSUME NEW u \in User, ExpireSession(u) PROVE BearerInv'
  BY <1>20 DEF ExpireSession, Changes
<1>21. ASSUME NEW u \in User, Logout(u) PROVE BearerInv'
  BY <1>21 DEF Logout, Changes
<1>22. ASSUME NEW u \in User, RemoveUser(u) PROVE BearerInv'
  BY <1>22 DEF RemoveUser, Changes, Here
<1>23. ASSUME NEW d \in Document, IndexDocument(d) PROVE BearerInv'
  BY <1>23 DEF IndexDocument, Changes
<1>24. ASSUME NEW d \in Document, DeleteDocument(d) PROVE BearerInv'
  BY <1>24 DEF DeleteDocument, Changes, Here
<1>25. CASE UNCHANGED gate
  BY <1>25, SMTT(30) DEF gate
<1> QED
  BY <1>1, <1>2, <1>3, <1>4, <1>5, <1>6, <1>7, <1>8, <1>9, <1>10, <1>11, <1>12,
     <1>13, <1>14, <1>15, <1>16, <1>17, <1>18, <1>19, <1>20, <1>21, <1>22, <1>23, <1>24, <1>25 DEF GateNext

\* What a call was listed, and what it may enter: nothing is listed to a
\* credential that its scopes do not open.
OpenInv ==
    /\ \A b \in Bearers : shown[b] \subseteq Visible(HeldNow(b))
    /\ call.pc # "answered" => call.listed = {}
    /\ call.pc = "answered" => \A t \in call.listed : RequiredScope(t) \in call.held
    /\ call.pc # "told" => call.said = "nothing"
    /\ call.said = "needs-scope" => RequiredScope(call.tool) \notin call.held
    /\ call.pc \in Entered => RequiredScope(call.tool) \in call.held

\* What is listed opens, and is asked for again when scopes change (ListTools,
\* EnterTool, Reauthorize).
LEMMA OpenStep == GateOK /\ OpenInv /\ [GateNext]_gate => OpenInv'
<1> SUFFICES ASSUME GateOK, OpenInv, [GateNext]_gate PROVE OpenInv'
  OBVIOUS
<1> USE AgentAssumption DEF GateOK, OpenInv, Bearers, Jwts, Calls, Entered, Visible,
     HeldNow, RequiredScope, Tools, BearerStays, UserStays, ReadsStay, ScopeStays,
     SaidStays, Tells, TellsWhy, Still, config
<1>1. ASSUME BuildServer PROVE OpenInv'
  BY <1>1 DEF BuildServer
<1>2. ASSUME Present PROVE OpenInv'
  BY <1>2, PresentShape DEF PresentDoes
<1>3. ASSUME SkipJwt PROVE OpenInv'
  BY <1>3, SkipJwtShape DEF SkipJwtDoes
<1>4. ASSUME VerifyJwt PROVE OpenInv'
  BY <1>4, VerifyJwtShape DEF VerifyJwtDoes
<1>5. ASSUME FindAccount PROVE OpenInv'
  BY <1>5, FindAccountShape DEF FindAccountDoes
<1>6. ASSUME VerifySession PROVE OpenInv'
  BY <1>6, VerifySessionShape DEF VerifySession, VerifySessionDoes
<1>7. ASSUME Admit PROVE OpenInv'
  BY <1>7, AdmitShape DEF AdmitDoes
<1>8. ASSUME ListTools PROVE OpenInv'
  BY <1>8, ListToolsShape DEF ListTools, ListToolsDoes
<1>9. ASSUME EnterTool PROVE OpenInv'
  BY <1>9, EnterToolShape DEF EnterToolDoes
<1>10. ASSUME ResolveCollection PROVE OpenInv'
  BY <1>10, ResolveCollectionShape DEF ResolveCollectionDoes
<1>11. ASSUME LoadUser PROVE OpenInv'
  BY <1>11, LoadUserShape DEF LoadUserDoes
<1>12. ASSUME EnforceLimits PROVE OpenInv'
  BY <1>12, EnforceLimitsShape DEF EnforceLimitsDoes
<1>13. ASSUME ResolveScope PROVE OpenInv'
  BY <1>13, ResolveScopeShape DEF ResolveScopeDoes
<1>14. ASSUME Retrieve PROVE OpenInv'
  BY <1>14, RetrieveShape DEF RetrieveDoes
<1>15. ASSUME Generate PROVE OpenInv'
  BY <1>15, GenerateShape DEF GenerateDoes
<1>16. ASSUME Fetch PROVE OpenInv'
  BY <1>16, FetchShape DEF FetchDoes
<1>17. ASSUME ListCollections PROVE OpenInv'
  BY <1>17, ListCollectionsShape DEF ListCollectionsDoes
<1>18. ASSUME ExpireJwt PROVE OpenInv'
  BY <1>18 DEF ExpireJwt, Changes
<1>19. ASSUME Reauthorize PROVE OpenInv'
  BY <1>19 DEF Reauthorize, Changes
<1>20. ASSUME NEW u \in User, ExpireSession(u) PROVE OpenInv'
  BY <1>20 DEF ExpireSession, Changes
<1>21. ASSUME NEW u \in User, Logout(u) PROVE OpenInv'
  BY <1>21 DEF Logout, Changes
<1>22. ASSUME NEW u \in User, RemoveUser(u) PROVE OpenInv'
  BY <1>22 DEF RemoveUser, Changes, Here
<1>23. ASSUME NEW d \in Document, IndexDocument(d) PROVE OpenInv'
  BY <1>23 DEF IndexDocument, Changes
<1>24. ASSUME NEW d \in Document, DeleteDocument(d) PROVE OpenInv'
  BY <1>24 DEF DeleteDocument, Changes, Here
<1>25. CASE UNCHANGED gate
  BY <1>25 DEF gate
<1> QED
  BY <1>1, <1>2, <1>3, <1>4, <1>5, <1>6, <1>7, <1>8, <1>9, <1>10, <1>11, <1>12,
     <1>13, <1>14, <1>15, <1>16, <1>17, <1>18, <1>19, <1>20, <1>21, <1>22, <1>23, <1>24, <1>25 DEF GateNext

\* A refusal stays true: accounts and documents that are gone do not come back.
LEMMA RefusalStep == GateOK /\ OpenInv /\ RefusalTrue /\ [GateNext]_gate => RefusalTrue'
<1> SUFFICES ASSUME GateOK, OpenInv, RefusalTrue, [GateNext]_gate PROVE RefusalTrue'
  OBVIOUS
<1> USE AgentAssumption DEF GateOK, OpenInv, RefusalTrue, Jwts, Documents, Here, Named,
     BearerStays, UserStays, ReadsStay, ScopeStays, SaidStays, Tells, TellsWhy, Still,
     config
<1>1. ASSUME BuildServer PROVE RefusalTrue'
  BY <1>1 DEF BuildServer
<1>2. ASSUME Present PROVE RefusalTrue'
  BY <1>2, PresentShape DEF PresentDoes
<1>3. ASSUME SkipJwt PROVE RefusalTrue'
  BY <1>3, SkipJwtShape DEF SkipJwtDoes
<1>4. ASSUME VerifyJwt PROVE RefusalTrue'
  BY <1>4, VerifyJwtShape DEF VerifyJwtDoes
<1>5. ASSUME FindAccount PROVE RefusalTrue'
  BY <1>5, FindAccountShape DEF FindAccountDoes
<1>6. ASSUME VerifySession PROVE RefusalTrue'
  BY <1>6, VerifySessionShape DEF VerifySession, VerifySessionDoes
<1>7. ASSUME Admit PROVE RefusalTrue'
  BY <1>7, AdmitShape DEF AdmitDoes
<1>8. ASSUME ListTools PROVE RefusalTrue'
  BY <1>8, ListToolsShape DEF ListTools, ListToolsDoes
<1>9. ASSUME EnterTool PROVE RefusalTrue'
  BY <1>9, EnterToolShape DEF EnterToolDoes
<1>10. ASSUME ResolveCollection PROVE RefusalTrue'
  BY <1>10, ResolveCollectionShape DEF ResolveCollectionDoes
<1>11. ASSUME LoadUser PROVE RefusalTrue'
  BY <1>11, LoadUserShape DEF LoadUserDoes
<1>12. ASSUME EnforceLimits PROVE RefusalTrue'
  BY <1>12, EnforceLimitsShape DEF EnforceLimitsDoes
<1>13. ASSUME ResolveScope PROVE RefusalTrue'
  BY <1>13, ResolveScopeShape DEF ResolveScopeDoes
<1>14. ASSUME Retrieve PROVE RefusalTrue'
  BY <1>14, RetrieveShape DEF RetrieveDoes
<1>15. ASSUME Generate PROVE RefusalTrue'
  BY <1>15, GenerateShape DEF GenerateDoes
<1>16. ASSUME Fetch PROVE RefusalTrue'
  BY <1>16, FetchShape DEF FetchDoes
<1>17. ASSUME ListCollections PROVE RefusalTrue'
  BY <1>17, ListCollectionsShape DEF ListCollectionsDoes
<1>18. ASSUME ExpireJwt PROVE RefusalTrue'
  BY <1>18 DEF ExpireJwt, Changes
<1>19. ASSUME Reauthorize PROVE RefusalTrue'
  BY <1>19 DEF Reauthorize, Changes
<1>20. ASSUME NEW u \in User, ExpireSession(u) PROVE RefusalTrue'
  BY <1>20 DEF ExpireSession, Changes
<1>21. ASSUME NEW u \in User, Logout(u) PROVE RefusalTrue'
  BY <1>21 DEF Logout, Changes
<1>22. ASSUME NEW u \in User, RemoveUser(u) PROVE RefusalTrue'
  BY <1>22 DEF RemoveUser, Changes, Here
<1>23. ASSUME NEW d \in Document, IndexDocument(d) PROVE RefusalTrue'
  BY <1>23 DEF IndexDocument, Changes
<1>24. ASSUME NEW d \in Document, DeleteDocument(d) PROVE RefusalTrue'
  BY <1>24 DEF DeleteDocument, Changes, Here
<1>25. CASE UNCHANGED gate
  BY <1>25 DEF gate
<1> QED
  BY <1>1, <1>2, <1>3, <1>4, <1>5, <1>6, <1>7, <1>8, <1>9, <1>10, <1>11, <1>12,
     <1>13, <1>14, <1>15, <1>16, <1>17, <1>18, <1>19, <1>20, <1>21, <1>22, <1>23, <1>24, <1>25 DEF GateNext

-----------------------------------------------------------------------------
(***************************************************************************)
(* The burst limits: a bucket holds what the promise has left.             *)
(***************************************************************************)
Keys == UNION {{r.keys[n] : n \in DOMAIN r.keys} : r \in Requests}
Said == [limiter : Limiter, key : Keys, time : Int, granted : BOOLEAN]

\* What a sequence of answers said of one bucket, the tokens it granted from
\* its m-th on, and what the promise leaves at time t of the stretch since m.
AnswersOf(ans, L, k) == {j \in DOMAIN ans : ans[j].limiter = L /\ ans[j].key = k}
GrantsFrom(ans, L, k, m) == {j \in AnswersOf(ans, L, k) : j >= m /\ ans[j].granted}
LeftSince(ans, L, k, m, t) ==
    Capacity(L) + (t - ans[m].time) * Rate[L] - Cardinality(GrantsFrom(ans, L, k, m)) * Minute

\* A bucket holds the least of what is left of all stretches that begin with a
\* grant; and there is one bucket for every limiter and key that was asked.
Holds(ans, b) ==
    /\ \A m \in GrantsFrom(ans, b.limiter, b.key, 1) :
          b.tokens <= LeftSince(ans, b.limiter, b.key, m, b.updated)
    /\ \E m \in GrantsFrom(ans, b.limiter, b.key, 1) :
          b.tokens = LeftSince(ans, b.limiter, b.key, m, b.updated)
BucketAnd(ans, L, k) ==
    /\ AnswersOf(ans, L, k) = {} <=> BucketOf(L, k) = {}
    /\ \A b \in BucketOf(L, k) : BucketOf(L, k) = {b} /\ Rate[L] > 0 /\ Holds(ans, b)
BucketsOK ==
    /\ clock \in Int /\ answers \in Seq(Said)
    /\ buckets \subseteq [limiter : Limiter, key : Keys, tokens : Int, updated : Int]
    /\ \A L \in Limiter, k \in Keys : BucketAnd(answers, L, k)

\* Grants are finitely many, and one more is one more.
LEMMA GrantsCounted ==
    ASSUME NEW ans \in Seq(Said), NEW L, NEW k, NEW m
    PROVE  /\ IsFiniteSet(GrantsFrom(ans, L, k, m)) /\ Cardinality(GrantsFrom(ans, L, k, m)) \in Nat
<1>1. Len(ans) \in Nat /\ DOMAIN ans = 1 .. Len(ans)
  BY LenProperties
<1>2. IsFiniteSet(1 .. Len(ans))
  BY <1>1, FS_Interval
<1>3. GrantsFrom(ans, L, k, m) \subseteq DOMAIN ans
  BY DEF GrantsFrom, AnswersOf
<1> QED
  BY <1>1, <1>2, <1>3, FS_Subset, FS_CardinalityType

\* The keys a request gets to are the first ones of its list, at least one.
LEMMA ConsultedPrefix ==
    ASSUME NEW r \in Requests
    PROVE  \E n \in DOMAIN r.keys :
              /\ n \in Consulted(r) /\ \A m \in Consulted(r) : m <= n
              /\ Consulted(r) = 1 .. n
<1> DEFINE S == Consulted(r)
<1> DEFINE N == Len(r.keys)
<1>1. N \in Nat \ {0} /\ DOMAIN r.keys = 1 .. N
  BY RequestsNameBuckets
<1>2. S \subseteq 1 .. N /\ 1 \in S
  BY <1>1 DEF Consulted
<1>3. \A n \in S, m \in 1 .. N : m <= n => m \in S
  BY <1>1 DEF Consulted
<1> HIDE DEF S, N
<1>4. IsFiniteSet(S) /\ Cardinality(S) \in Nat
  <2>1. IsFiniteSet(1 .. N)
    BY <1>1, FS_Interval
  <2> QED
    BY <1>2, <2>1, FS_Subset, FS_CardinalityType
<1> DEFINE c == Cardinality(S)
<1>5. \A x \in S : x <= c
  <2> TAKE x \in S
  <2>1. 1 .. x \subseteq S /\ x \in Nat
    BY <1>1, <1>2, <1>3
  <2>2. Cardinality(1 .. x) = x
    BY <2>1, <1>2, <1>1, FS_Interval
  <2> QED
    BY <2>1, <2>2, <1>4, FS_Subset
<1>6. c \in S
  <2> SUFFICES ASSUME c \notin S PROVE FALSE
    OBVIOUS
  <2>1. S \subseteq 1 .. (c - 1) /\ c - 1 \in Nat
    BY <1>1, <1>2, <1>4, <1>5
  <2>2. IsFiniteSet(1 .. (c - 1)) /\ Cardinality(1 .. (c - 1)) = c - 1
    BY <2>1, FS_Interval
  <2>3. Cardinality(S) <= c - 1
    BY <2>1, <2>2, FS_Subset
  <2> QED
    BY <2>3, <1>4
<1>7. S = 1 .. c
  <2> HIDE DEF c
  <2>1. c \in Nat /\ c \in 1 .. N
    BY <1>2, <1>4, <1>6 DEF c
  <2>2. \A x \in 1 .. c : x \in 1 .. N /\ x <= c
    BY <1>1, <2>1
  <2>3. 1 .. c \subseteq S
    BY <1>3, <1>6, <2>2
  <2>4. S \subseteq 1 .. c
    BY <1>1, <1>2, <1>5, <2>1
  <2> QED
    BY <2>3, <2>4 DEF c
<1> QED
  BY <1>1, <1>2, <1>5, <1>6, <1>7 DEF S, N

\* Time is linear.
LEMMA Stretches ==
    ASSUME NEW a \in Int, NEW b \in Int, NEW c \in Int, NEW x \in Int
    PROVE  /\ (a - c) * x = (a - b) * x + (b - c) * x
           /\ (a - c) * x \in Int /\ (a - b) * x \in Int /\ (b - c) * x \in Int
           /\ (a - a) * x = 0 /\ (c + 1) * x = c * x + x /\ c * x \in Int
  OBVIOUS

\* A stretch that goes on has as much more left as refills meanwhile.
LEMMA LaterMoreLeft ==
    ASSUME BucketsOK, NEW L \in Limiter, NEW k, NEW m \in GrantsFrom(answers, L, k, 1), NEW t \in Int
    PROVE  /\ answers[m].time \in Int /\ LeftSince(answers, L, k, m, t) \in Int
           /\ LeftSince(answers, L, k, m, clock) = LeftSince(answers, L, k, m, t) + (clock - t) * Rate[L]
           /\ Cardinality(GrantsFrom(answers, L, k, m)) * Minute \in Int
           /\ (clock - answers[m].time) * Rate[L] \in Int
<1>1. answers[m].time \in Int
  <2>1. answers[m] \in Said
    BY LenProperties, ElementOfSeq DEF GrantsFrom, AnswersOf, BucketsOK
  <2> QED
    BY <2>1 DEF Said
<1>2. /\ Rate[L] \in Int /\ Minute \in Int /\ clock \in Int /\ Capacity(L) \in Int
  BY RateLimitSizes DEF Capacity, BucketsOK
<1>3. Cardinality(GrantsFrom(answers, L, k, m)) \in Int
  BY GrantsCounted DEF BucketsOK
<1>4. Cardinality(GrantsFrom(answers, L, k, m)) * Minute \in Int
  BY <1>2, <1>3
<1>5. /\ (clock - answers[m].time) * Rate[L] = (clock - t) * Rate[L] + (t - answers[m].time) * Rate[L]
      /\ (t - answers[m].time) * Rate[L] \in Int /\ (clock - t) * Rate[L] \in Int
      /\ (clock - answers[m].time) * Rate[L] \in Int
  <2> DEFINE R == Rate[L]
  <2> DEFINE s == answers[m].time
  <2>1. R \in Int /\ s \in Int
    BY <1>1, <1>2
  <2> HIDE DEF R, s
  <2>2. /\ (clock - s) * R = (clock - t) * R + (t - s) * R
        /\ (t - s) * R \in Int /\ (clock - t) * R \in Int /\ (clock - s) * R \in Int
    BY <2>1, <1>2, Stretches
  <2> QED
    BY <2>2 DEF R, s
<1> QED
  BY <1>1, <1>2, <1>4, <1>5 DEF LeftSince

\* What an action does to one bucket: it is asked once more, by an answer that
\* comes after all others,
Kept ==
    /\ clock' = clock /\ answers' \in Seq(Said)
    /\ DOMAIN answers \subseteq DOMAIN answers'
    /\ \A j \in DOMAIN answers : answers'[j] = answers[j]
Speaks(L, k, N) ==
    /\ Rate[L] > 0
    /\ N \in DOMAIN answers' \ DOMAIN answers /\ \A j \in DOMAIN answers : j < N
    /\ answers'[N] = [limiter |-> L, key |-> k, time |-> clock, granted |-> Allows(L, k)]
    /\ AnswersOf(answers', L, k) = AnswersOf(answers, L, k) \cup {N}
    /\ BucketOf(L, k)' = After(L, k)
\* or left alone.
Silent(L, k) ==
    /\ AnswersOf(answers', L, k) = AnswersOf(answers, L, k)
    /\ BucketOf(L, k)' = BucketOf(L, k)

LEMMA SilentKeeps ==
    ASSUME BucketsOK, Kept, NEW L \in Limiter, NEW k \in Keys, Silent(L, k)
    PROVE  BucketAnd(answers, L, k)'
<1>1. \A m : GrantsFrom(answers', L, k, m) = GrantsFrom(answers, L, k, m)
  BY DEF GrantsFrom, Silent, Kept, AnswersOf
<1>2. \A m \in GrantsFrom(answers, L, k, 1) : answers'[m] = answers[m]
  BY DEF GrantsFrom, AnswersOf, Kept
<1>3. \A m \in GrantsFrom(answers, L, k, 1) : \A t : LeftSince(answers', L, k, m, t) = LeftSince(answers, L, k, m, t)
  BY <1>1, <1>2 DEF LeftSince
<1>4. \A b \in BucketOf(L, k) : b.limiter = L /\ b.key = k
  BY DEF BucketOf
<1>5. \A b \in BucketOf(L, k) : Holds(answers, b) => Holds(answers', b)
  BY <1>1, <1>3, <1>4 DEF Holds
<1>6. BucketAnd(answers, L, k)
  BY DEF BucketsOK
<1> QED
  BY <1>5, <1>6 DEF BucketAnd, Silent

\* The first answer about a key is a grant out of a full bucket.
LEMMA FirstSpeaks ==
    ASSUME BucketsOK, Kept, NEW L \in Limiter, NEW k \in Keys, NEW N, Speaks(L, k, N),
           BucketOf(L, k) = {}
    PROVE  BucketAnd(answers, L, k)'
<1> DEFINE b == Made(L, k)
<1>1. BucketOf(L, k)' = {b} /\ AnswersOf(answers', L, k) = {N}
  BY DEF Speaks, After, BucketsOK, BucketAnd
<1>2. answers'[N].granted /\ answers'[N].time = clock /\ N >= 1 /\ N \in Nat
  BY DEF Speaks, Allows, Kept
<1>3. GrantsFrom(answers', L, k, 1) = {N} /\ GrantsFrom(answers', L, k, N) = {N}
  BY <1>1, <1>2 DEF GrantsFrom
<1>4. Cardinality({N}) = 1
  BY FS_Singleton
<1>5. Rate[L] \in Int /\ Minute \in Int /\ Capacity(L) \in Int /\ clock \in Int
  BY RateLimitSizes DEF Capacity, BucketsOK
<1>6. (clock - clock) * Rate[L] = 0
  BY <1>5
<1>7. LeftSince(answers', L, k, N, clock) = Capacity(L) - Minute
  BY <1>2, <1>3, <1>4, <1>5, <1>6 DEF LeftSince
<1>8. Holds(answers', b)
  BY <1>3, <1>5, <1>7 DEF Holds, Made
<1> QED
  BY <1>1, <1>8 DEF BucketAnd, Speaks

\* A grant costs every stretch that began before it a token; the stretch that
\* begins with it has its own left.
LEMMA GrantSpends ==
    ASSUME BucketsOK, Kept, NEW L \in Limiter, NEW k \in Keys, NEW N, Speaks(L, k, N),
           NEW m \in GrantsFrom(answers, L, k, 1), Allows(L, k)
    PROVE  /\ Cardinality(GrantsFrom(answers', L, k, m)) = Cardinality(GrantsFrom(answers, L, k, m)) + 1
           /\ answers'[m] = answers[m]
<1>1. m \in DOMAIN answers /\ m < N /\ answers[m].granted /\ m \in Nat /\ N \in Nat
  BY DEF GrantsFrom, AnswersOf, Speaks, Kept, BucketsOK
<1>2. GrantsFrom(answers', L, k, m) = GrantsFrom(answers, L, k, m) \cup {N}
  BY <1>1 DEF GrantsFrom, AnswersOf, Speaks, Kept
<1>3. N \notin GrantsFrom(answers, L, k, m)
  BY DEF GrantsFrom, AnswersOf, Speaks
<1>4. IsFiniteSet(GrantsFrom(answers, L, k, m))
  BY GrantsCounted DEF BucketsOK
<1> QED
  BY <1>1, <1>2, <1>3, <1>4, FS_AddElement DEF Kept

\* A bucket that is there is filled up to now, and pays if it can.
LEMMA NextSpeaks ==
    ASSUME BucketsOK, Kept, NEW L \in Limiter, NEW k \in Keys, NEW N, Speaks(L, k, N),
           NEW b, BucketOf(L, k) = {b}
    PROVE  BucketAnd(answers, L, k)'
<1> DEFINE pays == Refilled(b) >= Minute
<1> DEFINE c == Asked(b)
<1> DEFINE R == Rate[L]
<1> DEFINE Grants == GrantsFrom(answers, L, k, 1)
<1>1. /\ b \in [limiter : Limiter, key : Keys, tokens : Int, updated : Int]
      /\ b.limiter = L /\ b.key = k /\ Holds(answers, b)
  BY DEF BucketsOK, BucketAnd, BucketOf
<1>2. /\ R \in Int /\ Minute \in Int /\ Minute > 0 /\ clock \in Int /\ Capacity(L) \in Int /\ R > 0
      /\ Capacity(L) >= Minute
  BY RateLimitSizes DEF Capacity, BucketsOK, Speaks
<1>3. Refilled(b) \in Int /\ (clock - b.updated) * R \in Int
  BY <1>1, <1>2 DEF Refilled, Least
<1>4. Allows(L, k) <=> pays
  BY <1>2 DEF Allows
<1>5. /\ c.limiter = L /\ c.key = k /\ c.updated = clock
      /\ c.tokens = Refilled(b) - (IF pays THEN Minute ELSE 0)
  BY <1>1 DEF Asked
<1>6. BucketOf(L, k)' = {c} /\ AnswersOf(answers', L, k) # {}
  BY DEF Speaks, After
<1>7. /\ answers'[N].time = clock /\ answers'[N].granted = Allows(L, k)
      /\ N \in Nat /\ N >= 1 /\ DOMAIN answers \subseteq Nat
  BY DEF Speaks, Kept, BucketsOK
<1>8. \A m \in Grants :
         /\ answers[m].time \in Int /\ LeftSince(answers, L, k, m, b.updated) \in Int
         /\ LeftSince(answers, L, k, m, clock) = LeftSince(answers, L, k, m, b.updated) + (clock - b.updated) * R
  BY <1>1, <1>2, LaterMoreLeft
<1>9. CASE ~pays
  <2>1. ~answers'[N].granted
    BY <1>4, <1>7, <1>9
  <2>2. \A m : GrantsFrom(answers', L, k, m) = GrantsFrom(answers, L, k, m)
    BY <2>1 DEF GrantsFrom, AnswersOf, Speaks, Kept
  <2>3. \A m \in Grants : answers'[m] = answers[m]
    BY DEF GrantsFrom, AnswersOf, Kept
  <2>4. \A m \in Grants : LeftSince(answers', L, k, m, clock) = LeftSince(answers, L, k, m, clock)
    BY <2>2, <2>3 DEF LeftSince
  <2>5. c.tokens = b.tokens + (clock - b.updated) * R
    BY <1>1, <1>2, <1>3, <1>5, <1>9 DEF Refilled, Least
  <2>6. Holds(answers', c)
    <3> HIDE DEF R, c
    <3>1. GrantsFrom(answers', L, k, 1) = Grants
      BY <2>2
    <3>2. \A m \in Grants : c.tokens <= LeftSince(answers', L, k, m, clock)
      BY <1>1, <1>3, <1>8, <2>4, <2>5 DEF Holds, R
    <3>3. \E m \in Grants : c.tokens = LeftSince(answers', L, k, m, clock)
      BY <1>1, <1>3, <1>8, <2>4, <2>5 DEF Holds, R
    <3> QED
      BY <3>1, <3>2, <3>3, <1>5 DEF Holds
  <2> QED
    BY <1>6, <2>6 DEF BucketAnd, Speaks
<1>10. CASE pays
  <2>1. answers'[N].granted /\ Allows(L, k)
    BY <1>4, <1>7, <1>10
  <2>2. GrantsFrom(answers', L, k, 1) = Grants \cup {N}
    BY <2>1, <1>7 DEF GrantsFrom, AnswersOf, Speaks, Kept
  <2>3. \A m \in Grants : LeftSince(answers', L, k, m, clock) = LeftSince(answers, L, k, m, clock) - Minute
    <3> TAKE m \in Grants
    <3>1. /\ Cardinality(GrantsFrom(answers', L, k, m)) = Cardinality(GrantsFrom(answers, L, k, m)) + 1
          /\ answers'[m] = answers[m]
      BY <2>1, GrantSpends
    <3>2. Cardinality(GrantsFrom(answers, L, k, m)) \in Int
      BY GrantsCounted DEF BucketsOK
    <3>3. /\ (Cardinality(GrantsFrom(answers, L, k, m)) + 1) * Minute
             = Cardinality(GrantsFrom(answers, L, k, m)) * Minute + Minute
          /\ Cardinality(GrantsFrom(answers, L, k, m)) * Minute \in Int
      BY <3>2, <1>2, Stretches
    <3>4. (clock - answers[m].time) * Rate[L] \in Int
      BY <1>2, <1>8
    <3> QED
      BY <3>1, <3>3, <3>4, <1>2 DEF LeftSince
  <2>4. LeftSince(answers', L, k, N, clock) = Capacity(L) - Minute
    <3>1. GrantsFrom(answers', L, k, N) = {N}
      BY <2>1, <1>7 DEF GrantsFrom, AnswersOf, Speaks, Kept
    <3>2. Cardinality({N}) = 1
      BY FS_Singleton
    <3>3. (clock - clock) * Rate[L] = 0
      BY <1>2
    <3> QED
      BY <3>1, <3>2, <3>3, <1>7, <1>2 DEF LeftSince
  <2>5. c.tokens = Refilled(b) - Minute
    BY <1>5, <1>10
  <2>6. Holds(answers', c)
    <3> HIDE DEF R, c
    <3>1. \A m \in Grants : c.tokens <= LeftSince(answers', L, k, m, clock)
      BY <1>1, <1>2, <1>3, <1>8, <2>3, <2>5 DEF Holds, R, Refilled, Least
    <3>2. c.tokens <= Capacity(L) - Minute
      BY <1>1, <1>2, <1>3, <2>5 DEF Refilled, Least, R
    <3>3. \E m \in Grants \cup {N} : c.tokens = LeftSince(answers', L, k, m, clock)
      <4>1. CASE Refilled(b) = Capacity(L)
        BY <4>1, <2>4, <2>5
      <4>2. CASE Refilled(b) # Capacity(L)
        <5>1. Refilled(b) = b.tokens + (clock - b.updated) * R
          BY <4>2, <1>1 DEF Refilled, Least, R
        <5> QED
          BY <5>1, <1>1, <1>2, <1>3, <1>8, <2>3, <2>5 DEF Holds
      <4> QED
        BY <4>1, <4>2
    <3> QED
      BY <3>1, <3>2, <3>3, <2>2, <2>4, <1>5 DEF Holds
  <2> QED
    BY <1>6, <2>6 DEF BucketAnd, Speaks
<1> QED
  BY <1>9, <1>10

LEMMA SpeaksKeeps ==
    ASSUME BucketsOK, Kept, NEW L \in Limiter, NEW k \in Keys, NEW N, Speaks(L, k, N)
    PROVE  BucketAnd(answers, L, k)'
<1>1. BucketOf(L, k) = {} \/ \E b : BucketOf(L, k) = {b}
  BY DEF BucketsOK, BucketAnd
<1> QED
  BY <1>1, FirstSpeaks, NextSpeaks

\* A request asks each of the buckets it gets to once, and leaves the others
\* alone.
LEMMA ConsultShape ==
    ASSUME BucketsOK, Consult
    PROVE  Kept /\ \A L \in Limiter, k \in Keys : Silent(L, k) \/ \E N : Speaks(L, k, N)
<1>1. PICK r \in Requests :
        LET asked == {r.keys[n] : n \in Consulted(r)}
            last == CHOOSE n \in Consulted(r) : \A m \in Consulted(r) : m <= n
        IN  /\ Rate[r.limiter] > 0 /\ Len(answers) + last <= MaxAsks
            /\ buckets' = {b \in buckets : ~(b.limiter = r.limiter /\ b.key \in asked)}
                            \cup UNION {After(r.limiter, k) : k \in asked}
            /\ answers' = answers \o [n \in 1 .. last |->
                    [limiter |-> r.limiter, key |-> r.keys[n], time |-> clock,
                     granted |-> Allows(r.limiter, r.keys[n])]]
            /\ UNCHANGED clock
  BY DEF Consult
<1>2. PICK p \in DOMAIN r.keys :
        p \in Consulted(r) /\ (\A m \in Consulted(r) : m <= p) /\ Consulted(r) = 1 .. p
  BY ConsultedPrefix
<1>3. DOMAIN r.keys = 1 .. Len(r.keys) /\ Len(r.keys) \in Nat /\ r.limiter \in Limiter /\ p \in Nat
      /\ p <= Len(r.keys)
  BY <1>2, RequestsNameBuckets
<1> DEFINE Reply(n) == [limiter |-> r.limiter, key |-> r.keys[n], time |-> clock,
                       granted |-> Allows(r.limiter, r.keys[n])]
<1> DEFINE new == [n \in 1 .. p |-> Reply(n)]
<1> DEFINE asked == {r.keys[n] : n \in 1 .. p}
<1>4. (CHOOSE n \in Consulted(r) : \A m \in Consulted(r) : m <= n) = p
  BY <1>2, <1>3
<1>5. /\ buckets' = {b \in buckets : ~(b.limiter = r.limiter /\ b.key \in asked)}
                        \cup UNION {After(r.limiter, k) : k \in asked}
      /\ answers' = answers \o new /\ clock' = clock /\ Rate[r.limiter] > 0
  BY <1>1, <1>2, <1>4
<1>6. \A n \in 1 .. p : r.keys[n] \in Keys /\ Reply(n) \in Said /\ n \in DOMAIN r.keys
  BY <1>3 DEF Keys, Said, Allows, BucketsOK
<1>7. new \in Seq(Said) /\ Len(new) = p
  <2>1. new \in [1 .. p -> Said]
    BY <1>6
  <2> HIDE DEF new
  <2> QED
    BY <2>1, <1>3
<1>8. /\ answers' \in Seq(Said) /\ Len(answers') = Len(answers) + p /\ Len(answers) \in Nat
      /\ DOMAIN answers = 1 .. Len(answers) /\ DOMAIN answers' = 1 .. Len(answers) + p
      /\ \A i \in 1 .. Len(answers) : answers'[i] = answers[i]
      /\ \A i \in Len(answers) + 1 .. Len(answers) + p : answers'[i] = new[i - Len(answers)]
  <2>1. answers \in Seq(Said)
    BY DEF BucketsOK
  <2> HIDE DEF new
  <2>2. Len(answers) \in Nat /\ DOMAIN answers = 1 .. Len(answers)
    BY <2>1, LenProperties
  <2>3. answers' \in Seq(Said) /\ Len(answers') = Len(answers) + p
    BY <2>1, <1>5, <1>7, ConcatProperties
  <2>4. \A i \in 1 .. Len(answers) + p :
           answers'[i] = IF i <= Len(answers) THEN answers[i] ELSE new[i - Len(answers)]
    BY <2>1, <1>5, <1>7, ConcatProperties
  <2>5. DOMAIN answers' = 1 .. Len(answers) + p
    BY <2>3, LenProperties
  <2>6. \A i \in 1 .. Len(answers) : answers'[i] = answers[i]
    BY <2>2, <2>4, <1>3
  <2>7. \A i \in Len(answers) + 1 .. Len(answers) + p : answers'[i] = new[i - Len(answers)]
    BY <2>2, <2>4, <1>3
  <2> QED
    BY <2>2, <2>3, <2>5, <2>6, <2>7
<1>9. \A n \in 1 .. p : answers'[Len(answers) + n] = Reply(n)
  <2> TAKE n \in 1 .. p
  <2>1. Len(answers) + n \in Len(answers) + 1 .. Len(answers) + p /\ (Len(answers) + n) - Len(answers) = n
    BY <1>3, <1>8
  <2> QED
    BY <1>8, <2>1
<1>10. Kept
  BY <1>3, <1>5, <1>8 DEF Kept
<1>11. \A l, q : \A b \in After(l, q) : b.limiter = l /\ b.key = q
  <2> TAKE l, q
  <2> TAKE b \in After(l, q)
  <2>1. CASE BucketOf(l, q) = {}
    BY <2>1 DEF After, Made
  <2>2. CASE BucketOf(l, q) # {}
    <3>1. PICK o \in BucketOf(l, q) : b = Asked(o)
      BY <2>2 DEF After
    <3>2. o \in [limiter : Limiter, key : Keys, tokens : Int, updated : Int] /\ o.limiter = l /\ o.key = q
      BY DEF BucketOf, BucketsOK
    <3> QED
      BY <3>1, <3>2 DEF Asked
  <2> QED
    BY <2>1, <2>2
<1> HIDE DEF Reply, new
<1>12. ASSUME NEW L \in Limiter, NEW k \in Keys, L = r.limiter, k \in asked
       PROVE  \E N : Speaks(L, k, N)
  <2>1. PICK n \in 1 .. p : r.keys[n] = k
    BY <1>12
  <2>2. \A i \in 1 .. p : r.keys[i] = k => i = n
    BY <2>1, <1>6, RequestsNameBuckets
  <2>3. Len(answers) + n \in DOMAIN answers' \ DOMAIN answers /\ \A j \in DOMAIN answers : j < Len(answers) + n
    BY <1>3, <1>8
  <2>4. answers'[Len(answers) + n] = [limiter |-> L, key |-> k, time |-> clock, granted |-> Allows(L, k)]
    BY <2>1, <1>9, <1>12 DEF Reply
  <2>5. AnswersOf(answers', L, k) = AnswersOf(answers, L, k) \cup {Len(answers) + n}
    <3>1. \A j \in DOMAIN answers' \ DOMAIN answers :
             j - Len(answers) \in 1 .. p /\ j = Len(answers) + (j - Len(answers))
      BY <1>3, <1>8
    <3>2. \A j \in DOMAIN answers' \ DOMAIN answers : answers'[j].key = k => j = Len(answers) + n
      <4> TAKE j \in DOMAIN answers' \ DOMAIN answers
      <4>1. answers'[j] = Reply(j - Len(answers))
        BY <3>1, <1>9
      <4>2. answers'[j].key = r.keys[j - Len(answers)]
        BY <4>1 DEF Reply
      <4> QED
        BY <4>2, <2>2, <3>1
    <3>3. \A j \in DOMAIN answers : answers'[j] = answers[j] /\ j \in DOMAIN answers'
      BY <1>10 DEF Kept
    <3> QED
      BY <2>3, <2>4, <3>2, <3>3 DEF AnswersOf
  <2>6. BucketOf(L, k)' = After(L, k)
    <3>1. {b \in buckets' : b.limiter = L /\ b.key = k} = After(L, k)
      BY <1>5, <1>11, <1>12
    <3> QED
      BY <3>1 DEF BucketOf
  <2> QED
    BY <2>3, <2>4, <2>5, <2>6, <1>5, <1>12 DEF Speaks
<1>13. ASSUME NEW L \in Limiter, NEW k \in Keys, ~(L = r.limiter /\ k \in asked)
       PROVE  Silent(L, k)
  <2>1. AnswersOf(answers', L, k) = AnswersOf(answers, L, k)
    <3>1. \A j \in DOMAIN answers' \ DOMAIN answers :
             answers'[j].limiter = r.limiter /\ answers'[j].key \in asked
      <4> TAKE j \in DOMAIN answers' \ DOMAIN answers
      <4>1. j - Len(answers) \in 1 .. p /\ j = Len(answers) + (j - Len(answers))
        BY <1>3, <1>8
      <4>2. answers'[j] = Reply(j - Len(answers))
        BY <4>1, <1>9
      <4> QED
        BY <4>1, <4>2 DEF Reply
    <3>2. \A j \in DOMAIN answers : answers'[j] = answers[j] /\ j \in DOMAIN answers'
      BY <1>10 DEF Kept
    <3> QED
      BY <3>1, <3>2, <1>13 DEF AnswersOf
  <2>2. {b \in buckets' : b.limiter = L /\ b.key = k} = {b \in buckets : b.limiter = L /\ b.key = k}
    BY <1>5, <1>11, <1>13
  <2> QED
    BY <2>1, <2>2 DEF Silent, BucketOf
<1> QED
  BY <1>10, <1>12, <1>13

\* What is made of a bucket is a bucket.
LEMMA BucketsTyped ==
    ASSUME BucketsOK, Consult
    PROVE  buckets' \subseteq [limiter : Limiter, key : Keys, tokens : Int, updated : Int]
<1> DEFINE Bucket == [limiter : Limiter, key : Keys, tokens : Int, updated : Int]
<1>1. PICK r \in Requests :
         buckets' = {b \in buckets : ~(b.limiter = r.limiter /\ b.key \in {r.keys[n] : n \in Consulted(r)})}
                        \cup UNION {After(r.limiter, k) : k \in {r.keys[n] : n \in Consulted(r)}}
  BY DEF Consult
<1>2. r.limiter \in Limiter /\ \A n \in Consulted(r) : r.keys[n] \in Keys
  BY RequestsNameBuckets DEF Keys, Consulted
<1>3. ASSUME NEW k \in Keys PROVE After(r.limiter, k) \subseteq Bucket
  <2>1. Rate \in [Limiter -> Int] /\ Minute \in Int /\ clock \in Int
    BY RateLimitSizes DEF BucketsOK
  <2>2. CASE BucketOf(r.limiter, k) = {}
    BY <1>2, <1>3, <2>1, <2>2 DEF After, Capacity, Made
  <2>3. CASE BucketOf(r.limiter, k) # {}
    <3>1. \A o \in BucketOf(r.limiter, k) : Asked(o) \in Bucket
      <4> TAKE o \in BucketOf(r.limiter, k)
      <4>1. o \in Bucket
        BY DEF BucketOf, BucketsOK
      <4>2. Refilled(o) \in Int
        BY <2>1, <4>1 DEF Refilled, Least, Capacity
      <4>3. Refilled(o) - (IF Refilled(o) >= Minute THEN Minute ELSE 0) \in Int
        BY <2>1, <4>2
      <4> QED
        BY <2>1, <4>1, <4>3 DEF Asked
    <3>2. After(r.limiter, k) = {Asked(o) : o \in BucketOf(r.limiter, k)}
      BY <2>3 DEF After
    <3> HIDE DEF Bucket
    <3> QED
      BY <3>1, <3>2
  <2> QED
    BY <2>2, <2>3
<1>4. buckets \subseteq Bucket
  BY DEF BucketsOK
<1> HIDE DEF Bucket
<1>5. buckets' \subseteq Bucket
  BY <1>1, <1>2, <1>3, <1>4
<1> QED
  BY <1>5 DEF Bucket

\* The invariant that is why: every step keeps every bucket's account.
LEMMA BucketsStep == BucketsOK /\ [RateLimitNext]_limits => BucketsOK'
<1> SUFFICES ASSUME BucketsOK, [RateLimitNext]_limits PROVE BucketsOK'
  OBVIOUS
<1>1. CASE Consult
  <2>1. Kept /\ \A L \in Limiter, k \in Keys : Silent(L, k) \/ \E N : Speaks(L, k, N)
    BY <1>1, ConsultShape
  <2>2. \A L \in Limiter, k \in Keys : BucketAnd(answers, L, k)'
    BY <2>1, SilentKeeps, SpeaksKeeps
  <2>3. buckets' \subseteq [limiter : Limiter, key : Keys, tokens : Int, updated : Int]
    BY <1>1, BucketsTyped
  <2> QED
    BY <2>1, <2>2, <2>3 DEF BucketsOK, Kept
<1>2. CASE Second
  BY <1>2 DEF Second, BucketsOK, BucketAnd, BucketOf, Holds, LeftSince
<1>3. CASE Reset
  <2>1. answers' = <<>> /\ buckets' = {} /\ clock' = clock
    BY <1>3 DEF Reset
  <2>2. \A L, k : AnswersOf(answers', L, k) = {} /\ BucketOf(L, k)' = {}
    BY <2>1 DEF AnswersOf, BucketOf
  <2> QED
    BY <2>1, <2>2 DEF BucketsOK, BucketAnd
<1>4. CASE UNCHANGED limits
  BY <1>4 DEF limits, BucketsOK, BucketAnd, BucketOf, Holds, LeftSince
<1> QED
  BY <1>1, <1>2, <1>3, <1>4 DEF RateLimitNext

\* What was exact stays so: later answers do not change what an earlier one
\* could count.
LEMMA OldStayExact ==
    ASSUME BucketsOK, Kept, BucketExact, NEW n \in DOMAIN answers
    PROVE  answers'[n].granted <=>
              \A m \in GrantedUpTo(n, 1)' :
                  Cardinality(GrantedUpTo(n, m)') * Minute
                      <= Capacity(answers'[n].limiter)
                          + (answers'[n].time - answers'[m].time) * Rate[answers'[n].limiter]
<1>1. /\ DOMAIN answers = 1 .. Len(answers) /\ Len(answers) \in Nat
      /\ \A j \in DOMAIN answers : answers'[j] = answers[j]
  BY LenProperties DEF BucketsOK, Kept
<1>2. \A m \in Nat : m >= 1 => GrantedUpTo(n, m)' = GrantedUpTo(n, m)
  <2> TAKE m \in Nat
  <2> HAVE m >= 1
  <2>1. \A j \in m .. n : answers'[j] = answers[j] /\ answers'[n] = answers[n]
    BY <1>1
  <2> QED
    BY <2>1 DEF GrantedUpTo
<1>3. \A m \in GrantedUpTo(n, 1) : m \in Nat /\ m >= 1 /\ m \in DOMAIN answers
  BY <1>1 DEF GrantedUpTo
<1>4. GrantedUpTo(n, 1)' = GrantedUpTo(n, 1)
  BY <1>2
<1> QED
  BY <1>1, <1>2, <1>3, <1>4 DEF BucketExact

\* A new answer is a grant exactly where every stretch has a token left.
LEMMA NewIsExact ==
    ASSUME BucketsOK, Kept, NEW L \in Limiter, NEW k \in Keys, NEW N, Speaks(L, k, N)
    PROVE  answers'[N].granted <=>
              \A m \in GrantedUpTo(N, 1)' :
                  Cardinality(GrantedUpTo(N, m)') * Minute
                      <= Capacity(answers'[N].limiter)
                          + (answers'[N].time - answers'[m].time) * Rate[answers'[N].limiter]
<1> DEFINE R == Rate[L]
<1> DEFINE Grants == GrantsFrom(answers, L, k, 1)
<1>1. /\ R \in Int /\ Minute \in Int /\ Minute > 0 /\ clock \in Int /\ Capacity(L) \in Int /\ R > 0
      /\ Capacity(L) >= Minute
  BY RateLimitSizes DEF Capacity, BucketsOK, Speaks
<1>2. /\ answers'[N].time = clock /\ answers'[N].granted = Allows(L, k)
      /\ answers'[N].limiter = L /\ answers'[N].key = k
      /\ N \in Nat /\ N >= 1 /\ DOMAIN answers \subseteq Nat
      /\ DOMAIN answers' = 1 .. Len(answers') /\ Len(answers') \in Nat /\ N <= Len(answers')
      /\ \A j \in DOMAIN answers : j >= 1 /\ j < N /\ answers'[j] = answers[j]
  BY LenProperties DEF Speaks, Kept, BucketsOK
<1>3. \A m \in 1 .. N : GrantedUpTo(N, m)' = GrantsFrom(answers, L, k, m) \cup {N}
  <2> TAKE m \in 1 .. N
  <2>1. \A j \in m .. N : j \in DOMAIN answers'
    BY <1>2
  <2>2. \A j \in DOMAIN answers' : j \in AnswersOf(answers', L, k) <=> j \in AnswersOf(answers, L, k) \/ j = N
    BY DEF Speaks
  <2>3. \A j \in DOMAIN answers' :
           answers'[j].limiter = L /\ answers'[j].key = k <=> j \in AnswersOf(answers, L, k) \/ j = N
    BY <2>2 DEF AnswersOf
  <2>4. \A j \in AnswersOf(answers, L, k) : j \in DOMAIN answers /\ j \in DOMAIN answers'
    BY DEF AnswersOf, Kept
  <2> QED
    BY <1>2, <2>1, <2>3, <2>4 DEF GrantedUpTo, GrantsFrom
<1>4. \A m \in Grants : m \in 1 .. N /\ m \in DOMAIN answers /\ m # N /\ answers'[m] = answers[m]
  BY <1>2 DEF GrantsFrom, AnswersOf
<1>5. GrantedUpTo(N, 1)' = Grants \cup {N}
  BY <1>2, <1>3
<1>6. /\ Cardinality(GrantedUpTo(N, N)') * Minute = Minute
      /\ (clock - answers'[N].time) * R = 0
  <2>1. GrantsFrom(answers, L, k, N) = {}
    BY <1>2 DEF GrantsFrom, AnswersOf
  <2>2. GrantedUpTo(N, N)' = {N}
    BY <1>2, <1>3, <2>1
  <2>3. Cardinality({N}) = 1
    BY FS_Singleton
  <2>4. (clock - clock) * R = 0
    BY <1>1
  <2> QED
    BY <2>2, <2>3, <2>4, <1>1, <1>2
\* The stretch that begins with m allows one more exactly if a token is left.
<1>7. \A m \in Grants :
         /\ answers[m].time \in Int /\ LeftSince(answers, L, k, m, clock) \in Int
         /\ Cardinality(GrantedUpTo(N, m)') * Minute <= Capacity(L) + (clock - answers'[m].time) * R
               <=> LeftSince(answers, L, k, m, clock) >= Minute
  <2> TAKE m \in Grants
  <2>1. answers[m].time \in Int
    <3>1. answers[m] \in Said
      BY LenProperties, ElementOfSeq DEF GrantsFrom, AnswersOf, BucketsOK
    <3> QED
      BY <3>1 DEF Said
  <2>2. IsFiniteSet(GrantsFrom(answers, L, k, m)) /\ Cardinality(GrantsFrom(answers, L, k, m)) \in Int
    BY GrantsCounted DEF BucketsOK
  <2>3. N \notin GrantsFrom(answers, L, k, m)
    BY <1>2 DEF GrantsFrom, AnswersOf
  <2>4. Cardinality(GrantedUpTo(N, m)') = Cardinality(GrantsFrom(answers, L, k, m)) + 1
    BY <1>3, <1>4, <2>2, <2>3, FS_AddElement
  <2>5. /\ (Cardinality(GrantsFrom(answers, L, k, m)) + 1) * Minute
             = Cardinality(GrantsFrom(answers, L, k, m)) * Minute + Minute
        /\ Cardinality(GrantsFrom(answers, L, k, m)) * Minute \in Int
    BY <2>2, <1>1, Stretches
  <2>6. (clock - answers[m].time) * R \in Int
    BY <2>1, <1>1, Stretches
  <2> QED
    BY <1>1, <1>4, <2>1, <2>4, <2>5, <2>6 DEF LeftSince
<1>8. CASE BucketOf(L, k) = {}
  <2>1. Grants = {} /\ Allows(L, k)
    BY <1>8 DEF BucketsOK, BucketAnd, GrantsFrom, Allows
  <2> QED
    BY <2>1, <1>1, <1>2, <1>5, <1>6
<1>9. ASSUME NEW b, BucketOf(L, k) = {b}
      PROVE  Allows(L, k) <=> \A m \in Grants : LeftSince(answers, L, k, m, clock) >= Minute
  <2>1. /\ b \in [limiter : Limiter, key : Keys, tokens : Int, updated : Int]
        /\ b.limiter = L /\ b.key = k /\ Holds(answers, b)
    BY <1>9 DEF BucketsOK, BucketAnd, BucketOf
  <2>2. (clock - b.updated) * R \in Int
    BY <2>1, <1>1, Stretches
  <2>3. Allows(L, k) <=> b.tokens + (clock - b.updated) * R >= Minute
    BY <1>1, <1>9, <2>1, <2>2 DEF Allows, Refilled, Least
  <2>4. \A m \in Grants :
          /\ LeftSince(answers, L, k, m, b.updated) \in Int
          /\ LeftSince(answers, L, k, m, clock) = LeftSince(answers, L, k, m, b.updated) + (clock - b.updated) * R
    BY <1>1, <2>1, LaterMoreLeft
  <2> HIDE DEF R
  <2> QED
    BY <1>1, <2>1, <2>2, <2>3, <2>4 DEF Holds
<1>10. CASE BucketOf(L, k) # {}
  <2>1. PICK b : BucketOf(L, k) = {b}
    BY <1>10 DEF BucketsOK, BucketAnd
  <2>2. Allows(L, k) <=> \A m \in Grants :
           Cardinality(GrantedUpTo(N, m)') * Minute <= Capacity(L) + (clock - answers'[m].time) * R
    BY <2>1, <1>7, <1>9
  <2> HIDE DEF R, Grants
  <2>3. Cardinality(GrantedUpTo(N, N)') * Minute <= Capacity(L) + (clock - answers'[N].time) * R
    BY <1>1, <1>6
  <2> QED
    BY <2>2, <2>3, <1>2, <1>5 DEF R
<1> QED
  BY <1>8, <1>10

\* Every step keeps every answer exact.
LEMMA ExactStep == BucketsOK /\ BucketExact /\ [RateLimitNext]_limits => BucketExact'
<1> SUFFICES ASSUME BucketsOK, BucketExact, [RateLimitNext]_limits PROVE BucketExact'
  OBVIOUS
<1>1. CASE Consult
  <2>1. Kept /\ \A L \in Limiter, k \in Keys : Silent(L, k) \/ \E N : Speaks(L, k, N)
    BY <1>1, ConsultShape
  <2>2. ASSUME NEW n \in DOMAIN answers', n \notin DOMAIN answers
        PROVE  \E L \in Limiter, k \in Keys : Speaks(L, k, n)
    <3>1. answers'[n] \in Said
      BY <2>1, LenProperties, ElementOfSeq DEF Kept
    <3>2. PICK L \in Limiter, k \in Keys : L = answers'[n].limiter /\ k = answers'[n].key
      BY <3>1 DEF Said
    <3>3. n \in AnswersOf(answers', L, k) /\ n \notin AnswersOf(answers, L, k)
      BY <2>2, <3>2 DEF AnswersOf
    <3>4. PICK N : Speaks(L, k, N)
      BY <2>1, <3>3 DEF Silent
    <3>5. n = N
      BY <3>3, <3>4 DEF Speaks
    <3> QED
      BY <3>4, <3>5
  <2>3. ASSUME NEW n \in DOMAIN answers'
        PROVE  answers'[n].granted <=>
                  \A m \in GrantedUpTo(n, 1)' :
                      Cardinality(GrantedUpTo(n, m)') * Minute
                          <= Capacity(answers'[n].limiter)
                              + (answers'[n].time - answers'[m].time) * Rate[answers'[n].limiter]
    BY <2>1, <2>2, OldStayExact, NewIsExact
  <2> QED
    BY <2>3 DEF BucketExact, Capacity
<1>2. CASE Second
  BY <1>2 DEF Second, BucketExact, GrantedUpTo
<1>3. CASE Reset
  BY <1>3 DEF Reset, BucketExact
<1>4. CASE UNCHANGED limits
  BY <1>4 DEF limits, BucketExact, GrantedUpTo
<1> QED
  BY <1>1, <1>2, <1>3, <1>4 DEF RateLimitNext

LEMMA BucketsStart == RateLimitInit => BucketsOK /\ BucketExact
  BY DEF RateLimitInit, BucketsOK, BucketExact, BucketAnd, AnswersOf, BucketOf

-----------------------------------------------------------------------------
(***************************************************************************)
(* The theorems.                                                           *)
(***************************************************************************)

\* All of it holds of a gate that has not come up yet (GateInit).
LEMMA GateStarts == Init => GateOK /\ BearerInv /\ OpenInv /\ RefusalTrue
<1> SUFFICES ASSUME GateInit PROVE GateOK /\ BearerInv /\ OpenInv /\ RefusalTrue
  BY DEF Init
<1>1. /\ call \in Calls /\ call.pc = "idle" /\ ~call.dead /\ call.user = Nobody
      /\ call.read = {} /\ call.listed = {} /\ call.said = "nothing" /\ call.tool = "tools/list"
  <2>1. "all" \in CallScopes /\ Nobody \in Callers /\ "junk" \in Bearers
    BY DEF CallScopes, Callers, Bearers
  <2>2. call = NoCall
    BY DEF GateInit
  <2> QED
    BY <2>1, <2>2 DEF NoCall, Calls, CallPlaces, Words, Causes, ToolNames
<1>2. jwt \in Jwts /\ surface \in Variants
  BY AgentAssumption, SurfaceAssumption DEF GateInit, Jwts, Callers
<1>3. GateOK
  BY <1>1, <1>2 DEF GateInit, GateOK, Bearers
<1>4. BearerInv
  BY <1>1 DEF BearerInv
<1>5. OpenInv
  BY <1>1 DEF GateInit, OpenInv, Entered, Bearers
<1>6. RefusalTrue
  BY <1>1 DEF RefusalTrue
<1> QED
  BY <1>3, <1>4, <1>5, <1>6

\* The gate's invariants hold in every behaviour of the server.
GateInv == GateOK /\ BearerInv /\ OpenInv /\ RefusalTrue
LEMMA GateHoldsAlways == Spec => []GateInv
<1>1. Init => GateInv
  BY GateStarts DEF GateInv
<1>2. GateInv /\ [Next]_serving => GateInv'
  <2>1. [Next]_serving => [GateNext]_gate
    BY DEF Next, serving
  <2> QED
    BY <2>1, GateStep, BearerStep, OpenStep, RefusalStep DEF GateInv
<1> QED
  BY <1>1, <1>2, PTL DEF Spec

\* Whatever expires, is removed or is deleted while a call waits, it reads
\* documents of the account its bearer speaks for, and of no other (_subject_id,
\* _owned_chunks, _document_id_for, fetch).
THEOREM TenancyHolds == Spec => []Tenancy
<1>1. GateInv => Tenancy
  BY AgentAssumption DEF GateInv, GateOK, BearerInv, Calls, Tenancy
<1> QED
  BY <1>1, GateHoldsAlways, PTL

\* A dead bearer gets nowhere and a good one is let in, what was listed opens,
\* and a refusal names what was in the way (validate_settings, the verifiers,
\* ScopeGate, _to_tool_error).
THEOREM GateIsTrue == Spec => []GateTrue
<1>1. GateInv => CredentialsJudged
  BY DEF GateInv, BearerInv, CredentialsJudged, Entered
<1>2. GateInv => ListedOpens
  <2> SUFFICES ASSUME GateInv PROVE ListedOpens
    OBVIOUS
  <2>1. call.bearer \in Bearers
    BY DEF GateInv, GateOK, Calls
  <2> QED
    BY <2>1 DEF GateInv, OpenInv, ListedOpens, Visible
<1>3. GateInv => GateTrue
  BY <1>1, <1>2 DEF GateInv, GateTrue
<1> QED
  BY <1>3, GateHoldsAlways, PTL

\* The limits' invariants hold in every behaviour, whichever part it exercises.
BucketInv == BucketsOK /\ BucketExact
LEMMA BucketsAlways == Spec => []BucketInv
<1>1. Init => BucketInv
  BY BucketsStart DEF Init, BucketInv
<1>2. BucketInv /\ [Next]_serving => BucketInv'
  <2>1. [Next]_serving => [RateLimitNext]_limits
    BY DEF Next, serving
  <2> QED
    BY <2>1, BucketsStep, ExactStep DEF BucketInv
<1> QED
  BY <1>1, <1>2, PTL DEF Spec

\* The token bucket is the sliding window it stands for: for every rate, every
\* key and every order of requests, a token is granted if and only if no
\* stretch of time then holds more than a burst and what it refills (allow).
THEOREM LimiterIsExact == Spec => []BucketExact
<1>1. BucketInv => BucketExact
  BY DEF BucketInv
<1> QED
  BY <1>1, BucketsAlways, PTL

-----------------------------------------------------------------------------
(***************************************************************************)
(* The schema.  The revisions, unrolled: what tables and columns there are *)
(* at which version.                                                       *)
(***************************************************************************)
\* Which revision made a table, and which brought a column.
MadeBy(t, n) ==
    \/ t \in {"documents", "chunks"} /\ n = 1
    \/ t \in {"users", "sessions"} /\ n = 3
    \/ t \in {"usage", "cache"} /\ n = 4
    \/ t \in {"traces", "trace_chunks"} /\ n = 5
    \/ t \in {"conversations", "messages"} /\ n = 6
    \/ t = "tokens" /\ n = 8
    \/ t \in {"runs", "results"} /\ n = 11

\* Revision n brings column c of table t, with the table or after it.
BroughtBy(t, c, n) ==
    \/ t = "documents" /\ c = "owner" /\ n = 3
    \/ t = "chunks" /\ ((c = "document" /\ n = 1) \/ (c = "sparse" /\ n = 2))
    \/ t = "sessions" /\ c = "user" /\ n = 3
    \/ t = "users" /\ c = "verified" /\ n = 8
    \/ t = "tokens" /\ c = "user" /\ n = 8
    \/ t = "usage" /\ ((c = "user" /\ n = 4) \/ (c = "settled" /\ n = 9))
    \/ t = "cache" /\ c \in {"user", "document"} /\ n = 4
    \/ t = "traces" /\ ((c \in {"user", "document"} /\ n = 5) \/ (c = "status" /\ n = 10) \/ (c = "source" /\ n = 12))
    \/ t = "trace_chunks" /\ c = "trace" /\ n = 5
    \/ t = "conversations" /\ c \in {"user", "scope"} /\ n = 6
    \/ t = "messages" /\ ((c = "conversation" /\ n = 6) \/ (c = "scope" /\ n = 7))
    \/ t = "runs" /\ c = "cut" /\ n = 13
    \/ t = "results" /\ c = "run" /\ n = 11

\* The versions a database can be at.
Versions == 0 .. 14

\* The list of revisions is as long as the versions are many.
LEMMA NewestIs == Newest = 14 /\ Newest \in Versions
BY DEF Newest, Revisions, Versions

\* The revisions, one by one.
LEMMA RevisionsAre ==
    /\ Revisions[1] = {Creates("documents", {}), Creates("chunks", {"document"})}
    /\ Revisions[2] = {Adds("chunks", "sparse", "null")}
    /\ Revisions[3] = {Creates("users", {}), Creates("sessions", {"user"}), Adds("documents", "owner", "seed")}
    /\ Revisions[4] = {Creates("usage", {"user"}), Creates("cache", {"user", "document"})}
    /\ Revisions[5] = {Creates("traces", {"user", "document"}), Creates("trace_chunks", {"trace"})}
    /\ Revisions[6] = {Creates("conversations", {"user", "scope"}), Creates("messages", {"conversation"})}
    /\ Revisions[7] = {Adds("messages", "scope", "everything")}
    /\ Revisions[8] = {Adds("users", "verified", "then"), Creates("tokens", {"user"})}
    /\ Revisions[9] = {Adds("usage", "settled", "then")}
    /\ Revisions[10] = {Adds("traces", "status", "null")}
    /\ Revisions[11] = {Creates("runs", {}), Creates("results", {"run"})}
    /\ Revisions[12] = {Adds("traces", "source", "legacy")}
    /\ Revisions[13] = {Adds("runs", "cut", "null")}
    /\ Revisions[14] = {}
BY DEF Revisions, Initial, Sparse, Ownership, UsageAndCache, Traces, Conversations, MessageScope, Verification,
   Settlement, TraceFailures, EvalRuns, TraceSource, RunConditions, McpAnswer

\* What a revision makes and brings, table by table.
LEMMA Bring ==
    ASSUME NEW n \in 1 .. 14, NEW t
    PROVE  /\ (\E x \in Revisions[n] : x.table = t) => \E m \in 1 .. n : MadeBy(t, m)
           /\ MadeBy(t, n) => \E x \in Revisions[n] : x.table = t
           /\ \A c : (\E x \in Revisions[n] : x.table = t /\ c \in x.columns) <=> BroughtBy(t, c, n)
<1>1. \/ n = 1 \/ n = 2 \/ n = 3 \/ n = 4 \/ n = 5 \/ n = 6 \/ n = 7
      \/ n = 8 \/ n = 9 \/ n = 10 \/ n = 11 \/ n = 12 \/ n = 13 \/ n = 14
  OBVIOUS
<1>2. CASE n = 1
  BY <1>2, RevisionsAre DEF BroughtBy, MadeBy, Creates, Adds
<1>3. CASE n = 2
  BY <1>3, RevisionsAre DEF BroughtBy, MadeBy, Creates, Adds
<1>4. CASE n = 3
  BY <1>4, RevisionsAre DEF BroughtBy, MadeBy, Creates, Adds
<1>5. CASE n = 4
  BY <1>5, RevisionsAre DEF BroughtBy, MadeBy, Creates, Adds
<1>6. CASE n = 5
  BY <1>6, RevisionsAre DEF BroughtBy, MadeBy, Creates, Adds
<1>7. CASE n = 6
  BY <1>7, RevisionsAre DEF BroughtBy, MadeBy, Creates, Adds
<1>8. CASE n = 7
  BY <1>8, RevisionsAre DEF BroughtBy, MadeBy, Creates, Adds
<1>9. CASE n = 8
  BY <1>9, RevisionsAre DEF BroughtBy, MadeBy, Creates, Adds
<1>10. CASE n = 9
  BY <1>10, RevisionsAre DEF BroughtBy, MadeBy, Creates, Adds
<1>11. CASE n = 10
  BY <1>11, RevisionsAre DEF BroughtBy, MadeBy, Creates, Adds
<1>12. CASE n = 11
  BY <1>12, RevisionsAre DEF BroughtBy, MadeBy, Creates, Adds
<1>13. CASE n = 12
  BY <1>13, RevisionsAre DEF BroughtBy, MadeBy, Creates, Adds
<1>14. CASE n = 13
  BY <1>14, RevisionsAre DEF BroughtBy, MadeBy, Creates, Adds
<1>15. CASE n = 14
  BY <1>15, RevisionsAre DEF BroughtBy, MadeBy, Creates, Adds
<1> QED
  BY <1>1, <1>2, <1>3, <1>4, <1>5, <1>6, <1>7, <1>8, <1>9, <1>10, <1>11, <1>12, <1>13, <1>14, <1>15

\* The tables and the columns of a version.
LEMMA TablesAre ==
    ASSUME NEW v \in Versions, NEW t
    PROVE  t \in Tables(v) <=> \E n \in 1 .. v : MadeBy(t, n)
<1>1. t \in Tables(v) <=> \E n \in 1 .. v : \E x \in Revisions[n] : x.table = t
  BY DEF Tables
<1>2. \A n \in 1 .. v : n \in 1 .. 14
  BY DEF Versions
<1>3. ASSUME NEW n \in 1 .. v, \E x \in Revisions[n] : x.table = t PROVE \E m \in 1 .. v : MadeBy(t, m)
  <2>1. PICK m \in 1 .. n : MadeBy(t, m)
    BY <1>2, <1>3, Bring
  <2>2. m \in 1 .. v
    BY DEF Versions
  <2> QED
    BY <2>1, <2>2
<1>4. ASSUME NEW n \in 1 .. v, MadeBy(t, n) PROVE \E x \in Revisions[n] : x.table = t
  BY <1>2, <1>4, Bring
<1> QED
  BY <1>1, <1>3, <1>4

\* The same of a column.
LEMMA ColumnsAre ==
    ASSUME NEW v \in Versions, NEW t \in Tables(v), NEW c
    PROVE  c \in Columns[v][t] <=> \E n \in 1 .. v : BroughtBy(t, c, n)
<1> DEFINE all == UNION {Revisions[n] : n \in 1 .. v}
<1> DEFINE mine == {x \in all : x.table = t}
<1>1. Columns[v][t] = UNION {x.columns : x \in mine}
  BY NewestIs DEF Columns, Versions
<1>2. c \in Columns[v][t] <=> \E n \in 1 .. v : \E x \in Revisions[n] : x.table = t /\ c \in x.columns
  <2>1. c \in Columns[v][t] <=> \E x \in mine : c \in x.columns
    BY <1>1, Zenon
  <2>2. \A x : x \in mine <=> x.table = t /\ \E n \in 1 .. v : x \in Revisions[n]
    OBVIOUS
  <2> HIDE DEF mine
  <2> QED
    BY <2>1, <2>2, Zenon
<1>3. \A n \in 1 .. v : n \in 1 .. 14
  BY DEF Versions
<1>4. \A n \in 1 .. v : (\E x \in Revisions[n] : x.table = t /\ c \in x.columns) <=> BroughtBy(t, c, n)
  BY <1>3, Bring
<1> QED
  BY <1>2, <1>4

\* What there is at a version is there at a later one.
LEMMA Grows ==
    ASSUME NEW v \in Versions, NEW w \in Versions, v <= w
    PROVE  /\ Tables(v) \subseteq Tables(w)
           /\ \A t \in Tables(v) : Columns[v][t] \subseteq Columns[w][t]
<1>1. 1 .. v \subseteq 1 .. w
  BY DEF Versions
<1>2. Tables(v) \subseteq Tables(w)
  BY <1>1, TablesAre
<1>3. ASSUME NEW t \in Tables(v), NEW c \in Columns[v][t] PROVE c \in Columns[w][t]
  <2>1. \E n \in 1 .. v : BroughtBy(t, c, n)
    BY ColumnsAre
  <2> QED
    BY <1>1, <1>2, <2>1, ColumnsAre
<1> QED
  BY <1>2, <1>3

\* A column comes from one revision.
LEMMA AddedIs ==
    ASSUME NEW t \in Tables(Newest), NEW c \in Columns[Newest][t]
    PROVE  /\ Added[t][c] \in 1 .. 14 /\ BroughtBy(t, c, Added[t][c])
           /\ \A n \in 1 .. 14 : BroughtBy(t, c, n) => n = Added[t][c]
<1>1. \A n \in 1 .. 14 : (\E x \in Revisions[n] : x.table = t /\ c \in x.columns) <=> BroughtBy(t, c, n)
  BY Bring
<1>2. \E n \in 1 .. 14 : BroughtBy(t, c, n)
  BY NewestIs, ColumnsAre
<1>3. Added[t][c] = CHOOSE n \in 1 .. 14 : \E x \in Revisions[n] : x.table = t /\ c \in x.columns
  BY NewestIs, Zenon DEF Added
<1>4. Added[t][c] \in 1 .. 14 /\ \E x \in Revisions[Added[t][c]] : x.table = t /\ c \in x.columns
  BY <1>1, <1>2, <1>3, Zenon
<1>5. BroughtBy(t, c, Added[t][c])
  BY <1>1, <1>4
<1>6. \A n, m \in 1 .. 14 : BroughtBy(t, c, n) /\ BroughtBy(t, c, m) => n = m
  BY DEF BroughtBy
<1> QED
  BY <1>4, <1>5, <1>6

\* A column that a version lacks came later.
LEMMA AddedLater ==
    ASSUME NEW v \in Versions, NEW t \in Tables(v), NEW c \in Columns[Newest][t], c \notin Columns[v][t]
    PROVE  t \in Tables(Newest) /\ v < Added[t][c]
<1>1. t \in Tables(Newest)
  BY NewestIs, Grows DEF Versions
<1>2. Added[t][c] \in 1 .. 14 /\ BroughtBy(t, c, Added[t][c])
  BY <1>1, AddedIs
<1>3. ~ (Added[t][c] \in 1 .. v)
  BY <1>2, ColumnsAre
<1> QED
  BY <1>1, <1>2, <1>3 DEF Versions

\* What the revisions put into the rows there were, where a clause speaks of it.
LEMMA FillsAre ==
    /\ FillOf("usage", "settled") = "then" /\ FillOf("users", "verified") = "then"
    /\ FillOf("traces", "source") = "legacy" /\ FillOf("documents", "owner") = Seed
<1> DEFINE Fill(t, k) == (CHOOSE x \in Revisions[Added[t][k]] : x.table = t /\ k \in x.columns).fill
<1>0. \A t, k : FillOf(t, k) = CASE Fill(t, k) = "seed" -> Seed [] Fill(t, k) = "everything" -> 0 [] OTHER -> Fill(t, k)
  BY DEF FillOf
<1>1. ASSUME NEW t, NEW k, NEW n \in 1 .. 14, BroughtBy(t, k, n) PROVE Added[t][k] = n
  <2>1. t \in Tables(Newest)
    <3>1. \E m \in 1 .. 14 : MadeBy(t, m)
      BY <1>1, Bring
    <3> QED
      BY <3>1, NewestIs, TablesAre
  <2>2. k \in Columns[Newest][t]
    BY <1>1, <2>1, NewestIs, ColumnsAre
  <2> QED
    BY <1>1, <2>1, <2>2, AddedIs
<1>2. Added["usage"]["settled"] = 9 /\ Added["users"]["verified"] = 8
      /\ Added["traces"]["source"] = 12 /\ Added["documents"]["owner"] = 3
  BY <1>1 DEF BroughtBy
<1>3. Fill("usage", "settled") = "then"
  <2>1. \A x \in Revisions[9] : x.table = "usage" /\ "settled" \in x.columns => x.fill = "then"
    BY RevisionsAre DEF Adds
  <2>2. \E x \in Revisions[9] : x.table = "usage" /\ "settled" \in x.columns
    BY RevisionsAre DEF Adds
  <2> QED
    BY <1>2, <2>1, <2>2
<1>4. Fill("users", "verified") = "then"
  <2>1. \A x \in Revisions[8] : x.table = "users" /\ "verified" \in x.columns => x.fill = "then"
    BY RevisionsAre DEF Adds, Creates
  <2>2. \E x \in Revisions[8] : x.table = "users" /\ "verified" \in x.columns
    BY RevisionsAre DEF Adds
  <2> QED
    BY <1>2, <2>1, <2>2
<1>5. Fill("traces", "source") = "legacy"
  <2>1. \A x \in Revisions[12] : x.table = "traces" /\ "source" \in x.columns => x.fill = "legacy"
    BY RevisionsAre DEF Adds
  <2>2. \E x \in Revisions[12] : x.table = "traces" /\ "source" \in x.columns
    BY RevisionsAre DEF Adds
  <2> QED
    BY <1>2, <2>1, <2>2
<1>6. Fill("documents", "owner") = "seed"
  <2>1. \A x \in Revisions[3] : x.table = "documents" /\ "owner" \in x.columns => x.fill = "seed"
    BY RevisionsAre DEF Adds, Creates
  <2>2. \E x \in Revisions[3] : x.table = "documents" /\ "owner" \in x.columns
    BY RevisionsAre DEF Adds
  <2> QED
    BY <1>2, <2>1, <2>2
<1> HIDE DEF Fill
<1> QED
  BY <1>0, <1>3, <1>4, <1>5, <1>6

-----------------------------------------------------------------------------
\* The columns the models name are those of the newest version.
BroughtEver(t, c) == \E n \in 1 .. 14 : BroughtBy(t, c, n)

\* A model names the columns its table has at the newest version, and every table has
\* a model.
LEMMA ModelsAre ==
    /\ \A m \in Models : m.table \in Tables(Newest) /\ Columns[Newest][m.table] = m.columns
    /\ \A t \in Tables(Newest) : Model(t, Columns[Newest][t]) \in Models
<1>1. \A t : t \in Tables(Newest) <=> \E n \in 1 .. 14 : MadeBy(t, n)
  BY NewestIs, TablesAre
<1>2. \A t \in Tables(Newest) : \A c : c \in Columns[Newest][t] <=> BroughtEver(t, c)
  BY NewestIs, ColumnsAre DEF BroughtEver
<1>3. \A t \in Tables(Newest) : \E m \in Models : m.table = t
  <2>1. \A t : (\E n \in 1 .. 14 : MadeBy(t, n)) =>
             t \in {"documents", "chunks", "users", "sessions", "usage", "cache", "traces", "trace_chunks",
                   "conversations", "messages", "tokens", "runs", "results"}
    BY DEF MadeBy
  <2>2. \A t \in {"documents", "chunks", "users", "sessions", "usage", "cache", "traces", "trace_chunks",
                   "conversations", "messages", "tokens", "runs", "results"} : \E m \in Models : m.table = t
    BY DEF Models, AccountModels, DocumentModels, UsageModels, TraceModels, ChatModels, EvalModels, CacheModels, Model
  <2> QED
    BY <1>1, <2>1, <2>2
<1>4. ASSUME NEW m \in Models
      PROVE  /\ m = Model(m.table, m.columns) /\ \E n \in 1 .. 14 : MadeBy(m.table, n)
             /\ \A c : c \in m.columns <=> BroughtEver(m.table, c)
  <2>1. CASE m \in AccountModels
    BY <2>1 DEF AccountModels, Model, MadeBy, BroughtEver, BroughtBy
  <2>2. CASE m \in DocumentModels
    BY <2>2 DEF DocumentModels, Model, MadeBy, BroughtEver, BroughtBy
  <2>3. CASE m \in UsageModels
    BY <2>3 DEF UsageModels, Model, MadeBy, BroughtEver, BroughtBy
  <2>4. CASE m \in TraceModels
    BY <2>4 DEF TraceModels, Model, MadeBy, BroughtEver, BroughtBy
  <2>5. CASE m \in ChatModels
    BY <2>5 DEF ChatModels, Model, MadeBy, BroughtEver, BroughtBy
  <2>6. CASE m \in EvalModels
    BY <2>6 DEF EvalModels, Model, MadeBy, BroughtEver, BroughtBy
  <2>7. CASE m \in CacheModels
    BY <2>7 DEF CacheModels, Model, MadeBy, BroughtEver, BroughtBy
  <2> QED
    BY <2>1, <2>2, <2>3, <2>4, <2>5, <2>6, <2>7 DEF Models
<1>5. ASSUME NEW m \in Models PROVE m.table \in Tables(Newest) /\ Columns[Newest][m.table] = m.columns
  <2>1. m.table \in Tables(Newest)
    BY <1>1, <1>4
  <2>2. \A c : c \in Columns[Newest][m.table] <=> c \in m.columns
    BY <1>2, <1>4, <2>1
  <2> QED
    BY <2>1, <2>2
<1>6. ASSUME NEW t \in Tables(Newest) PROVE Model(t, Columns[Newest][t]) \in Models
  <2>1. PICK m \in Models : m.table = t
    BY <1>3
  <2> QED
    BY <1>4, <1>5, <2>1
<1> QED
  BY <1>5, <1>6

-----------------------------------------------------------------------------
\* The columns of the newest version, table by table.
LEMMA TablesNow ==
    {"documents", "chunks", "users", "sessions", "usage", "cache", "traces", "trace_chunks",
     "conversations", "messages", "tokens", "runs", "results"} \subseteq Tables(Newest)
  BY NewestIs, TablesAre DEF MadeBy

\* What the models of today name.
LEMMA ColumnsNow ==
    /\ Columns[Newest]["users"] = {"verified"} /\ Columns[Newest]["tokens"] = {"user"}
    /\ Columns[Newest]["documents"] = {"owner"} /\ Columns[Newest]["chunks"] = {"document", "sparse"}
    /\ Columns[Newest]["usage"] = {"user", "settled"} /\ Columns[Newest]["cache"] = {"user", "document"}
    /\ Columns[Newest]["traces"] = {"user", "document", "status", "source"}
    /\ Columns[Newest]["trace_chunks"] = {"trace"}
    /\ Columns[Newest]["conversations"] = {"user", "scope"}
    /\ Columns[Newest]["messages"] = {"conversation", "scope"}
    /\ Columns[Newest]["runs"] = {"cut"} /\ Columns[Newest]["results"] = {"run"}
<1>1. \A t, C : Model(t, C) \in Models => Columns[Newest][t] = C
  BY ModelsAre DEF Model
<1>2. /\ Model("users", {"verified"}) \in Models /\ Model("tokens", {"user"}) \in Models
      /\ Model("documents", {"owner"}) \in Models /\ Model("chunks", {"document", "sparse"}) \in Models
      /\ Model("usage", {"user", "settled"}) \in Models /\ Model("cache", {"user", "document"}) \in Models
      /\ Model("traces", {"user", "document", "status", "source"}) \in Models
      /\ Model("trace_chunks", {"trace"}) \in Models
      /\ Model("conversations", {"user", "scope"}) \in Models
      /\ Model("messages", {"conversation", "scope"}) \in Models
      /\ Model("runs", {"cut"}) \in Models /\ Model("results", {"run"}) \in Models
  BY DEF Models, AccountModels, DocumentModels, UsageModels, TraceModels, ChatModels, EvalModels, CacheModels
<1> QED
  BY <1>1, <1>2

\* A table that fits has the columns of the newest version.
LEMMA FitsIs ==
    ASSUME version \in Versions, NEW T, Fits(T), NEW t \in T, t \in Tables(Newest)
    PROVE  t \in Tables(version) /\ Columns[version][t] = Columns[Newest][t]
<1>1. PICK m \in Models : m.table = t /\ m.columns = Columns[Newest][t]
  BY ModelsAre DEF Model
<1> QED
  BY <1>1 DEF Fits

\* At the newest version everything fits.
LEMMA NewestFits == version = Newest => \A T : Fits(T)
  BY ModelsAre DEF Fits

\* Which column refers to which table.
Refer(t, c, u) ==
    \/ u = "users" /\ ((t = "documents" /\ c = "owner")
                        \/ (t \in {"sessions", "usage", "cache", "traces", "conversations", "tokens"} /\ c = "user"))
    \/ u = "documents" /\ ((t \in {"chunks", "cache"} /\ c = "document") \/ (t = "conversations" /\ c = "scope"))
    \/ u = "traces" /\ t = "trace_chunks" /\ c = "trace"
    \/ u = "conversations" /\ t = "messages" /\ c = "conversation"
    \/ u = "runs" /\ t = "results" /\ c = "run"

\* The keys that cascade or are nulled are the references.
LEMMA KeysRefer ==
    ASSUME NEW t, NEW c
    PROVE  /\ <<t, c>> \in Nulling <=> t = "conversations" /\ c = "scope"
           /\ <<t, c>> \in Cascading => \E u : Refer(t, c, u)
           /\ \A u : Refer(t, c, u) => <<t, c>> \in Cascading \/ (t = "conversations" /\ c = "scope")
           /\ ~ (t = "conversations" /\ c = "scope" /\ <<t, c>> \in Cascading)
  BY DEF Refer, Cascading, Nulling

\* What a reference refers to is there as early as the reference.
LEMMA ReferMade ==
    ASSUME NEW v \in Versions, NEW t \in Tables(v), NEW c \in Columns[v][t], NEW u, Refer(t, c, u)
    PROVE  u \in Tables(v)
<1>1. PICK n \in 1 .. v : BroughtBy(t, c, n)
  BY ColumnsAre
<1>2. v \in Nat /\ n \in Nat /\ n <= v
  BY DEF Versions
<1>3. \E m \in 1 .. n : MadeBy(u, m)
  BY <1>1, <1>2 DEF Refer, BroughtBy, MadeBy
<1>4. \E m \in 1 .. v : MadeBy(u, m)
  BY <1>2, <1>3
<1> QED
  BY <1>4, TablesAre

\* Only the owner of documents is a reference younger than its table.
LEMMA ReferFilled ==
    ASSUME NEW v \in Versions, NEW t \in Tables(v), NEW c \in Columns[Newest][t], c \notin Columns[v][t],
           NEW u, Refer(t, c, u)
    PROVE  t = "documents" /\ c = "owner" /\ u = "users" /\ v < 3
<1>1. PICK m \in 1 .. v : MadeBy(t, m)
  BY TablesAre
<1>2. t \in Tables(Newest)
  BY NewestIs, Grows DEF Versions
<1>3. PICK n \in 1 .. 14 : BroughtBy(t, c, n)
  BY <1>2, NewestIs, ColumnsAre
<1>4. v \in Nat /\ m \in Nat /\ n \in Nat /\ m <= v /\ 1 <= n
  BY DEF Versions
<1>5. v < n
  BY <1>3, <1>4, ColumnsAre
<1> QED
  BY <1>1, <1>3, <1>4, <1>5 DEF Refer, BroughtBy, MadeBy

\* The accounts come with 0003, their confirmation with 0008.
LEMMA UsersAre ==
    ASSUME NEW v \in Versions
    PROVE  /\ "users" \in Tables(v) <=> v >= 3
           /\ "users" \in Tables(v) /\ "verified" \in Columns[v]["users"] => v >= 8
           /\ "users" \in Tables(v) /\ v >= 8 => "verified" \in Columns[v]["users"]
<1>1. \A n : (MadeBy("users", n) <=> n = 3) /\ (BroughtBy("users", "verified", n) <=> n = 8)
  BY DEF MadeBy, BroughtBy
<1>2. "users" \in Tables(v) <=> v >= 3
  BY <1>1, TablesAre DEF Versions
<1>3. "users" \in Tables(v) => ("verified" \in Columns[v]["users"] <=> \E n \in 1 .. v : BroughtBy("users", "verified", n))
  BY ColumnsAre
<1> QED
  BY <1>1, <1>2, <1>3 DEF Versions

-----------------------------------------------------------------------------
\* A row under version v (SchemaTrue, of one row).
Meant(r) == \A c \in DOMAIN r.col : r.col[c] = r.truth[c] \/ Backed(r, c)
\* What no revision fills in: an open reservation is one, only users of the old
\* schema can be unverified without a say, a trace has a source of its version.
Clauses(r, v) ==
    /\ r.table = "usage" /\ "settled" \in DOMAIN r.col => (r.col.settled = "null" => r.truth.settled = "null")
    /\ r.table = "users" /\ "verified" \in DOMAIN r.col => (r.col.verified = "null" => r.since >= 8)
    /\ r.table = "traces" /\ "source" \in DOMAIN r.col => r.col.source \in Allowed(v)
\* The row has the columns of v, and every column of the models was meant to be something.
RowOK(r, v) ==
    /\ r = [id |-> r.id, table |-> r.table, since |-> r.since, truth |-> r.truth, col |-> r.col]
    /\ r.id \in Nat \ {0} /\ (r.id = Seed => r.table = "users")
    /\ r.table \in Tables(v) /\ r.since \in 0 .. v
    /\ r.col = [c \in Columns[v][r.table] |-> r.col[c]]
    /\ r.truth = [c \in Columns[Newest][r.table] |-> r.truth[c]]
    /\ Meant(r) /\ Clauses(r, v)

\* The rows: each has an id of its own, and what they refer to is there.
IdsOK(S, n) == (\A r \in S : r.id < n) /\ \A r, q \in S : r.id = q.id => r = q
\* A reference is null, or its row is in table u.
There(S, x, u) == x = 0 \/ \E t \in S : t.id = x /\ t.table = u
\* The references of the rows S lead to rows of T.
RefersOK(S, T) == \A r \in S : \A c \in DOMAIN r.col : \A u : Refer(r.table, c, u) => There(T, r.col[c], u)
\* A whole database under version v that has used the ids below n.
Base(S, v, n) == (\A r \in S : RowOK(r, v)) /\ IdsOK(S, n) /\ RefersOK(S, S)

\* A server that serves, or is about to without migrating, serves the newest.
StartOK ==
    /\ startup \in [Process -> [phase : {"down", "starting", "serving"}, read : Versions]]
    /\ \A p \in Process :
          (startup[p].phase = "serving" \/ (startup[p].phase = "starting" /\ startup[p].read = Newest)) /\ ~undone
             => version = Newest

\* The invariant: a whole database, and servers that are right about its version.
SchemaInv ==
    /\ version \in Versions /\ nextId \in Nat /\ nextId >= 10 /\ undone \in BOOLEAN
    /\ Base(rows, version, nextId) /\ StartOK

\* The invariant is what SchemaTrue says.
LEMMA SchemaIsTrue == SchemaInv => SchemaTrue
<1> SUFFICES ASSUME SchemaInv PROVE SchemaTrue
  OBVIOUS
<1>1. ASSUME NEW r \in rows
      PROVE /\ r.table \in Tables(version) /\ DOMAIN r.col = Columns[version][r.table]
            /\ version = Newest => Model(r.table, DOMAIN r.col) \in Models
            /\ Meant(r) /\ Clauses(r, version)
  <2>1. RowOK(r, version)
    BY DEF SchemaInv, Base
  <2>2. r.table \in Tables(version) /\ DOMAIN r.col = Columns[version][r.table]
    BY <2>1 DEF RowOK
  <2> QED
    BY <2>1, <2>2, ModelsAre DEF RowOK
<1>2. ASSUME NEW r \in rows, NEW c \in DOMAIN r.col, <<r.table, c>> \in Cascading \cup Nulling
      PROVE  r.col[c] \in {0} \cup {t.id : t \in rows}
  <2>1. \E u : Refer(r.table, c, u)
    <3>1. <<r.table, c>> \in Cascading \/ (r.table = "conversations" /\ c = "scope")
      BY <1>2, KeysRefer
    <3>2. r.table = "conversations" /\ c = "scope" => Refer(r.table, c, "documents")
      BY DEF Refer
    <3> QED
      BY <3>1, <3>2, KeysRefer
  <2> QED
    BY <2>1 DEF SchemaInv, Base, RefersOK, There
<1>3. \A p \in Process : startup[p].phase = "serving" /\ ~undone => Fits({m.table : m \in Models})
  BY NewestFits DEF SchemaInv, StartOK
<1> QED
  BY <1>1, <1>2, <1>3 DEF SchemaTrue, Meant, Clauses

-----------------------------------------------------------------------------
\* What a step writes: new rows, which refer to what there is or to each other,
LEMMA Written ==
    ASSUME NEW v, NEW n \in Nat, NEW K, NEW W, Base(K, v, n),
           \A r \in W : RowOK(r, v) /\ r.id \in {n, n + 1},
           \A r, q \in W : r.id = q.id => r = q, RefersOK(W, K \cup W)
    PROVE  Base(K \cup W, v, n + 2)
<1>1. \A r \in K : r.id \in Nat /\ r.id < n
  BY DEF Base, IdsOK, RowOK
<1>2. IdsOK(K \cup W, n + 2)
  BY <1>1 DEF Base, IdsOK
<1>3. RefersOK(K \cup W, K \cup W)
  <2>1. \A x, u : There(K, x, u) => There(K \cup W, x, u)
    BY DEF There
  <2> QED
    BY <2>1 DEF Base, RefersOK
<1> QED
  BY <1>2, <1>3 DEF Base

\* rows that change neither their id nor what they refer to,
Rewrites(x, g, v) ==
    /\ RowOK(x, v) /\ x.id = g.id /\ x.table = g.table
    /\ \A c, u : Refer(g.table, c, u) => x.col[c] = g.col[c]

\* leave the database whole.
LEMMA Rewritten ==
    ASSUME NEW v, NEW n, NEW S, NEW G \in SUBSET S, NEW f, Base(S, v, n), \A g \in G : Rewrites(f[g], g, v)
    PROVE  Base((S \ G) \cup {f[g] : g \in G}, v, n)
<1> DEFINE N == (S \ G) \cup {f[g] : g \in G}
<1>1. \A r \in N : RowOK(r, v)
  BY DEF Base, Rewrites
<1>2. \A r \in N : \E q \in S : q.id = r.id /\ ((q \notin G /\ r = q) \/ (q \in G /\ r = f[q]))
  BY DEF Rewrites
<1>3. \A q \in S : \E r \in N : r.id = q.id /\ r.table = q.table
  <2>1. ASSUME NEW q \in S PROVE \E r \in N : r.id = q.id /\ r.table = q.table
    <3>1. CASE q \in G
      BY <3>1 DEF Rewrites
    <3>2. CASE q \notin G
      BY <3>2
    <3> QED
      BY <3>1, <3>2
  <2> QED
    BY <2>1
<1>4. IdsOK(N, n)
  BY <1>2 DEF IdsOK, Base, Rewrites
<1>5. \A x, u : There(S, x, u) => There(N, x, u)
  <2> HIDE DEF N
  <2> QED
    BY <1>3 DEF There
<1>6. RefersOK(N, N)
  <2>1. ASSUME NEW r \in N, NEW c \in DOMAIN r.col, NEW u, Refer(r.table, c, u)
        PROVE  There(N, r.col[c], u)
    <3>1. CASE r \in S \ G
      BY <2>1, <3>1, <1>5 DEF Base, RefersOK
    <3>2. CASE \E g \in G : r = f[g]
      <4>1. PICK g \in G : r = f[g]
        BY <3>2
      <4>2. c \in DOMAIN g.col /\ r.col[c] = g.col[c] /\ Refer(g.table, c, u)
        BY <2>1, <4>1 DEF Base, RowOK, Rewrites
      <4>3. There(S, g.col[c], u)
        BY <4>2 DEF Base, RefersOK
      <4> QED
        BY <4>2, <4>3, <1>5
    <3> QED
      BY <3>1, <3>2
  <2> HIDE DEF N
  <2> QED
    BY <2>1 DEF RefersOK
<1> QED
  BY <1>1, <1>4, <1>6 DEF Base

\* and the deletion of rows that nothing can refer to.
LEMMA Swept ==
    ASSUME NEW v, NEW n, NEW S, NEW G \in SUBSET S, Base(S, v, n),
           \A g \in G : \A t, c : ~ Refer(t, c, g.table)
    PROVE  Base(S \ G, v, n)
<1>1. IdsOK(S \ G, n) /\ \A r \in S \ G : RowOK(r, v)
  BY DEF Base, IdsOK
<1>2. \A t, c, x, u : Refer(t, c, u) /\ There(S, x, u) => There(S \ G, x, u)
  BY DEF There
<1>3. RefersOK(S \ G, S \ G)
  BY <1>2 DEF Base, RefersOK
<1> QED
  BY <1>1, <1>3 DEF Base

\* A row as the program of a version writes it.
Whole(t, v, truth) ==
    /\ truth = [c \in Columns[Newest][t] |-> truth[c]]
    /\ t = "traces" /\ "source" \in Columns[v][t] => truth.source \in Allowed(v)

\* The row that is written: under id in table t, what was meant, as far as v has columns for it.
RowMade(x, id, t, v, truth) ==
    /\ RowOK(x, v) /\ x.id = id /\ x.table = t /\ x.truth = truth
    /\ x.col = [c \in Columns[v][t] |-> truth[c]]

\* RowOf writes such a row.
LEMMA RowOfOK ==
    ASSUME NEW v \in Versions, NEW t \in Tables(v), NEW id \in Nat \ {0}, id = Seed => t = "users",
           NEW truth, Whole(t, v, truth)
    PROVE  RowMade(RowOf(id, t, v, truth), id, t, v, truth)
<1> DEFINE r == RowOf(id, t, v, truth)
<1>1. /\ r = [id |-> r.id, table |-> r.table, since |-> r.since, truth |-> r.truth, col |-> r.col]
      /\ r.id = id /\ r.table = t /\ r.truth = truth /\ r.since = v
      /\ r.col = [c \in Columns[v][t] |-> truth[c]]
  BY DEF RowOf
<1> HIDE DEF r
<1>2. r.col = [c \in Columns[v][r.table] |-> r.col[c]] /\ \A c \in DOMAIN r.col : r.col[c] = r.truth[c]
  BY <1>1
<1>3. Meant(r)
  BY <1>2 DEF Meant
<1>4. Clauses(r, v)
  <2>1. r.table = "users" /\ "verified" \in DOMAIN r.col => r.since >= 8
    BY <1>1, UsersAre
  <2> QED
    BY <1>1, <1>2, <2>1 DEF Clauses, Whole
<1>5. v \in 0 .. v
  BY DEF Versions
<1>6. RowOK(r, v)
  BY <1>1, <1>2, <1>3, <1>4, <1>5 DEF RowOK, Whole
<1> QED
  BY <1>1, <1>6 DEF r, RowMade

-----------------------------------------------------------------------------
\* A deletion: what is left is what there was, but for the scope of conversations.
Nulls(r, c, gone) == <<r.table, c>> \in Nulling /\ \E g \in gone : g.id = r.col[c]

\* The row r, which none of its cascades deletes, as x afterwards.
Outlives(x, r, gone) ==
    /\ \A c \in DOMAIN r.col : <<r.table, c>> \in Cascading => \A g \in gone : g.id # r.col[c]
    /\ x = [r EXCEPT !.col = [c \in DOMAIN r.col |-> IF Nulls(r, c, gone) THEN 0 ELSE r.col[c]],
                     !.truth = [c \in DOMAIN r.truth |->
                                   IF c \in DOMAIN r.col /\ Nulls(r, c, gone) THEN 0 ELSE r.truth[c]]]

\* Without leaves only such rows.
LEMMA WithoutIs ==
    ASSUME NEW gone, NEW x \in Without(gone)
    PROVE  \E r \in rows \ gone : Outlives(x, r, gone)
<1> DEFINE ids == {r.id : r \in gone}
<1> DEFINE Refers(r, keys) == {c \in DOMAIN r.col : <<r.table, c>> \in keys /\ r.col[c] \in ids}
<1> DEFINE Nulled(f, r) == [c \in DOMAIN f |-> IF c \in Refers(r, Nulling) THEN 0 ELSE f[c]]
<1>1. PICK r \in rows \ gone : Refers(r, Cascading) = {} /\ x = [r EXCEPT !.col = Nulled(@, r), !.truth = Nulled(@, r)]
  BY Zenon DEF Without
<1>2. \A c : c \in Refers(r, Nulling) <=> c \in DOMAIN r.col /\ Nulls(r, c, gone)
  BY DEF Nulls
<1>3. \A c \in DOMAIN r.col : <<r.table, c>> \in Cascading => \A g \in gone : g.id # r.col[c]
  BY <1>1
<1> HIDE DEF Refers
<1>4. Nulled(r.col, r) = [c \in DOMAIN r.col |-> IF Nulls(r, c, gone) THEN 0 ELSE r.col[c]]
  BY <1>2
<1>5. Nulled(r.truth, r) = [c \in DOMAIN r.truth |->
          IF c \in DOMAIN r.col /\ Nulls(r, c, gone) THEN 0 ELSE r.truth[c]]
  BY <1>2
<1> HIDE DEF Nulled
<1>6. x = [r EXCEPT !.col = Nulled(r.col, r), !.truth = Nulled(r.truth, r)]
  BY <1>1
<1> QED
  BY <1>3, <1>4, <1>5, <1>6, Zenon DEF Outlives

\* What refers to nothing that is deleted stays.
LEMMA WithoutHas ==
    ASSUME NEW gone, NEW r \in rows \ gone,
           \A c \in DOMAIN r.col : <<r.table, c>> \in Cascading => \A g \in gone : g.id # r.col[c]
    PROVE  \E x \in Without(gone) : x.id = r.id /\ x.table = r.table
<1> DEFINE ids == {q.id : q \in gone}
<1> DEFINE Refers(q, keys) == {c \in DOMAIN q.col : <<q.table, c>> \in keys /\ q.col[c] \in ids}
<1> DEFINE Nulled(f, q) == [c \in DOMAIN f |-> IF c \in Refers(q, Nulling) THEN 0 ELSE f[c]]
<1>1. Refers(r, Cascading) = {}
  OBVIOUS
<1> DEFINE x == [r EXCEPT !.col = Nulled(@, r), !.truth = Nulled(@, r)]
<1>2. x \in Without(gone)
  BY <1>1, Zenon DEF Without
<1> HIDE DEF Nulled
<1>3. x.id = r.id /\ x.table = r.table
  OBVIOUS
<1> HIDE DEF x
<1> QED
  BY <1>2, <1>3

\* A document, a conversation or a refused trace is deleted, with what hangs on it:
\* nothing that stays referred to what went.
LEMMA WithoutKeeps ==
    ASSUME NEW v \in Versions, NEW n, Base(rows, v, n), NEW gone \in SUBSET rows,
           \A g \in gone : g.table \in {"documents", "conversations", "traces"}
    PROVE  /\ Base(Without(gone), v, n)
           /\ \A x \in Without(gone) : x.table # "conversations" => x \in rows \ gone
<1> DEFINE W == Without(gone)
<1> DEFINE Hit(r, c) == \E g \in gone : g.id = r.col[c]
<1>1. ASSUME NEW x \in W
      PROVE  \E r \in rows \ gone :
                /\ x.id = r.id /\ x.table = r.table /\ RowOK(x, v) /\ DOMAIN x.col = DOMAIN r.col
                /\ r.table # "conversations" => x = r
                /\ \A c \in DOMAIN r.col : <<r.table, c>> \in Cascading => x.col[c] = r.col[c] /\ ~Hit(r, c)
                /\ r.table = "conversations" /\ "scope" \in DOMAIN r.col =>
                      x.col["scope"] = IF Hit(r, "scope") THEN 0 ELSE r.col["scope"]
  <2>1. PICK r \in rows \ gone : Outlives(x, r, gone)
    BY WithoutIs
  <2>2. RowOK(r, v)
    BY DEF Base
  <2>3. \A c : Nulls(r, c, gone) => r.table = "conversations" /\ c = "scope" /\ ~ (<<r.table, c>> \in Cascading) /\ Hit(r, c)
    BY KeysRefer DEF Nulls
  <2>4. r.table = "conversations" /\ Hit(r, "scope") => Nulls(r, "scope", gone)
    BY KeysRefer, SMTT(30) DEF Nulls
  <2> HIDE DEF Hit
  <2>5. /\ x.id = r.id /\ x.table = r.table /\ x.since = r.since
        /\ x = [id |-> x.id, table |-> x.table, since |-> x.since, truth |-> x.truth, col |-> x.col]
        /\ DOMAIN x.col = DOMAIN r.col /\ DOMAIN x.truth = DOMAIN r.truth
        /\ \A c \in DOMAIN r.col : x.col[c] = IF Nulls(r, c, gone) THEN 0 ELSE r.col[c]
        /\ \A c \in DOMAIN r.truth : x.truth[c] = IF c \in DOMAIN r.col /\ Nulls(r, c, gone) THEN 0 ELSE r.truth[c]
        /\ x.col = [c \in DOMAIN r.col |-> x.col[c]]
        /\ x.truth = [c \in DOMAIN r.truth |-> x.truth[c]]
    BY <2>1, <2>2 DEF RowOK, Outlives
  <2>6. DOMAIN r.col = Columns[v][r.table] /\ DOMAIN r.truth = Columns[Newest][r.table] /\ DOMAIN r.col \subseteq DOMAIN r.truth
    <3>1. DOMAIN r.col = Columns[v][r.table] /\ DOMAIN r.truth = Columns[Newest][r.table] /\ r.table \in Tables(v)
      BY <2>2 DEF RowOK
    <3>2. Columns[v][r.table] \subseteq Columns[Newest][r.table]
      BY <3>1, Grows, NewestIs DEF Versions
    <3> QED
      BY <3>1, <3>2
  <2>7. Meant(x)
    <3>1. \A c \in DOMAIN r.col : x.col[c] = r.col[c] /\ Backed(r, c) => Backed(x, c)
      BY <2>5 DEF Backed
    <3>2. ASSUME NEW c \in DOMAIN r.col PROVE x.col[c] = x.truth[c] \/ Backed(x, c)
      <4>1. c \in DOMAIN r.truth /\ (r.col[c] = r.truth[c] \/ Backed(r, c))
        BY <2>2, <2>6 DEF Meant, RowOK
      <4>2. CASE Nulls(r, c, gone)
        BY <2>5, <4>1, <4>2
      <4>3. CASE ~Nulls(r, c, gone)
        BY <2>5, <3>1, <4>1, <4>3
      <4> QED
        BY <4>2, <4>3
    <3> QED
      BY <2>5, <3>2 DEF Meant
  <2>8. r.table # "conversations" => x = r
    <3>1. r.table # "conversations" => \A c : ~Nulls(r, c, gone)
      BY <2>3
    <3>2. r.table # "conversations" => x.col = r.col /\ x.truth = r.truth
      BY <3>1, <2>2, <2>5, <2>6 DEF RowOK
    <3> QED
      BY <3>2, <2>2, <2>5 DEF RowOK
  <2>9. Clauses(x, v)
    BY <2>2, <2>5, <2>8 DEF Clauses, RowOK
  <2>10. RowOK(x, v)
    BY <2>2, <2>5, <2>6, <2>7, <2>9 DEF RowOK
  <2>11. \A c \in DOMAIN r.col : <<r.table, c>> \in Cascading => x.col[c] = r.col[c] /\ ~Hit(r, c)
    <3>1. ASSUME NEW c \in DOMAIN r.col, <<r.table, c>> \in Cascading PROVE x.col[c] = r.col[c] /\ ~Hit(r, c)
      <4>1. ~Nulls(r, c, gone)
        BY <2>3, <3>1
      <4>2. ~Hit(r, c)
        BY <2>1, <3>1 DEF Outlives, Hit
      <4> QED
        BY <2>5, <4>1, <4>2
    <3> QED
      BY <3>1
  <2>12. r.table = "conversations" /\ "scope" \in DOMAIN r.col =>
                      x.col["scope"] = IF Hit(r, "scope") THEN 0 ELSE r.col["scope"]
    BY <2>3, <2>4, <2>5
  <2> QED
    BY <2>5, <2>8, <2>10, <2>11, <2>12
<1>2. \A x \in W : x.table # "conversations" => x \in rows \ gone
  BY <1>1
<1>3. IdsOK(W, n)
  <2>1. ASSUME NEW x \in W, NEW y \in W, x.id = y.id PROVE x = y
    <3>1. PICK r \in rows \ gone : Outlives(x, r, gone)
      BY WithoutIs
    <3>2. PICK q \in rows \ gone : Outlives(y, q, gone)
      BY WithoutIs, SMTT(30)
    <3>3. x.id = r.id /\ y.id = q.id
      <4>1. RowOK(r, v) /\ RowOK(q, v)
        BY DEF Base
      <4> QED
        BY <3>1, <3>2, <4>1 DEF RowOK, Outlives
    <3>4. r = q
      BY <2>1, <3>3 DEF Base, IdsOK
    <3> QED
      BY <3>1, <3>2, <3>4, Zenon DEF Outlives
  <2>2. \A x \in W : x.id < n
    BY <1>1 DEF Base, IdsOK
  <2> HIDE DEF W
  <2> QED
    BY <2>1, <2>2 DEF IdsOK
<1>4. ASSUME NEW y, NEW u, There(rows, y, u), \E t, c : Refer(t, c, u), \A g \in gone : g.id # y
      PROVE  There(W, y, u)
  <2>1. CASE y = 0
    BY <2>1 DEF There
  <2>2. CASE y # 0
    <3>1. PICK t \in rows : t.id = y /\ t.table = u
      BY <1>4, <2>2 DEF There
    <3>2. t \notin gone
      BY <1>4, <3>1
    <3> QED
      <4>1. CASE \A c \in DOMAIN t.col : <<t.table, c>> \in Cascading => \A g \in gone : g.id # t.col[c]
        <5>1. \E x \in Without(gone) : x.id = t.id /\ x.table = t.table
          BY <3>2, <4>1, WithoutHas
        <5> QED
          BY <3>1, <5>1 DEF There
      <4>2. CASE \E c \in DOMAIN t.col : <<t.table, c>> \in Cascading /\ \E g \in gone : g.id = t.col[c]
        <5>1. PICK c \in DOMAIN t.col : <<t.table, c>> \in Cascading /\ \E g \in gone : g.id = t.col[c]
          BY <4>2
        <5>2. PICK g \in gone : g.id = t.col[c]
          BY <5>1
        <5>3. PICK w : Refer(t.table, c, w)
          BY <5>1, KeysRefer
        <5>4. There(rows, t.col[c], w)
          BY <5>3 DEF Base, RefersOK
        <5>5. g.id \in Nat \ {0}
          BY DEF Base, RowOK
        <5>6. PICK q \in rows : q.id = t.col[c] /\ q.table = w
          BY <5>2, <5>4, <5>5 DEF There
        <5>7. q = g
          BY <5>2, <5>6 DEF Base, IdsOK
        <5>8. w \in {"documents", "conversations", "traces"}
          BY <5>6, <5>7
        <5>9. FALSE
          <6>1. t.table \in {"users", "documents", "traces", "conversations", "runs"}
            BY <1>4, <3>1 DEF Refer
          <6>2. t.table = "conversations" => c # "scope"
            BY <5>1, KeysRefer
          <6> QED
            BY <5>3, <5>8, <6>1, <6>2 DEF Refer
        <5> QED
          BY <5>9
      <4> QED
        BY <4>1, <4>2
  <2> QED
    BY <2>1, <2>2
<1>5. RefersOK(W, W)
  <2>1. ASSUME NEW x \in W, NEW c \in DOMAIN x.col, NEW u, Refer(x.table, c, u)
        PROVE  There(W, x.col[c], u)
    <3>1. PICK r \in rows \ gone :
                /\ x.table = r.table /\ DOMAIN x.col = DOMAIN r.col
                /\ \A k \in DOMAIN r.col : <<r.table, k>> \in Cascading => x.col[k] = r.col[k] /\ ~Hit(r, k)
                /\ r.table = "conversations" /\ "scope" \in DOMAIN r.col =>
                      x.col["scope"] = IF Hit(r, "scope") THEN 0 ELSE r.col["scope"]
      BY <1>1
    <3>2. There(rows, r.col[c], u)
      BY <2>1, <3>1 DEF Base, RefersOK
    <3>3. CASE <<r.table, c>> \in Cascading
      BY <3>1, <3>2, <3>3, <2>1, <1>4
    <3>4. CASE r.table = "conversations" /\ c = "scope"
      <4>1. CASE Hit(r, "scope")
        BY <2>1, <3>1, <3>4, <4>1 DEF There
      <4>2. CASE ~Hit(r, "scope")
        BY <2>1, <3>1, <3>2, <3>4, <4>2, <1>4
      <4> QED
        BY <4>1, <4>2
    <3> QED
      BY <2>1, <3>1, <3>3, <3>4, KeysRefer
  <2> HIDE DEF W
  <2> QED
    BY <2>1 DEF RefersOK
<1>6. \A x \in W : RowOK(x, v)
  BY <1>1
<1> HIDE DEF W
<1> QED
  BY <1>2, <1>3, <1>5, <1>6 DEF Base, W

\* The lesser of two numbers.
LEMMA LesserOf ==
    ASSUME NEW a \in Nat, NEW b \in Nat
    PROVE  Min({a, b}) \in {a, b} /\ Min({a, b}) <= a /\ Min({a, b}) <= b
<1>1. \E m \in {a, b} : \A k \in {a, b} : m <= k
  OBVIOUS
<1> QED
  BY <1>1 DEF Min

\* One row under the newest version: what it lacked is filled in, the rest stays.
LEMMA UpgradedIs ==
    ASSUME NEW v \in Versions, NEW r, RowOK(r, v)
    PROVE  /\ RowOK(Upgraded(r), Newest)
           /\ Upgraded(r).id = r.id /\ Upgraded(r).table = r.table
           /\ DOMAIN Upgraded(r).col = Columns[Newest][r.table]
           /\ \A c \in DOMAIN Upgraded(r).col :
                 Upgraded(r).col[c] = IF c \in DOMAIN r.col THEN r.col[c] ELSE FillOf(r.table, c)
<1> DEFINE x == Upgraded(r)
<1> DEFINE All == Columns[Newest][r.table]
<1>1. /\ r.table \in Tables(v) /\ r.table \in Tables(Newest) /\ DOMAIN r.col = Columns[v][r.table]
      /\ Columns[v][r.table] \subseteq All /\ r.since \in 0 .. v /\ v <= Newest
  BY NewestIs, Grows DEF Versions, RowOK
<1>2. /\ x.id = r.id /\ x.table = r.table /\ x.since = r.since /\ x.truth = r.truth
      /\ x = [id |-> x.id, table |-> x.table, since |-> x.since, truth |-> x.truth, col |-> x.col]
      /\ x.col = [c \in All |-> IF c \in DOMAIN r.col THEN r.col[c] ELSE FillOf(r.table, c)]
  BY DEF RowOK, Upgraded
<1> HIDE DEF x
<1>3. /\ DOMAIN x.col = All /\ x.col = [c \in All |-> x.col[c]]
      /\ \A c \in All : x.col[c] = IF c \in DOMAIN r.col THEN r.col[c] ELSE FillOf(r.table, c)
  BY <1>2
<1>4. Meant(x)
  <2>1. ASSUME NEW c \in All PROVE x.col[c] = x.truth[c] \/ Backed(x, c)
    <3>1. CASE c \in DOMAIN r.col
      <4>1. r.col[c] = r.truth[c] \/ Backed(r, c)
        BY <3>1 DEF RowOK, Meant
      <4> QED
        BY <1>2, <1>3, <3>1, <4>1 DEF Backed
    <3>2. CASE c \notin DOMAIN r.col
      <4>1. v < Added[r.table][c] /\ r.since < Added[r.table][c]
        <5>1. v < Added[r.table][c] /\ r.table \in Tables(Newest)
          BY <1>1, <3>2, AddedLater
        <5>2. Added[r.table][c] \in 1 .. 14
          BY <5>1, AddedIs
        <5> QED
          BY <1>1, <5>1, <5>2 DEF Versions
      <4> QED
        BY <1>2, <1>3, <3>2, <4>1 DEF Backed
    <3> QED
      BY <3>1, <3>2
  <2> QED
    BY <1>3, <2>1 DEF Meant
<1>5. Clauses(x, Newest)
  <2>1. Clauses(r, v)
    BY DEF RowOK
  <2>2. Allowed(v) \subseteq Allowed(Newest) /\ "legacy" \in Allowed(Newest)
    BY DEF Allowed
  <2>3. "usage" = r.table /\ "settled" \in All => (x.col.settled = "null" => x.truth.settled = "null")
    BY <1>2, <1>3, <2>1, FillsAre DEF Clauses
  <2>4. "users" = r.table /\ "verified" \in All => (x.col.verified = "null" => x.since >= 8)
    BY <1>2, <1>3, <2>1, FillsAre DEF Clauses
  <2>5. "traces" = r.table /\ "source" \in All => x.col.source \in Allowed(Newest)
    BY <1>3, <2>1, <2>2, FillsAre DEF Clauses
  <2> QED
    BY <1>2, <1>3, <2>3, <2>4, <2>5 DEF Clauses
<1>6. x.since \in 0 .. Newest
  BY <1>1, <1>2, NewestIs DEF Versions
<1>7. RowOK(x, Newest)
  BY <1>1, <1>2, <1>3, <1>4, <1>5, <1>6 DEF RowOK
<1> QED
  BY <1>1, <1>2, <1>3, <1>7 DEF x

\* The row of 0003's own account.
LEMMA SeedIs ==
    /\ RowOK(SeedRow(3), 3) /\ SeedRow(3).id = Seed /\ SeedRow(3).table = "users"
<1> DEFINE truth == [verified |-> "null"]
<1>1. "users" \in Tables(3) /\ 3 \in Versions
  BY UsersAre DEF Versions
<1>2. Whole("users", 3, truth)
  BY ColumnsNow DEF Whole
<1>3. SeedRow(3) = RowOf(Seed, "users", 3, truth)
  BY DEF SeedRow
<1>4. Seed \in Nat \ {0}
  BY DEF Seed
<1> HIDE DEF truth
<1>5. RowMade(SeedRow(3), Seed, "users", 3, truth)
  BY <1>1, <1>2, <1>3, <1>4, RowOfOK
<1> QED
  BY <1>5 DEF RowMade

\* The migrations: what a version lacks is made, and documents without an owner
\* get the account that is made with it.
LEMMA UpgradeKeeps ==
    ASSUME NEW v \in Versions, NEW n \in Nat, n >= 10, NEW S, Base(S, v, n)
    PROVE  Base({Upgraded(r) : r \in S \cup IF v < 3 THEN {SeedRow(3)} ELSE {}}, Newest, n)
<1> DEFINE All == S \cup IF v < 3 THEN {SeedRow(3)} ELSE {}
<1> DEFINE N == {Upgraded(r) : r \in All}
<1>1. \A r \in All : r \in S \/ (v < 3 /\ r = SeedRow(3))
  OBVIOUS
<1>2. ASSUME NEW r \in All PROVE \E w \in Versions : RowOK(r, w)
  <2>1. CASE r \in S
    BY <2>1 DEF Base
  <2>2. CASE r = SeedRow(3)
    BY <2>2, SeedIs DEF Versions
  <2> QED
    BY <1>1, <2>1, <2>2
<1>3. \A r \in All :
         /\ RowOK(Upgraded(r), Newest) /\ Upgraded(r).id = r.id /\ Upgraded(r).table = r.table
         /\ DOMAIN Upgraded(r).col = Columns[Newest][r.table]
         /\ \A c \in DOMAIN Upgraded(r).col :
               Upgraded(r).col[c] = IF c \in DOMAIN r.col THEN r.col[c] ELSE FillOf(r.table, c)
  BY <1>2, UpgradedIs
<1>4. v < 3 => \A r \in S : r.id # Seed
  <2>1. v < 3 => "users" \notin Tables(v)
    BY UsersAre DEF Versions
  <2> QED
    BY <2>1 DEF Base, RowOK
<1>5. \A r, q \in All : r.id = q.id => r = q
  BY <1>1, <1>4, SeedIs DEF Base, IdsOK
<1>6. \A r \in All : r.id < n
  BY <1>1, SeedIs DEF Base, IdsOK, Seed
<1>7. IdsOK(N, n)
  BY <1>3, <1>5, <1>6 DEF IdsOK
<1>8. \A y, u : There(All, y, u) => There(N, y, u)
  <2> HIDE DEF All
  <2>1. \A r \in All : Upgraded(r) \in N
    OBVIOUS
  <2> HIDE DEF N
  <2> QED
    BY <1>3, <2>1 DEF There
<1>9. ASSUME NEW r \in All, NEW c \in DOMAIN Upgraded(r).col, NEW u, Refer(r.table, c, u)
      PROVE  There(All, Upgraded(r).col[c], u)
  <2>1. r \in S
    BY <1>1, <1>9, SeedIs DEF Refer
  <2>2. r.table \in Tables(v) /\ DOMAIN r.col = Columns[v][r.table]
    BY <2>1 DEF Base, RowOK
  <2>3. CASE c \in DOMAIN r.col
    <3>1. There(S, r.col[c], u)
      BY <1>9, <2>1, <2>3 DEF Base, RefersOK
    <3> QED
      BY <1>3, <1>9, <2>3, <3>1 DEF There
  <2>4. CASE c \notin DOMAIN r.col
    <3>1. c \in Columns[Newest][r.table] /\ c \notin Columns[v][r.table]
      BY <1>3, <1>9, <2>2, <2>4
    <3>2. r.table = "documents" /\ c = "owner" /\ u = "users" /\ v < 3
      BY <1>9, <2>2, <3>1, ReferFilled
    <3>3. Upgraded(r).col[c] = Seed
      BY <1>3, <1>9, <2>4, <3>2, FillsAre
    <3>4. SeedRow(3) \in All
      BY <3>2
    <3> QED
      BY <3>2, <3>3, <3>4, SeedIs DEF There
  <2> QED
    BY <2>3, <2>4
<1> HIDE DEF All
<1>10. RefersOK(N, N)
  <2>1. ASSUME NEW x \in N, NEW c \in DOMAIN x.col, NEW u, Refer(x.table, c, u)
        PROVE  There(N, x.col[c], u)
    <3>1. PICK r \in All : x = Upgraded(r)
      OBVIOUS
    <3> HIDE DEF N
    <3>2. Refer(r.table, c, u) /\ c \in DOMAIN Upgraded(r).col
      BY <1>3, <2>1, <3>1
    <3> QED
      BY <1>8, <1>9, <3>1, <3>2
  <2> HIDE DEF N
  <2> QED
    BY <2>1 DEF RefersOK
<1>11. \A x \in N : RowOK(x, Newest)
  BY <1>3
<1>12. Base(N, Newest, n)
  <2> HIDE DEF N
  <2> QED
    BY <1>7, <1>10, <1>11 DEF Base
<1> QED
  BY <1>12 DEF All

\* One row under an older version: what that version lacks is gone.
Behind(r, v) == [r EXCEPT !.col = [c \in Columns[v][r.table] |-> r.col[c]], !.since = Min({r.since, v})]

\* It is a row of the older version, unless it is a trace of a source that version lacks.
LEMMA CutIs ==
    ASSUME NEW w \in Versions, NEW v \in Versions, v < w, NEW r, RowOK(r, w), r.table \in Tables(v),
           w = Newest /\ r.table = "traces" => r.col.source # "mcp_answer"
    PROVE  /\ RowOK(Behind(r, v), v)
           /\ Behind(r, v).id = r.id /\ Behind(r, v).table = r.table
           /\ DOMAIN Behind(r, v).col = Columns[v][r.table]
           /\ \A c \in DOMAIN Behind(r, v).col : c \in DOMAIN r.col /\ Behind(r, v).col[c] = r.col[c]
<1> DEFINE x == Behind(r, v)
<1> DEFINE All == Columns[v][r.table]
<1>1. All \subseteq DOMAIN r.col
  BY Grows DEF RowOK, Versions
<1>2. /\ r.since \in Nat /\ v \in Nat /\ w \in Nat
      /\ Min({r.since, v}) \in Nat /\ Min({r.since, v}) <= r.since /\ Min({r.since, v}) <= v
      /\ Min({r.since, v}) \in {r.since, v}
  <2>1. r.since \in Nat /\ v \in Nat /\ w \in Nat
    BY DEF RowOK, Versions
  <2> QED
    BY <2>1, LesserOf
<1>3. /\ x.id = r.id /\ x.table = r.table /\ x.since = Min({r.since, v}) /\ x.truth = r.truth
      /\ x = [id |-> x.id, table |-> x.table, since |-> x.since, truth |-> x.truth, col |-> x.col]
      /\ x.col = [c \in All |-> r.col[c]]
  <2> DEFINE k == [c \in All |-> r.col[c]]
  <2> DEFINE m == Min({r.since, v})
  <2>1. x = [r EXCEPT !.col = k, !.since = m]
    BY Zenon DEF Behind
  <2>2. r = [id |-> r.id, table |-> r.table, since |-> r.since, truth |-> r.truth, col |-> r.col]
    BY DEF RowOK
  <2> HIDE DEF k, m, x
  <2>3. /\ x.id = r.id /\ x.table = r.table /\ x.since = m /\ x.truth = r.truth /\ x.col = k
        /\ x = [id |-> x.id, table |-> x.table, since |-> x.since, truth |-> x.truth, col |-> x.col]
    BY <2>1, <2>2
  <2> QED
    BY <2>3 DEF k, m
<1> HIDE DEF x
<1>4. DOMAIN x.col = All /\ x.col = [c \in All |-> x.col[c]] /\ \A c \in All : c \in DOMAIN r.col /\ x.col[c] = r.col[c]
  BY <1>1, <1>3
<1>5. Meant(x)
  <2>1. ASSUME NEW c \in All PROVE x.col[c] = x.truth[c] \/ Backed(x, c)
    <3>1. r.col[c] = r.truth[c] \/ Backed(r, c)
      BY <1>4 DEF RowOK, Meant
    <3>2. CASE Backed(r, c)
      <4>1. r.table \in Tables(Newest) /\ c \in Columns[Newest][r.table]
        BY <1>4, Grows, NewestIs DEF RowOK, Versions
      <4>2. Added[r.table][c] \in 1 .. 14
        BY <4>1, AddedIs
      <4> QED
        BY <1>2, <1>3, <1>4, <3>2, <4>2 DEF Backed
    <3> QED
      BY <1>3, <1>4, <3>1, <3>2
  <2> QED
    BY <1>4, <2>1 DEF Meant
<1>6. Clauses(x, v)
  <2>1. Clauses(r, w)
    BY DEF RowOK
  <2>2. "usage" = r.table /\ "settled" \in All => (x.col.settled = "null" => x.truth.settled = "null")
    BY <1>3, <1>4, <2>1 DEF Clauses
  <2>3. "users" = r.table /\ "verified" \in All => (x.col.verified = "null" => x.since >= 8)
    <3>1. "users" = r.table /\ "verified" \in All => v >= 8
      BY UsersAre
    <3> QED
      BY <1>2, <1>3, <1>4, <2>1, <3>1 DEF Clauses
  <2>4. "traces" = r.table /\ "source" \in All => x.col.source \in Allowed(v)
    <3>1. \A s : s \in Allowed(w) /\ (w = Newest => s # "mcp_answer") => s \in Allowed(v)
      BY DEF Allowed
    <3> QED
      BY <1>3, <1>4, <2>1, <3>1 DEF Clauses
  <2> QED
    BY <1>3, <1>4, <2>2, <2>3, <2>4 DEF Clauses
<1>7. RowOK(x, v)
  BY <1>2, <1>3, <1>4, <1>5, <1>6 DEF RowOK
<1> QED
  BY <1>3, <1>4, <1>7 DEF x

\* The way back: what stays refers to what stays.
LEMMA DowngradeKeeps ==
    ASSUME NEW w \in Versions, NEW v \in Versions, v < w, NEW n, NEW S, Base(S, w, n),
           \A r \in S : w = Newest /\ r.table = "traces" => r.col.source # "mcp_answer"
    PROVE  Base({Behind(r, v) : r \in {r \in S : r.table \in Tables(v)}}, v, n)
<1> DEFINE Stay == {r \in S : r.table \in Tables(v)}
<1> DEFINE N == {Behind(r, v) : r \in Stay}
<1>1. \A r \in Stay :
           /\ RowOK(Behind(r, v), v)
           /\ Behind(r, v).id = r.id /\ Behind(r, v).table = r.table
           /\ DOMAIN Behind(r, v).col = Columns[v][r.table]
           /\ \A c \in DOMAIN Behind(r, v).col : c \in DOMAIN r.col /\ Behind(r, v).col[c] = r.col[c]
  BY CutIs DEF Base
<1>2. IdsOK(N, n)
  BY <1>1 DEF IdsOK, Base
<1>3. \A y, u : There(S, y, u) /\ u \in Tables(v) => There(N, y, u)
  <2>1. \A r \in Stay : Behind(r, v) \in N
    OBVIOUS
  <2>2. \A r \in S : r.table \in Tables(v) => r \in Stay
    OBVIOUS
  <2> HIDE DEF N, Stay
  <2> QED
    BY <1>1, <2>1, <2>2 DEF There
<1>4. RefersOK(N, N)
  <2>1. ASSUME NEW x \in N, NEW c \in DOMAIN x.col, NEW u, Refer(x.table, c, u)
        PROVE  There(N, x.col[c], u)
    <3>1. PICK r \in Stay : x = Behind(r, v)
      OBVIOUS
    <3>2. c \in DOMAIN r.col /\ x.col[c] = r.col[c] /\ Refer(r.table, c, u) /\ r \in S
      BY <1>1, <2>1, <3>1
    <3>3. There(S, r.col[c], u)
      BY <3>2 DEF Base, RefersOK
    <3>4. u \in Tables(v)
      <4>1. r.table \in Tables(v) /\ c \in Columns[v][r.table]
        BY <1>1, <2>1, <3>1
      <4> QED
        BY <3>2, <4>1, ReferMade
    <3> HIDE DEF N
    <3> QED
      BY <1>3, <3>2, <3>3, <3>4
  <2> HIDE DEF N
  <2> QED
    BY <2>1 DEF RefersOK
<1>5. \A x \in N : RowOK(x, v)
  BY <1>1
<1>6. Base(N, v, n)
  <2> HIDE DEF N
  <2> QED
    BY <1>2, <1>4, <1>5 DEF Base
<1> QED
  BY <1>6

-----------------------------------------------------------------------------
(***************************************************************************)
(* The schema, step by step.                                               *)
(***************************************************************************)
\* A process reads the version.
LEMMA ReadVersionKeeps == SchemaInv /\ (\E p \in Process : ReadVersion(p)) => SchemaInv'
<1> SUFFICES ASSUME SchemaInv, NEW p \in Process, ReadVersion(p) PROVE SchemaInv'
  OBVIOUS
<1>1. UNCHANGED <<version, rows, undone, nextId>>
  BY DEF ReadVersion
<1>2. startup' = [startup EXCEPT ![p] = [phase |-> "starting", read |-> version]]
  BY DEF ReadVersion
<1>3. StartOK'
  BY <1>1, <1>2 DEF SchemaInv, StartOK
<1>4. Base(rows, version, nextId)'
  BY <1>1 DEF SchemaInv
<1> QED
  BY <1>1, <1>3, <1>4 DEF SchemaInv

\* A process ends.
LEMMA TerminateKeeps == SchemaInv /\ (\E p \in Process : Terminate(p)) => SchemaInv'
<1> SUFFICES ASSUME SchemaInv, NEW p \in Process, Terminate(p) PROVE SchemaInv'
  OBVIOUS
<1>1. UNCHANGED <<version, rows, undone, nextId>>
  BY DEF Terminate
<1>2. startup' = [startup EXCEPT ![p] = [phase |-> "down", read |-> 0]]
  BY DEF Terminate, Down
<1>3. StartOK'
  BY <1>1, <1>2 DEF SchemaInv, StartOK, Versions
<1>4. Base(rows, version, nextId)'
  BY <1>1 DEF SchemaInv
<1> QED
  BY <1>1, <1>3, <1>4 DEF SchemaInv

\* A process applies what is missing, or finds that another was first.
LEMMA MigrateKeeps == SchemaInv /\ (\E p \in Process : RunMigrations(p)) => SchemaInv'
<1> SUFFICES ASSUME SchemaInv, NEW p \in Process, RunMigrations(p) PROVE SchemaInv'
  OBVIOUS
<1> DEFINE read == startup[p].read
<1>1. /\ startup[p].phase = "starting" /\ nextId' = nextId
      /\ startup' = [startup EXCEPT ![p] = IF read \in {version, Newest} THEN Serves ELSE Down]
      /\ IF read = version /\ read < Newest
         THEN /\ version' = Newest /\ undone' = FALSE
              /\ rows' = {Upgraded(r) : r \in rows \cup IF version < 3 THEN {SeedRow(3)} ELSE {}}
         ELSE UNCHANGED <<version, rows, undone>>
  BY DEF RunMigrations
<1>2. /\ startup' \in [Process -> [phase : {"down", "starting", "serving"}, read : Versions]]
      /\ \A q \in Process : q # p => startup'[q] = startup[q]
      /\ startup'[p] = IF read \in {version, Newest} THEN Serves ELSE Down
  BY <1>1, NewestIs DEF SchemaInv, StartOK, Serves, Down, Versions
<1>3. CASE read = version /\ read < Newest
  <2>1. Base(rows', Newest, nextId)
    BY <1>1, <1>3, UpgradeKeeps DEF SchemaInv
  <2>2. StartOK'
    BY <1>1, <1>2, <1>3 DEF StartOK
  <2> QED
    BY <1>1, <1>3, <2>1, <2>2, NewestIs DEF SchemaInv
<1>4. CASE ~ (read = version /\ read < Newest)
  <2>1. UNCHANGED <<version, rows, undone>>
    BY <1>1, <1>4
  <2>2. read \in {version, Newest} /\ ~undone => version = Newest
    BY <1>1, <1>4, NewestIs DEF SchemaInv, StartOK, Versions
  <2>3. StartOK'
    <3>1. Down.phase = "down"
      BY DEF Down
    <3> QED
      BY <1>2, <2>1, <2>2, <3>1 DEF StartOK, SchemaInv
  <2>4. Base(rows, version, nextId)'
    BY <1>1, <2>1 DEF SchemaInv
  <2> QED
    BY <1>1, <2>1, <2>3, <2>4 DEF SchemaInv
<1> QED
  BY <1>3, <1>4

\* An operator goes back; what the old list of sources refuses is deleted first.
LEMMA DowngradingKeeps == SchemaInv /\ Downgrade => SchemaInv'
<1> SUFFICES ASSUME SchemaInv, Downgrade PROVE SchemaInv'
  OBVIOUS
<1>1. PICK v \in Targets : v < version /\ version' = v /\ rows' = Downgraded(v)
  BY DEF Downgrade
<1>2. v \in Versions /\ UNCHANGED <<startup, nextId>>
      /\ undone' = (undone \/ \E p \in Process : startup[p].phase # "down")
  BY SchemaBounds DEF Downgrade, Versions
<1> DEFINE gone == {r \in rows : r.table = "traces" /\ version = Newest /\ r.col.source = "mcp_answer"}
<1>3. /\ Base(Without(gone), version, nextId)
      /\ \A x \in Without(gone) : x.table # "conversations" => x \in rows \ gone
  BY WithoutKeeps DEF SchemaInv
<1>4. rows' = {Behind(r, v) : r \in {r \in Without(gone) : r.table \in Tables(v)}}
  BY <1>1, Zenon DEF Downgraded, Behind
<1>5. \A r \in Without(gone) : version = Newest /\ r.table = "traces" => r.col.source # "mcp_answer"
  BY <1>3
<1> HIDE DEF gone
<1>6. Base(rows', v, nextId)
  BY <1>1, <1>2, <1>3, <1>4, <1>5, DowngradeKeeps DEF SchemaInv
<1>7. StartOK'
  BY <1>1, <1>2 DEF SchemaInv, StartOK
<1> QED
  BY <1>1, <1>2, <1>6, <1>7 DEF SchemaInv

-----------------------------------------------------------------------------
\* What a write leaves.
LEMMA Wrote ==
    ASSUME SchemaInv, NEW K, NEW W, Write(K, W), Base(K \cup W, version, nextId + 2)
    PROVE  SchemaInv'
<1>1. UNCHANGED <<version, startup, undone>> /\ rows' = K \cup W /\ nextId' = nextId + 2
  BY DEF Write
<1>2. StartOK'
  BY <1>1 DEF SchemaInv, StartOK
<1>3. Base(rows', version, nextId')
  BY <1>1
<1> QED
  BY <1>1, <1>2, <1>3 DEF SchemaInv

\* Ids that were not given out yet may be more.
LEMMA BaseLater == ASSUME NEW S, NEW v, NEW n \in Nat, Base(S, v, n) PROVE Base(S, v, n + 2)
<1>1. \A r \in S : r.id \in Nat /\ r.id < n
  BY DEF Base, IdsOK, RowOK
<1>2. \A r \in S : r.id < n + 2
  BY <1>1
<1> QED
  BY <1>2 DEF Base, IdsOK

\* One row rewritten.
LEMMA RewrittenOne ==
    ASSUME NEW v, NEW n, NEW S, NEW g \in S, NEW x, Base(S, v, n), Rewrites(x, g, v)
    PROVE  Base((S \ {g}) \cup {x}, v, n)
<1> DEFINE G == {g}
<1> DEFINE f == [q \in G |-> x]
<1>1. G \in SUBSET S /\ (\A q \in G : Rewrites(f[q], q, v)) /\ {f[q] : q \in G} = {x}
  OBVIOUS
<1> HIDE DEF f, G
<1>2. Base((S \ G) \cup {f[q] : q \in G}, v, n)
  BY <1>1, Rewritten
<1> QED
  BY <1>1, <1>2 DEF G

\* A column is set as it is meant.
Sets(x, r, k) == x = [r EXCEPT !.col = [r.col EXCEPT ![k] = "then"], !.truth = [r.truth EXCEPT ![k] = "then"]]

\* Setting a column leaves the row's id and references as they were.
LEMMA SetThen ==
    ASSUME NEW v \in Versions, NEW r, RowOK(r, v), NEW k \in DOMAIN r.col, k # "source",
           \A u : ~ Refer(r.table, k, u), NEW x, Sets(x, r, k)
    PROVE  Rewrites(x, r, v)
<1>1. k \in DOMAIN r.truth
  BY Grows, NewestIs DEF RowOK, Versions
<1>2. r = [id |-> r.id, table |-> r.table, since |-> r.since, truth |-> r.truth, col |-> r.col]
  BY DEF RowOK
<1> DEFINE col == [r.col EXCEPT ![k] = "then"]
<1> DEFINE truth == [r.truth EXCEPT ![k] = "then"]
<1>3. /\ DOMAIN col = DOMAIN r.col /\ col[k] = "then" /\ \A c : c # k => col[c] = r.col[c]
      /\ DOMAIN truth = DOMAIN r.truth /\ truth[k] = "then" /\ \A c : c # k => truth[c] = r.truth[c]
      /\ col = [c \in DOMAIN r.col |-> col[c]] /\ truth = [c \in DOMAIN r.truth |-> truth[c]]
  BY <1>1 DEF RowOK
<1> HIDE DEF col, truth
<1>4. /\ x.id = r.id /\ x.table = r.table /\ x.since = r.since /\ x.truth = truth /\ x.col = col
      /\ x = [id |-> x.id, table |-> x.table, since |-> x.since, truth |-> x.truth, col |-> x.col]
  BY <1>2 DEF col, truth, Sets
<1>5. Meant(x)
  <2>1. ASSUME NEW c \in DOMAIN col PROVE col[c] = truth[c] \/ Backed(x, c)
    BY <1>3, <1>4, SMTT(30) DEF RowOK, Meant, Backed
  <2> QED
    BY <1>4, <2>1 DEF Meant
<1>6. Clauses(x, v)
  BY <1>3, <1>4 DEF RowOK, Clauses
<1>7. RowOK(x, v)
  BY <1>3, <1>4, <1>5, <1>6 DEF RowOK
<1> QED
  BY <1>3, <1>4, <1>7 DEF Rewrites

\* A row the program of today writes into a table that fits: it says what is meant.
LEMMA NowIs ==
    ASSUME version \in Versions, NEW t \in Tables(version), Columns[version][t] = Columns[Newest][t],
           NEW id \in Nat, id >= 10, NEW truth, Whole(t, version, truth)
    PROVE  LET x == Now(id, t, truth)
           IN  RowOK(x, version) /\ x.id = id /\ x.table = t /\ x.col = truth
<1>1. id \in Nat \ {0} /\ id # Seed
  BY DEF Seed
<1>2. RowMade(Now(id, t, truth), id, t, version, truth)
  BY <1>1, RowOfOK DEF Now
<1> DEFINE x == Now(id, t, truth)
<1>3. RowOK(x, version) /\ x.id = id /\ x.table = t /\ x.truth = truth /\ x.col = [c \in Columns[version][t] |-> truth[c]]
  BY <1>2 DEF RowMade
<1>4. truth = [c \in Columns[version][t] |-> truth[c]]
  BY DEF Whole
<1> HIDE DEF x
<1>5. RowOK(x, version) /\ x.id = id /\ x.table = t /\ x.col = truth
  BY <1>3, <1>4
<1> QED
  BY <1>5 DEF x

\* The same where the table is one of those that were found to fit.
LEMMA NowFits ==
    ASSUME SchemaInv, NEW T, Fits(T), NEW t \in T, t \in Tables(Newest),
           NEW id \in {nextId, nextId + 1}, NEW truth, Whole(t, version, truth)
    PROVE  LET x == Now(id, t, truth)
           IN  RowOK(x, version) /\ x.id = id /\ x.table = t /\ x.col = truth
<1>1. id \in Nat /\ id >= 10 /\ version \in Versions
  BY DEF SchemaInv
<1>2. t \in Tables(version) /\ Columns[version][t] = Columns[Newest][t]
  BY <1>1, FitsIs
<1> QED
  BY <1>1, <1>2, NowIs

\* An account and its link.
LEMMA SignUpKeeps == SchemaInv /\ SignUp => SchemaInv'
<1> SUFFICES ASSUME SchemaInv, SignUp PROVE SchemaInv'
  OBVIOUS
<1> DEFINE a == Now(nextId, "users", [verified |-> "null"])
<1> DEFINE b == Now(nextId + 1, "tokens", [user |-> nextId])
<1>1. Fits({"users", "tokens"}) /\ Write(rows, {a, b})
  BY DEF SignUp, Up
<1>2. Whole("users", version, [verified |-> "null"]) /\ Whole("tokens", version, [user |-> nextId])
  BY ColumnsNow DEF Whole
<1>3. RowOK(a, version) /\ a.id = nextId /\ a.table = "users" /\ a.col = [verified |-> "null"]
  BY <1>1, <1>2, NowFits, TablesNow
<1>4. RowOK(b, version) /\ b.id = nextId + 1 /\ b.table = "tokens" /\ b.col = [user |-> nextId]
  BY <1>1, <1>2, NowFits, TablesNow
<1> HIDE DEF a, b
<1>5. RefersOK({a, b}, rows \cup {a, b})
  BY <1>3, <1>4 DEF RefersOK, Refer, There
<1>6. Base(rows \cup {a, b}, version, nextId + 2)
  <2>1. \A r \in {a, b} : RowOK(r, version) /\ r.id \in {nextId, nextId + 1}
    BY <1>3, <1>4
  <2>2. nextId \in Nat /\ \A r, q \in {a, b} : r.id = q.id => r = q
    BY <1>3, <1>4 DEF SchemaInv
  <2> QED
    BY <1>5, <2>1, <2>2, Written DEF SchemaInv
<1> QED
  BY <1>1, <1>6, Wrote

\* A document and its chunks.
LEMMA IngestKeeps == SchemaInv /\ Ingest => SchemaInv'
<1> SUFFICES ASSUME SchemaInv, Ingest PROVE SchemaInv'
  OBVIOUS
<1>0. PICK u \in People : Write(rows, {Now(nextId, "documents", [owner |-> u]),
                      Now(nextId + 1, "chunks", [document |-> nextId, sparse |-> "vector"])})
  BY DEF Ingest
<1> DEFINE a == Now(nextId, "documents", [owner |-> u])
<1> DEFINE b == Now(nextId + 1, "chunks", [document |-> nextId, sparse |-> "vector"])
<1>1. Fits({"users"} \cup {"documents", "chunks"}) /\ Write(rows, {a, b})
  BY <1>0 DEF Ingest, Up
<1>2. Whole("documents", version, [owner |-> u])
      /\ Whole("chunks", version, [document |-> nextId, sparse |-> "vector"])
  BY ColumnsNow DEF Whole
<1>3. RowOK(a, version) /\ a.id = nextId /\ a.table = "documents" /\ a.col = [owner |-> u]
  BY <1>1, <1>2, NowFits, TablesNow
<1>4. RowOK(b, version) /\ b.id = nextId + 1 /\ b.table = "chunks" /\ b.col = [document |-> nextId, sparse |-> "vector"]
  BY <1>1, <1>2, NowFits, TablesNow
<1>5. There(rows, u, "users")
  BY DEF People, In, There
<1> HIDE DEF a, b
<1>6. RefersOK({a, b}, rows \cup {a, b})
  BY <1>3, <1>4, <1>5 DEF RefersOK, Refer, There
<1>7. Base(rows \cup {a, b}, version, nextId + 2)
  <2>1. \A r \in {a, b} : RowOK(r, version) /\ r.id \in {nextId, nextId + 1}
    BY <1>3, <1>4
  <2>2. nextId \in Nat /\ \A r, q \in {a, b} : r.id = q.id => r = q
    BY <1>3, <1>4 DEF SchemaInv
  <2> QED
    BY <1>6, <2>1, <2>2, Written DEF SchemaInv
<1> QED
  BY <1>1, <1>7, Wrote

\* A run and its rows.
LEMMA SaveRunKeeps == SchemaInv /\ SaveRun => SchemaInv'
<1> SUFFICES ASSUME SchemaInv, SaveRun PROVE SchemaInv'
  OBVIOUS
<1> DEFINE a == Now(nextId, "runs", [cut |-> "section"])
<1> DEFINE b == Now(nextId + 1, "results", [run |-> nextId])
<1>1. Fits({"runs", "results"}) /\ Write(rows, {a, b})
  BY DEF SaveRun
<1>2. Whole("runs", version, [cut |-> "section"]) /\ Whole("results", version, [run |-> nextId])
  BY ColumnsNow DEF Whole
<1>3. RowOK(a, version) /\ a.id = nextId /\ a.table = "runs" /\ a.col = [cut |-> "section"]
  BY <1>1, <1>2, NowFits, TablesNow
<1>4. RowOK(b, version) /\ b.id = nextId + 1 /\ b.table = "results" /\ b.col = [run |-> nextId]
  BY <1>1, <1>2, NowFits, TablesNow
<1> HIDE DEF a, b
<1>5. RefersOK({a, b}, rows \cup {a, b})
  BY <1>3, <1>4 DEF RefersOK, Refer, There
<1>6. Base(rows \cup {a, b}, version, nextId + 2)
  <2>1. \A r \in {a, b} : RowOK(r, version) /\ r.id \in {nextId, nextId + 1}
    BY <1>3, <1>4
  <2>2. nextId \in Nat /\ \A r, q \in {a, b} : r.id = q.id => r = q
    BY <1>3, <1>4 DEF SchemaInv
  <2> QED
    BY <1>5, <2>1, <2>2, Written DEF SchemaInv
<1> QED
  BY <1>1, <1>6, Wrote

\* One row, whose references are there.
LEMMA WrittenOne ==
    ASSUME SchemaInv, NEW a, RowOK(a, version), a.id = nextId, RefersOK({a}, rows), Write(rows, {a})
    PROVE  SchemaInv'
<1>1. nextId \in Nat /\ Base(rows, version, nextId)
  BY DEF SchemaInv
<1>2. RefersOK({a}, rows \cup {a})
  BY DEF RefersOK, There
<1>3. Base(rows \cup {a}, version, nextId + 2)
  BY <1>1, <1>2, Written
<1> QED
  BY <1>3, Wrote

\* A cached answer.
LEMMA StoreAnswerKeeps == SchemaInv /\ StoreAnswer => SchemaInv'
<1> SUFFICES ASSUME SchemaInv, StoreAnswer PROVE SchemaInv'
  OBVIOUS
<1>0. PICK u \in People, d \in Scopes : Write(rows, {Now(nextId, "cache", [user |-> u, document |-> d])})
  BY DEF StoreAnswer
<1> DEFINE a == Now(nextId, "cache", [user |-> u, document |-> d])
<1>1. Fits({"users"} \cup {"cache"}) /\ Write(rows, {a})
  BY <1>0 DEF StoreAnswer, Up
<1>2. Whole("cache", version, [user |-> u, document |-> d])
  BY ColumnsNow DEF Whole
<1>3. RowOK(a, version) /\ a.id = nextId /\ a.table = "cache" /\ a.col = [user |-> u, document |-> d]
  BY <1>1, <1>2, NowFits, TablesNow
<1>4. There(rows, u, "users") /\ There(rows, d, "documents")
  BY DEF People, Scopes, In, There
<1> HIDE DEF a
<1>5. RefersOK({a}, rows)
  BY <1>3, <1>4 DEF RefersOK, Refer
<1> QED
  BY <1>1, <1>3, <1>5, WrittenOne

\* A reservation.
LEMMA ReserveUseKeeps == SchemaInv /\ ReserveUse => SchemaInv'
<1> SUFFICES ASSUME SchemaInv, ReserveUse PROVE SchemaInv'
  OBVIOUS
<1>0. PICK u \in People : Write(rows, {Now(nextId, "usage", [user |-> u, settled |-> "null"])})
  BY DEF ReserveUse
<1> DEFINE a == Now(nextId, "usage", [user |-> u, settled |-> "null"])
<1>1. Fits({"users"} \cup {"usage"}) /\ Write(rows, {a})
  BY <1>0 DEF ReserveUse, Up
<1>2. Whole("usage", version, [user |-> u, settled |-> "null"])
  BY ColumnsNow DEF Whole
<1>3. RowOK(a, version) /\ a.id = nextId /\ a.table = "usage" /\ a.col = [user |-> u, settled |-> "null"]
  BY <1>1, <1>2, NowFits, TablesNow
<1>4. There(rows, u, "users")
  BY DEF People, In, There
<1> HIDE DEF a
<1>5. RefersOK({a}, rows)
  BY <1>3, <1>4 DEF RefersOK, Refer
<1> QED
  BY <1>1, <1>3, <1>5, WrittenOne

\* A turn of a conversation.
LEMMA TurnKeeps == SchemaInv /\ Turn => SchemaInv'
<1> SUFFICES ASSUME SchemaInv, Turn PROVE SchemaInv'
  OBVIOUS
<1>0. PICK c \in In("conversations") :
         Write(rows, {Now(nextId, "messages", [conversation |-> c.id, scope |-> c.col.scope])})
  BY DEF Turn
<1> DEFINE a == Now(nextId, "messages", [conversation |-> c.id, scope |-> c.col.scope])
<1>1. Fits({"users"} \cup {"conversations", "messages"}) /\ Write(rows, {a})
  BY <1>0 DEF Turn, Up
<1>2. Whole("messages", version, [conversation |-> c.id, scope |-> c.col.scope])
  BY ColumnsNow DEF Whole
<1>3. RowOK(a, version) /\ a.id = nextId /\ a.table = "messages"
      /\ a.col = [conversation |-> c.id, scope |-> c.col.scope]
  BY <1>1, <1>2, NowFits, TablesNow
<1>4. There(rows, c.id, "conversations")
  BY DEF In, There
<1> HIDE DEF a
<1>5. RefersOK({a}, rows)
  BY <1>3, <1>4 DEF RefersOK, Refer
<1> QED
  BY <1>1, <1>3, <1>5, WrittenOne

\* An account is confirmed.
LEMMA VerifyKeeps == SchemaInv /\ VerifyEmail => SchemaInv'
<1> SUFFICES ASSUME SchemaInv, VerifyEmail PROVE SchemaInv'
  OBVIOUS
<1>0. \E u \in In("users") : Write(rows \ {u}, {[u EXCEPT !.col.verified = "then", !.truth.verified = "then"]})
  BY Zenon DEF VerifyEmail
<1>1. PICK u \in In("users") : Write(rows \ {u}, {[u EXCEPT !.col.verified = "then", !.truth.verified = "then"]})
  BY <1>0
<1>2. u \in rows /\ u.table = "users" /\ RowOK(u, version) /\ version \in Versions
  BY DEF In, SchemaInv, Base
<1>3. "verified" \in DOMAIN u.col
  <2>1. Fits({"users"} \cup {"tokens"})
    BY DEF VerifyEmail, Up
  <2>2. Columns[version]["users"] = {"verified"}
    BY <1>2, <2>1, FitsIs, TablesNow, ColumnsNow
  <2> QED
    BY <1>2, <2>2 DEF RowOK
<1> DEFINE x == [u EXCEPT !.col = [u.col EXCEPT !["verified"] = "then"],
                          !.truth = [u.truth EXCEPT !["verified"] = "then"]]
<1>4. [u EXCEPT !.col.verified = "then", !.truth.verified = "then"] = x
  BY <1>2 DEF RowOK
<1>5. Sets(x, u, "verified")
  BY DEF Sets
<1> HIDE DEF x
<1>6. Base((rows \ {u}) \cup {x}, version, nextId)
  <2>1. \A w : ~ Refer(u.table, "verified", w)
    BY <1>2 DEF Refer
  <2>2. Rewrites(x, u, version)
    BY <1>2, <1>3, <1>5, <2>1, SetThen
  <2> QED
    BY <1>2, <2>2, RewrittenOne DEF SchemaInv
<1>7. Base((rows \ {u}) \cup {x}, version, nextId + 2)
  BY <1>6, BaseLater DEF SchemaInv
<1> QED
  BY <1>1, <1>4, <1>7, Wrote

\* The vectors of old chunks are filled in.
LEMMA BackfillKeeps == SchemaInv /\ Backfill => SchemaInv'
<1> SUFFICES ASSUME SchemaInv, Backfill PROVE SchemaInv'
  OBVIOUS
<1> DEFINE bare == {r \in In("chunks") : r.col.sparse = "null"}
<1> DEFINE f == [r \in bare |-> [r EXCEPT !.col.sparse = r.truth.sparse]]
<1>1. Fits({"chunks"}) /\ Write(rows \ bare, {[r EXCEPT !.col.sparse = r.truth.sparse] : r \in bare})
  BY Zenon DEF Backfill
<1>2. {[r EXCEPT !.col.sparse = r.truth.sparse] : r \in bare} = {f[r] : r \in bare}
  OBVIOUS
<1>3. Columns[version]["chunks"] = {"document", "sparse"} /\ version \in Versions
  BY <1>1, FitsIs, TablesNow, ColumnsNow DEF SchemaInv
<1>4. ASSUME NEW r \in bare
      PROVE  Rewrites(f[r], r, version)
  <2>1. r \in rows /\ r.table = "chunks" /\ RowOK(r, version)
    BY DEF In, SchemaInv, Base
  <2>2. /\ r = [id |-> r.id, table |-> r.table, since |-> r.since, truth |-> r.truth, col |-> r.col]
        /\ r.col = [c \in {"document", "sparse"} |-> r.col[c]]
        /\ r.truth = [c \in Columns[Newest]["chunks"] |-> r.truth[c]]
    BY <1>3, <2>1 DEF RowOK
  <2> DEFINE y == r.truth["sparse"]
  <2> DEFINE k == [r.col EXCEPT !["sparse"] = y]
  <2>3. f[r] = [r EXCEPT !.col = k]
    OBVIOUS
  <2>4. DOMAIN k = DOMAIN r.col /\ k["sparse"] = y /\ k["document"] = r.col["document"]
        /\ k = [c \in {"document", "sparse"} |-> k[c]]
    BY <2>2
  <2> HIDE DEF k, y, f
  <2> DEFINE x == f[r]
  <2>5. /\ x.id = r.id /\ x.table = r.table /\ x.since = r.since /\ x.truth = r.truth /\ x.col = k
        /\ x = [id |-> x.id, table |-> x.table, since |-> x.since, truth |-> x.truth, col |-> x.col]
    BY <2>2, <2>3
  <2> HIDE DEF x
  <2>6. Meant(x)
    <3>1. k["sparse"] = x.truth["sparse"]
      BY <2>4, <2>5 DEF y
    <3>2. k["document"] = x.truth["document"] \/ Backed(x, "document")
      BY <2>1, <2>2, <2>4, <2>5 DEF RowOK, Meant, Backed
    <3> QED
      BY <2>4, <2>5, <3>1, <3>2 DEF Meant
  <2>7. Clauses(x, version)
    BY <2>1, <2>5 DEF Clauses
  <2>8. RowOK(x, version)
    BY <1>3, <2>1, <2>2, <2>4, <2>5, <2>6, <2>7 DEF RowOK
  <2>9. \A c, u : Refer(r.table, c, u) => x.col[c] = r.col[c]
    BY <2>1, <2>4, <2>5 DEF Refer
  <2> QED
    BY <2>5, <2>8, <2>9 DEF x, Rewrites
<1>5. bare \in SUBSET rows
  BY DEF In
<1> HIDE DEF bare, f
<1>6. Base((rows \ bare) \cup {f[r] : r \in bare}, version, nextId)
  <2>1. \A g \in bare : Rewrites(f[g], g, version)
    BY <1>4
  <2>2. Base(rows, version, nextId)
    BY DEF SchemaInv
  <2> QED
    BY <1>5, <2>1, <2>2, Rewritten
<1>7. Base((rows \ bare) \cup {f[r] : r \in bare}, version, nextId + 2)
  BY <1>6, BaseLater DEF SchemaInv
<1> QED
  BY <1>1, <1>2, <1>7, Wrote

\* A trace and its chunks, or nothing where the schema refuses them.
LEMMA TraceWritten ==
    ASSUME SchemaInv, NEW K, Base(K, version, nextId), NEW user, There(K, user, "users"),
           NEW document, NEW status, NEW source
    PROVE  Base(K \cup TraceOf(user, document, status, source), version, nextId + 2)
<1> DEFINE a == Now(nextId, "traces", [user |-> user, document |-> document, status |-> status, source |-> source])
<1> DEFINE b == Now(nextId + 1, "trace_chunks", [trace |-> nextId])
<1>1. CASE ~ (Fits({"traces"}) /\ source \in Allowed(version))
  <2>1. TraceOf(user, document, status, source) = {}
    BY <1>1 DEF TraceOf
  <2>2. Base(K, version, nextId + 2)
    BY BaseLater DEF SchemaInv
  <2>3. K \cup {} = K
    OBVIOUS
  <2> QED
    BY <2>1, <2>2, <2>3
<1>2. CASE Fits({"traces"}) /\ source \in Allowed(version)
  <2>1. TraceOf(user, document, status, source) = {a, b}
    BY <1>2 DEF TraceOf
  <2>2. Whole("traces", version, [user |-> user, document |-> document, status |-> status, source |-> source])
        /\ Whole("trace_chunks", version, [trace |-> nextId])
    BY <1>2, ColumnsNow DEF Whole
  <2>3. RowOK(a, version) /\ a.id = nextId /\ a.table = "traces"
        /\ a.col = [user |-> user, document |-> document, status |-> status, source |-> source]
    BY <1>2, <2>2, NowFits, TablesNow
  <2>4. "trace_chunks" \in Tables(version) /\ Columns[version]["trace_chunks"] = Columns[Newest]["trace_chunks"]
    <3>1. version \in Versions
      BY DEF SchemaInv
    <3>2. "traces" \in Tables(version)
      BY <1>2, <3>1, FitsIs, TablesNow
    <3>3. \A n : (MadeBy("traces", n) <=> n = 5) /\ (MadeBy("trace_chunks", n) <=> n = 5)
              /\ (\A c : BroughtBy("trace_chunks", c, n) <=> c = "trace" /\ n = 5)
      BY DEF MadeBy, BroughtBy
    <3>4. 5 \in 1 .. version /\ "trace_chunks" \in Tables(version)
      BY <3>1, <3>2, <3>3, TablesAre
    <3>5. \A c : c \in Columns[version]["trace_chunks"] <=> c = "trace"
      BY <3>1, <3>3, <3>4, ColumnsAre
    <3> QED
      BY <3>4, <3>5, ColumnsNow
  <2>5. RowOK(b, version) /\ b.id = nextId + 1 /\ b.table = "trace_chunks" /\ b.col = [trace |-> nextId]
    <3>1. version \in Versions /\ nextId + 1 \in Nat /\ nextId + 1 >= 10
      BY DEF SchemaInv
    <3> QED
      BY <2>2, <2>4, <3>1, NowIs
  <2> HIDE DEF a, b
  <2>6. RefersOK({a, b}, K \cup {a, b})
    BY <2>3, <2>5 DEF RefersOK, Refer, There
  <2>7. Base(K \cup {a, b}, version, nextId + 2)
    <3>1. \A r \in {a, b} : RowOK(r, version) /\ r.id \in {nextId, nextId + 1}
      BY <2>3, <2>5
    <3>2. nextId \in Nat /\ \A r, q \in {a, b} : r.id = q.id => r = q
      BY <2>3, <2>5 DEF SchemaInv
    <3> QED
      BY <2>6, <3>1, <3>2, Written
  <2> QED
    BY <2>1, <2>7
<1> QED
  BY <1>1, <1>2

\* Whose use it is is there, with or without the use.
LEMMA UserOfUse ==
    ASSUME SchemaInv, Fits({"users"} \cup {"usage"}), NEW r \in rows, r.table = "usage", NEW K, rows \ {r} \subseteq K
    PROVE  There(K, r.col.user, "users")
<1>1. RowOK(r, version) /\ version \in Versions
  BY DEF SchemaInv, Base
<1>2. Columns[version]["usage"] = {"user", "settled"}
  BY <1>1, FitsIs, TablesNow, ColumnsNow
<1>3. "user" \in DOMAIN r.col /\ Refer(r.table, "user", "users")
  BY <1>1, <1>2 DEF RowOK, Refer
<1>4. There(rows, r.col["user"], "users")
  BY <1>3 DEF SchemaInv, Base, RefersOK
<1> QED
  BY <1>4 DEF There

\* A use is settled, with its trace.
LEMMA SettleKeeps == SchemaInv /\ SettleUse => SchemaInv'
<1> SUFFICES ASSUME SchemaInv, SettleUse PROVE SchemaInv'
  OBVIOUS
<1>1. PICK r \in Reserved, d \in Scopes, source \in {"query", "mcp_answer"} :
         Write(rows \ {r}, {[r EXCEPT !.col.settled = "then", !.truth.settled = "then"]}
                              \cup TraceOf(r.col.user, d, "null", source))
  BY Zenon DEF SettleUse
<1>2. r \in rows /\ r.table = "usage" /\ RowOK(r, version) /\ version \in Versions
  BY DEF Reserved, In, SchemaInv, Base
<1>3. Fits({"users"} \cup {"usage"})
  BY DEF SettleUse, Up
<1>4. "settled" \in DOMAIN r.col
  <2>1. Columns[version]["usage"] = {"user", "settled"}
    BY <1>2, <1>3, FitsIs, TablesNow, ColumnsNow
  <2> QED
    BY <1>2, <2>1 DEF RowOK
<1> DEFINE x == [r EXCEPT !.col = [r.col EXCEPT !["settled"] = "then"],
                          !.truth = [r.truth EXCEPT !["settled"] = "then"]]
<1>5. [r EXCEPT !.col.settled = "then", !.truth.settled = "then"] = x
  BY <1>2 DEF RowOK
<1>6. Sets(x, r, "settled")
  BY DEF Sets
<1> HIDE DEF x
<1> DEFINE K == (rows \ {r}) \cup {x}
<1>7. Base(K, version, nextId)
  <2>1. \A w : ~ Refer(r.table, "settled", w)
    BY <1>2 DEF Refer
  <2>2. Rewrites(x, r, version)
    BY <1>2, <1>4, <1>6, <2>1, SetThen
  <2> QED
    BY <1>2, <2>2, RewrittenOne DEF SchemaInv
<1>8. There(K, r.col.user, "users")
  BY <1>2, <1>3, UserOfUse
<1> DEFINE T == TraceOf(r.col.user, d, "null", source)
<1>9. Base(K \cup T, version, nextId + 2)
  <2> HIDE DEF K
  <2> QED
    BY <1>7, <1>8, TraceWritten
<1> HIDE DEF T
<1>10. K \cup T = (rows \ {r}) \cup ({x} \cup T)
  OBVIOUS
<1>11. Write(rows \ {r}, {x} \cup T)
  BY <1>1, <1>5 DEF T
<1> HIDE DEF K
<1> QED
  BY <1>9, <1>10, <1>11, Wrote

\* A use is taken back, with another.
LEMMA FailKeeps == SchemaInv /\ FailUse => SchemaInv'
<1> SUFFICES ASSUME SchemaInv, FailUse PROVE SchemaInv'
  OBVIOUS
<1>1. PICK r \in Reserved : Write(rows \ {r}, TraceOf(r.col.user, 0, "503", "query"))
  BY DEF FailUse
<1>2. r \in rows /\ r.table = "usage" /\ Fits({"users"} \cup {"usage"})
  BY DEF Reserved, In, FailUse, Up
<1>3. Base(rows \ {r}, version, nextId)
  <2> DEFINE G == {r}
  <2>1. G \in SUBSET rows /\ \A g \in G : \A t, c : ~ Refer(t, c, g.table)
    BY <1>2 DEF Refer
  <2> HIDE DEF G
  <2>2. Base(rows \ G, version, nextId)
    BY <2>1, Swept DEF SchemaInv
  <2> QED
    BY <2>2 DEF G
<1>4. There(rows \ {r}, r.col.user, "users")
  BY <1>2, UserOfUse
<1>5. Base((rows \ {r}) \cup TraceOf(r.col.user, 0, "503", "query"), version, nextId + 2)
  BY <1>3, <1>4, TraceWritten
<1> QED
  BY <1>1, <1>5, Wrote

\* Reservations are swept.
LEMMA SweepUsesKeeps == SchemaInv /\ SweepUses => SchemaInv'
<1> SUFFICES ASSUME SchemaInv, SweepUses PROVE SchemaInv'
  OBVIOUS
<1>1. Write(rows \ Reserved, {})
  BY DEF SweepUses
<1>2. Reserved \in SUBSET rows /\ \A g \in Reserved : \A t, c : ~ Refer(t, c, g.table)
  BY DEF Reserved, In, Refer
<1>3. Base(rows \ Reserved, version, nextId)
  BY <1>2, Swept DEF SchemaInv
<1>4. Base((rows \ Reserved) \cup {}, version, nextId + 2)
  <2>1. Base(rows \ Reserved, version, nextId + 2)
    BY <1>3, BaseLater DEF SchemaInv
  <2>2. (rows \ Reserved) \cup {} = rows \ Reserved
    OBVIOUS
  <2> QED
    BY <2>1, <2>2
<1> QED
  BY <1>1, <1>4, Wrote

\* A document or a conversation is removed.
LEMMA RemoveKeeps == SchemaInv /\ (RemoveDocument \/ RemoveConversation) => SchemaInv'
<1> SUFFICES ASSUME SchemaInv, RemoveDocument \/ RemoveConversation PROVE SchemaInv'
  OBVIOUS
<1>1. PICK d \in rows : d.table \in {"documents", "conversations"} /\ Write(Without({d}), {})
  BY DEF RemoveDocument, RemoveConversation, In
<1> DEFINE G == {d}
<1>2. G \in SUBSET rows /\ \A g \in G : g.table \in {"documents", "conversations", "traces"}
  BY <1>1
<1>3. Write(Without(G), {})
  BY <1>1
<1> HIDE DEF G
<1>4. Base(Without(G), version, nextId)
  BY <1>2, WithoutKeeps DEF SchemaInv
<1>5. Base(Without(G) \cup {}, version, nextId + 2)
  <2>1. Base(Without(G), version, nextId + 2)
    BY <1>4, BaseLater DEF SchemaInv
  <2>2. Without(G) \cup {} = Without(G)
    OBVIOUS
  <2> QED
    BY <2>1, <2>2
<1> QED
  BY <1>3, <1>5, Wrote

\* A database of any age: what its rows refer to is in it.
LEMMA FoundIs ==
    ASSUME NEW v \in Versions
    PROVE  Base(Old(v), v, 10)
<1> DEFINE t2 == [verified |-> IF v < 8 THEN "null" ELSE "then"]
<1> DEFINE t3 == [owner |-> IF v < 3 THEN Seed ELSE 2]
<1> DEFINE t4 == [document |-> 3, sparse |-> "vector"]
<1> DEFINE t5 == [user |-> 2, settled |-> "then"]
<1> DEFINE t6 == [user |-> 2, document |-> 3, status |-> "null", source |-> "query"]
<1> DEFINE t7 == [user |-> 2, scope |-> 3]
<1> DEFINE t8 == [conversation |-> 7, scope |-> 0]
<1> DEFINE found == {<<2, "users", t2>>, <<3, "documents", t3>>, <<4, "chunks", t4>>, <<5, "usage", t5>>,
                     <<6, "traces", t6>>, <<7, "conversations", t7>>, <<8, "messages", t8>>}
<1> DEFINE rest == IF v >= 3 THEN {SeedRow(v)} ELSE {}
<1> DEFINE All == Old(v)
<1>1. All = {RowOf(f[1], f[2], v, f[3]) : f \in {f \in found : f[2] \in Tables(v)}} \cup rest
  BY Zenon DEF Old
<1>2. SeedRow(v) = RowOf(Seed, "users", v, t2)
  BY Zenon DEF SeedRow
<1>3. /\ Whole("users", v, t2) /\ Whole("documents", v, t3) /\ Whole("chunks", v, t4) /\ Whole("usage", v, t5)
      /\ Whole("traces", v, t6) /\ Whole("conversations", v, t7) /\ Whole("messages", v, t8)
  <2>1. /\ Whole("users", v, t2) /\ Whole("documents", v, t3) /\ Whole("chunks", v, t4) /\ Whole("usage", v, t5)
        /\ Whole("conversations", v, t7) /\ Whole("messages", v, t8)
    BY ColumnsNow DEF Whole
  <2>2. Whole("traces", v, t6)
    BY ColumnsNow DEF Whole, Allowed
  <2> QED
    BY <2>1, <2>2
<1>4. \A f \in found : f[2] \in Tables(v) => RowMade(RowOf(f[1], f[2], v, f[3]), f[1], f[2], v, f[3])
  <2> HIDE DEF t2, t3, t4, t5, t6, t7, t8
  <2>1. \A f \in found : Whole(f[2], v, f[3]) /\ f[1] \in Nat \ {0} /\ f[1] # Seed
    BY <1>3 DEF Seed
  <2> HIDE DEF found
  <2> QED
    BY <2>1, RowOfOK
<1>5. v >= 3 => RowMade(SeedRow(v), Seed, "users", v, t2)
  <2>1. v >= 3 => "users" \in Tables(v)
    BY UsersAre
  <2>2. Seed \in Nat \ {0}
    BY DEF Seed
  <2> HIDE DEF t2
  <2> QED
    BY <1>2, <1>3, <2>1, <2>2, RowOfOK
<1> DEFINE Is(r, id, t, truth) == t \in Tables(v) /\ RowMade(r, id, t, v, truth)
<1>6. ASSUME NEW r \in All
      PROVE  \/ Is(r, 2, "users", t2) \/ Is(r, 3, "documents", t3) \/ Is(r, 4, "chunks", t4)
             \/ Is(r, 5, "usage", t5) \/ Is(r, 6, "traces", t6) \/ Is(r, 7, "conversations", t7)
             \/ Is(r, 8, "messages", t8) \/ Is(r, Seed, "users", t2)
  <2>1. CASE r \in rest
    <3>1. v >= 3 /\ r = SeedRow(v)
      BY <2>1
    <3> QED
      BY <3>1, <1>5, UsersAre
  <2>2. CASE \E f \in found : f[2] \in Tables(v) /\ r = RowOf(f[1], f[2], v, f[3])
    <3>1. PICK f \in found : f[2] \in Tables(v) /\ r = RowOf(f[1], f[2], v, f[3])
      BY <2>2
    <3> HIDE DEF t2, t3, t4, t5, t6, t7, t8
    <3>2. RowMade(r, f[1], f[2], v, f[3])
      BY <1>4, <3>1
    <3> QED
      BY <3>1, <3>2
  <2> QED
    BY <1>1, <2>1, <2>2
<1>7. ASSUME NEW f \in found, f[2] \in Tables(v) PROVE There(All, f[1], f[2])
  <2>1. RowOf(f[1], f[2], v, f[3]) \in All
    BY <1>1, <1>7
  <2>2. RowOf(f[1], f[2], v, f[3]).id = f[1] /\ RowOf(f[1], f[2], v, f[3]).table = f[2]
    BY DEF RowOf
  <2> HIDE DEF All, found
  <2> QED
    BY <2>1, <2>2 DEF There
<1>8. /\ "users" \in Tables(v) => There(All, 2, "users")
      /\ "documents" \in Tables(v) => There(All, 3, "documents")
      /\ "conversations" \in Tables(v) => There(All, 7, "conversations")
  <2> HIDE DEF t2, t3, t4, t5, t6, t7, t8, All
  <2>1. <<2, "users", t2>> \in found /\ <<3, "documents", t3>> \in found /\ <<7, "conversations", t7>> \in found
    OBVIOUS
  <2> HIDE DEF found
  <2>2. \A i, t, c : <<i, t, c>> \in found /\ t \in Tables(v) => There(All, i, t)
    <3>1. ASSUME NEW i, NEW t, NEW c, <<i, t, c>> \in found, t \in Tables(v) PROVE There(All, i, t)
      <4> DEFINE f == <<i, t, c>>
      <4>1. f \in found /\ f[1] = i /\ f[2] = t
        BY <3>1
      <4> HIDE DEF f
      <4> QED
        BY <1>7, <3>1, <4>1
    <3> QED
      BY <3>1
  <2> QED
    BY <2>1, <2>2
<1> HIDE DEF All, found, rest
<1>9. IdsOK(All, 10)
  <2>0. \A r, q \in All : r.id = q.id => r = q
    <3>1. \A f, g \in found : f[1] = g[1] => f = g
      <4> HIDE DEF t2, t3, t4, t5, t6, t7, t8
      <4> QED
        BY DEF found
    <3>2. \A f \in found : f[1] # Seed
      <4> HIDE DEF t2, t3, t4, t5, t6, t7, t8
      <4> QED
        BY DEF found, Seed
    <3>3. ASSUME NEW r \in All
          PROVE  \/ \E f \in found : r = RowOf(f[1], f[2], v, f[3]) /\ r.id = f[1]
                 \/ r = SeedRow(v) /\ r.id = Seed
      <4>1. (\E f \in found : r = RowOf(f[1], f[2], v, f[3])) \/ r = SeedRow(v)
        BY <1>1 DEF rest
      <4>2. SeedRow(v).id = Seed
        BY DEF SeedRow, RowOf
      <4>3. \A f \in found : RowOf(f[1], f[2], v, f[3]).id = f[1]
        BY DEF RowOf
      <4> QED
        BY <4>1, <4>2, <4>3
    <3> QED
      BY <3>1, <3>2, <3>3
  <2>1. \A r \in All : r.id < 10
    <3> HIDE DEF t2, t3, t4, t5, t6, t7, t8
    <3> QED
      <4>1. \A r \in All : r.id \in {2, 3, 4, 5, 6, 7, 8, Seed}
        BY <1>6 DEF RowMade
      <4> QED
        BY <4>1 DEF Seed
  <2> QED
    BY <2>0, <2>1 DEF IdsOK
<1>10. \A r \in All : RowOK(r, v)
  <2> HIDE DEF t2, t3, t4, t5, t6, t7, t8
  <2> QED
    BY <1>6 DEF RowMade
<1>11. ASSUME NEW r \in All, NEW c \in DOMAIN r.col, NEW u, Refer(r.table, c, u)
       PROVE  There(All, r.col[c], u)
  <2>1. r.table \in Tables(v) /\ c \in Columns[v][r.table]
    BY <1>10 DEF RowOK
  <2>2. u \in Tables(v)
    BY <1>11, <2>1, ReferMade
  <2>3. CASE Is(r, 3, "documents", t3)
    <3>1. c = "owner" /\ u = "users" /\ v >= 3
      BY <1>11, <2>2, <2>3, UsersAre DEF Refer, RowMade
    <3>2. r.col[c] = 2
      BY <1>11, <2>3, <3>1 DEF RowMade, Versions
    <3> QED
      BY <1>8, <2>2, <3>1, <3>2
  <2>4. CASE Is(r, 4, "chunks", t4)
    <3>1. c = "document" /\ u = "documents" /\ r.col[c] = 3
      BY <1>11, <2>4 DEF Refer, RowMade
    <3> QED
      BY <1>8, <2>2, <3>1
  <2>5. CASE Is(r, 5, "usage", t5)
    <3>1. c = "user" /\ u = "users" /\ r.col[c] = 2
      BY <1>11, <2>5 DEF Refer, RowMade
    <3> QED
      BY <1>8, <2>2, <3>1
  <2>6. CASE Is(r, 6, "traces", t6)
    <3>1. c = "user" /\ u = "users" /\ r.col[c] = 2
      BY <1>11, <2>6 DEF Refer, RowMade
    <3> QED
      BY <1>8, <2>2, <3>1
  <2>7. CASE Is(r, 7, "conversations", t7)
    <3>1. (c = "user" /\ u = "users" /\ r.col[c] = 2) \/ (c = "scope" /\ u = "documents" /\ r.col[c] = 3)
      BY <1>11, <2>7 DEF Refer, RowMade
    <3> QED
      BY <1>8, <2>2, <3>1
  <2>8. CASE Is(r, 8, "messages", t8)
    <3>1. c = "conversation" /\ u = "conversations" /\ r.col[c] = 7
      BY <1>11, <2>8 DEF Refer, RowMade
    <3> QED
      BY <1>8, <2>2, <3>1
  <2>9. r.table # "users"
    BY <1>11 DEF Refer
  <2>10. ~Is(r, 2, "users", t2) /\ ~Is(r, Seed, "users", t2)
    BY <2>9 DEF RowMade
  <2> HIDE DEF Is
  <2> QED
    BY <1>6, <2>3, <2>4, <2>5, <2>6, <2>7, <2>8, <2>10
<1>12. Base(All, v, 10)
  BY <1>9, <1>10, <1>11 DEF Base, RefersOK
<1> QED
  BY <1>12 DEF All

\* The databases that are found.
LEMMA SchemaStarts == SchemaInit => SchemaInv
<1> SUFFICES ASSUME SchemaInit PROVE SchemaInv
  OBVIOUS
<1>1. version \in Versions /\ undone = FALSE /\ nextId = 10
  BY SchemaBounds DEF SchemaInit, Versions
<1>2. Base(rows, version, nextId)
  BY <1>1, FoundIs DEF SchemaInit
<1>3. StartOK
  BY DEF SchemaInit, StartOK, Down, Versions
<1>4. undone \in BOOLEAN
  BY <1>1, Zenon
<1>5. nextId \in Nat /\ nextId >= 10
  BY <1>1
<1> QED
  BY <1>1, <1>2, <1>3, <1>4, <1>5 DEF SchemaInv

\* Every step of the schema keeps its invariant.
LEMMA SchemaKeeps == SchemaInv /\ [SchemaNext]_schema => SchemaInv'
<1>1. SchemaInv /\ UNCHANGED schema => SchemaInv'
  <2> SUFFICES ASSUME SchemaInv, UNCHANGED schema PROVE SchemaInv'
    OBVIOUS
  <2>1. UNCHANGED <<version, rows, startup, undone, nextId>>
    BY DEF schema
  <2>2. StartOK' /\ Base(rows', version', nextId')
    BY <2>1 DEF SchemaInv, StartOK
  <2> QED
    BY <2>1, <2>2 DEF SchemaInv
<1> QED
  BY <1>1, ReadVersionKeeps, MigrateKeeps, TerminateKeeps, DowngradingKeeps, SignUpKeeps, VerifyKeeps, IngestKeeps,
     StoreAnswerKeeps, ReserveUseKeeps, SettleKeeps, FailKeeps, SweepUsesKeeps, TurnKeeps, SaveRunKeeps,
     BackfillKeeps, RemoveKeeps DEF SchemaNext

\* A database survives its own history (SchemaTrue), whatever schema it was found
\* at, for any number of processes that start and migrate at once (run_migrations)
\* and of ways back: its columns are those the models name, a column says what was
\* meant or what its revision filled in, nothing refers to what is gone, and a
\* server that serves can write.
THEOREM HistoryIsSurvived == Spec => []SchemaTrue
<1>1. Init => SchemaInv
  BY SchemaStarts DEF Init
<1>2. SchemaInv /\ [Next]_serving => SchemaInv'
  <2>1. [Next]_serving => [SchemaNext]_schema
    <3>1. UNCHANGED serving => UNCHANGED schema
      BY DEF serving
    <3> QED
      BY <3>1 DEF Next
  <2> QED
    BY <2>1, SchemaKeeps
<1> QED
  BY <1>1, <1>2, SchemaIsTrue, PTL DEF Spec

-----------------------------------------------------------------------------
\* From a question to its answer: the fractions of the fusion, what is known at
\* every step on the way, and that each step keeps it.

\* What a retriever returned: chunks without one twice.
Returned(r) == \E n \in 0 .. CandK : r \in [1 .. n -> Chunk] /\ IsInjective(r)

\* What a LIMIT k query may return has no chunk twice and at most k.
LEMMA RankingsAre ==
    ASSUME NEW S, S \subseteq Chunk, NEW k \in Nat, NEW r \in Rankings(S, k)
    PROVE  /\ IsInjective(r) /\ \E n \in 0 .. k : r \in [1 .. n -> S]
<1>1. Cardinality(S) \in Nat
  BY FS_Subset, FS_CardinalityType, AnsweringSizes
<1>2. (IF k < Cardinality(S) THEN k ELSE Cardinality(S)) \in 0 .. k
  BY <1>1
<1> QED
  BY <1>2 DEF Rankings

\* The place of a chunk in a ranking.
LEMMA RanksAre ==
    ASSUME NEW r, Returned(r), NEW c \in Range(r)
    PROVE  RankOf(c, r) \in 1 .. CandK /\ RankOf(c, r) \in DOMAIN r /\ r[RankOf(c, r)] = c
<1>1. PICK n \in 0 .. CandK : r \in [1 .. n -> Chunk]
  BY DEF Returned
<1>2. \E i \in DOMAIN r : r[i] = c
  BY DEF Range
<1>3. RankOf(c, r) \in DOMAIN r /\ r[RankOf(c, r)] = c
  BY <1>2 DEF RankOf
<1> QED
  BY <1>1, <1>3, AnsweringSizes

\* A fraction, its top and its bottom.
Fraction == [up : Nat, down : Nat]

\* A chunk that both found has 1/x + 1/y, one that one found 1/z.
Both(s, x, y) == s = [up |-> x + y, down |-> x * y]
One(s, z) == s = [up |-> 1, down |-> z]
\* The bottoms of a retriever's shares.
Rank == RrfK + 1 .. RrfK + CandK

\* The fused score of a candidate, by the retrievers that found it.
LEMMA ScoresAre ==
    ASSUME Returned(ranking.dense), Returned(ranking.sparse), NEW c \in Candidates
    PROVE  /\ RrfScore(c) \in Fraction
           /\ c \in BothFound => Both(RrfScore(c), RrfK + RankOf(c, ranking.dense), RrfK + RankOf(c, ranking.sparse))
           /\ c \notin BothFound => \E z \in Rank : One(RrfScore(c), z)
<1> DEFINE x == RrfK + RankOf(c, ranking.dense)
<1> DEFINE y == RrfK + RankOf(c, ranking.sparse)
<1>0. RrfK \in Nat /\ CandK \in Nat
  BY AnsweringSizes
<1>1. c \in Range(ranking.dense) => x \in Rank
  BY <1>0, RanksAre DEF Rank
<1>2. c \in Range(ranking.sparse) => y \in Rank
  BY <1>0, RanksAre DEF Rank
<1>3. \A z \in Rank : z \in Nat /\ z * 1 = z /\ 1 * z = z /\ 0 * z = 0
  BY <1>0 DEF Rank
<1>4. RrfScore(c) = Sum(IF c \in Range(ranking.dense) THEN [up |-> 1, down |-> x] ELSE [up |-> 0, down |-> 1],
                        IF c \in Range(ranking.sparse) THEN [up |-> 1, down |-> y] ELSE [up |-> 0, down |-> 1])
  BY DEF RrfScore, Share
<1> HIDE DEF x, y
<1>5. CASE c \in BothFound
  <2>1. RrfScore(c) = Sum([up |-> 1, down |-> x], [up |-> 1, down |-> y]) /\ x \in Rank /\ y \in Rank
    BY <1>1, <1>2, <1>4, <1>5 DEF BothFound
  <2>2. RrfScore(c) = [up |-> 1 * y + 1 * x, down |-> x * y]
    BY <2>1 DEF Sum
  <2>3. 1 * y + 1 * x = x + y /\ x * y \in Nat /\ x + y \in Nat
    BY <1>3, <2>1
  <2>4. RrfScore(c) = [up |-> x + y, down |-> x * y]
    BY <2>2, <2>3
  <2> QED
    BY <1>5, <2>3, <2>4 DEF Both, Fraction, x, y
<1>6. CASE c \notin BothFound /\ c \in Range(ranking.dense)
  <2>1. RrfScore(c) = Sum([up |-> 1, down |-> x], [up |-> 0, down |-> 1]) /\ x \in Rank
    BY <1>1, <1>4, <1>6 DEF BothFound
  <2>2. RrfScore(c) = [up |-> 1 * 1 + 0 * x, down |-> x * 1]
    BY <2>1 DEF Sum
  <2>3. 1 * 1 + 0 * x = 1 /\ x * 1 = x /\ x \in Nat
    BY <1>3, <2>1
  <2> QED
    BY <1>6, <2>1, <2>2, <2>3 DEF One, Fraction
<1>7. CASE c \notin BothFound /\ c \in Range(ranking.sparse)
  <2>1. RrfScore(c) = Sum([up |-> 0, down |-> 1], [up |-> 1, down |-> y]) /\ y \in Rank
    BY <1>2, <1>4, <1>7 DEF BothFound
  <2>2. RrfScore(c) = [up |-> 0 * y + 1 * 1, down |-> 1 * y]
    BY <2>1 DEF Sum
  <2>3. 0 * y + 1 * 1 = 1 /\ 1 * y = y /\ y \in Nat
    BY <1>3, <2>1
  <2> QED
    BY <1>7, <2>1, <2>2, <2>3 DEF One, Fraction
<1> QED
  BY <1>5, <1>6, <1>7 DEF Candidates

\* 1/x + 1/y is more than 1/z: no rank is twice another.
LEMMA TwoRanksBeatOne ==
    ASSUME NEW x \in Rank, NEW y \in Rank, NEW z \in Rank
    PROVE  (x + y) * z > x * y
<1>1. x \in Nat /\ y \in Nat /\ z \in Nat /\ x > 0 /\ y < 2 * z /\ x < 2 * z /\ y > 0
  BY AnsweringSizes, FusionSizes DEF Rank
<1>2. \A a, b, c \in Nat : a < b /\ c > 0 => c * a < c * b
  OBVIOUS
<1>3. 2 * z \in Nat
  BY <1>1
<1>4. x * y < x * (2 * z) /\ y * x < y * (2 * z)
  BY <1>1, <1>2, <1>3
<1>5. x * (2 * z) = 2 * (x * z) /\ y * (2 * z) = 2 * (y * z) /\ y * x = x * y /\ (x + y) * z = x * z + y * z
  BY <1>1
<1>6. x * z \in Nat /\ y * z \in Nat /\ x * y \in Nat
  BY <1>1
<1> QED
  BY <1>4, <1>5, <1>6

\* Better in both is better in the sum.
LEMMA BetterInBoth ==
    ASSUME NEW x \in Rank, NEW y \in Rank, NEW v \in Rank, NEW w \in Rank, x < v, y < w
    PROVE  (x + y) * (v * w) > (v + w) * (x * y)
<1>1. x \in Nat /\ y \in Nat /\ v \in Nat /\ w \in Nat /\ x > 0 /\ y > 0 /\ v > 0 /\ w > 0
  BY AnsweringSizes DEF Rank
<1>2. \A a, b, c \in Nat : a < b /\ c > 0 => c * a < c * b
  OBVIOUS
<1>3. x * v \in Nat /\ y * w \in Nat /\ x * v > 0 /\ y * w > 0
  BY <1>1
<1>4. (x * v) * y < (x * v) * w
  BY <1>1, <1>2, <1>3
<1>5. (y * w) * x < (y * w) * v
  BY <1>1, <1>2, <1>3
<1>6. (x + y) * (v * w) = (x * v) * w + (y * w) * v
  BY <1>1
<1>7. (v + w) * (x * y) = (x * v) * y + (y * w) * x
  BY <1>1
<1>8. (x * v) * y \in Nat /\ (x * v) * w \in Nat /\ (y * w) * x \in Nat /\ (y * w) * v \in Nat
  BY <1>1, <1>3
<1> QED
  BY <1>4, <1>5, <1>6, <1>7, <1>8

\* Whoever is ahead is not beaten.
LEMMA AheadIs ==
    ASSUME NEW a, NEW b, RrfScore(a) \in Fraction, RrfScore(b) \in Fraction, Ahead(a, b)
    PROVE  ~Greater(RrfScore(b), RrfScore(a))
<1> DEFINE s == RrfScore(a)
<1> DEFINE t == RrfScore(b)
<1>1. Greater(s, t) \/ ~Greater(t, s)
  BY DEF Ahead
<1>2. s.up * t.down \in Nat /\ t.up * s.down \in Nat
  BY DEF Fraction
<1> HIDE DEF s, t
<1>3. ~Greater(t, s)
  BY <1>1, <1>2 DEF Greater
<1> QED
  BY <1>3 DEF s, t

\* A chunk both retrievers found is not passed over for one that one found, and
\* of two that both found the one ahead in both stays ahead.
LEMMA FusionFair ==
    ASSUME Returned(ranking.dense), Returned(ranking.sparse), NEW a \in BothFound, NEW b \in Candidates,
           b \in BothFound => AheadInBoth(a, b)
    PROVE  ~Ahead(b, a)
<1> DEFINE x == RrfK + RankOf(a, ranking.dense)
<1> DEFINE y == RrfK + RankOf(a, ranking.sparse)
<1> DEFINE v == RrfK + RankOf(b, ranking.dense)
<1> DEFINE w == RrfK + RankOf(b, ranking.sparse)
<1>0. RrfK \in Nat /\ CandK \in Nat
  BY AnsweringSizes
<1>1. a \in Candidates
  BY DEF Candidates, BothFound
<1>2. x \in Rank /\ y \in Rank /\ Both(RrfScore(a), x, y)
  BY <1>0, <1>1, RanksAre, ScoresAre DEF BothFound, Rank
<1>3. b \in BothFound => v \in Rank /\ w \in Rank /\ x < v /\ y < w /\ Both(RrfScore(b), v, w)
  <2> SUFFICES ASSUME b \in BothFound PROVE v \in Rank /\ w \in Rank /\ x < v /\ y < w /\ Both(RrfScore(b), v, w)
    OBVIOUS
  <2>1. /\ RankOf(a, ranking.dense) \in 1 .. CandK /\ RankOf(a, ranking.sparse) \in 1 .. CandK
        /\ RankOf(b, ranking.dense) \in 1 .. CandK /\ RankOf(b, ranking.sparse) \in 1 .. CandK
    BY RanksAre DEF BothFound
  <2> QED
    BY <1>0, <2>1, ScoresAre DEF Rank, AheadInBoth
<1> HIDE DEF x, y, v, w
<1>4. Greater(RrfScore(a), RrfScore(b))
  <2>1. CASE b \in BothFound
    BY <1>2, <1>3, <2>1, BetterInBoth DEF Greater, Both
  <2>2. CASE b \notin BothFound
    <3>1. PICK z \in Rank : One(RrfScore(b), z)
      BY <2>2, ScoresAre
    <3>2. (x + y) * z > x * y
      BY <1>2, <3>1, TwoRanksBeatOne
    <3>3. 1 * (x * y) = x * y
      BY <1>0, <1>2 DEF Rank
    <3> QED
      BY <1>2, <3>1, <3>2, <3>3 DEF Greater, Both, One
  <2> QED
    BY <2>1, <2>2
<1> QED
  BY <1>1, <1>4, AheadIs, ScoresAre

-----------------------------------------------------------------------------
\* A chunk with a score of the cosine or of the reranker.
Hits == [chunk : Chunk, score : [space : {"cosine", "rerank"}, level : Nat]]

\* The order the fusion has put the candidates into.
FusedOrder == [i \in DOMAIN stage.rrf |-> stage.rrf[i].chunk]
\* It is a ranking of them, the best first.
FusedTrue == \E n \in 0 .. CandK : /\ FusedOrder \in [1 .. n -> Candidates] /\ IsInjective(FusedOrder)
                                   /\ DOMAIN stage.rrf = 1 .. n /\ BestFirst(FusedOrder)

\* The space the context's scores are in.
Space == IF ask.hybrid THEN "rerank" ELSE "cosine"

\* What was found: the candidates in the order of their scores, the best of them
\* in the context, which is no longer than the caller's.
ContextInv ==
    /\ ask \in [hybrid : BOOLEAN, limit : Nat, streamed : BOOLEAN]
    /\ Returned(ranking.dense) /\ Returned(ranking.sparse) /\ FusedTrue
    /\ ranked \in Seq(Hits) /\ Descending(ranked) /\ context \in Seq(Hits)
    /\ Len(context) <= OrElse(ask.limit, IF ask.hybrid THEN RerankTop ELSE TopK)
    /\ \A i \in DOMAIN context : context[i].score.space = Space /\ (ask.hybrid => context[i].chunk \in Candidates)
    /\ ranked # <<>> => ask.hybrid /\ context # <<>> /\ context[1] = ranked[1]

\* What is asked of the model stands on that, each over its floor.
PromptInv ==
    /\ prompted \in Seq(Hits) /\ Len(prompted) <= Len(context)
    /\ \A i \in DOMAIN prompted : /\ \E j \in DOMAIN context : prompted[i] = context[j]
                                  /\ prompted[i].score.level >= GroundingFloor

\* What is replied stands on what the model was asked.
ReplyInv ==
    /\ reply.cited \in {<<>>, prompted}
    /\ Answered => (reply.refused <=> reply.cited = <<>>)
    /\ ~Answered => reply.cited = <<>>
    /\ Answered /\ prompted = <<>> => \A i \in DOMAIN ranked : ranked[i].score.level < RerankMinScore

\* What there is at each step on the way.
WayInv ==
    /\ at \in {"embed", "search", "fuse"} =>
          stage = [rrf |-> <<>>, rerank |-> <<>>] /\ ranked = <<>> /\ context = <<>>
    /\ at \in {"embed", "search", "fuse", "rerank", "ground"} => prompted = <<>>
    /\ at = "fuse" \/ at = "rerank" => ask.hybrid
    /\ at = "generate" => prompted # <<>>
    /\ at # "done" => ~Answered /\ reply.cited = <<>>

\* The inductive invariant of a question's way to its answer.
AnswerInv == ContextInv /\ PromptInv /\ ReplyInv /\ WayInv

\* What was found is used, at every state of it.
LEMMA FusionIs ==
    ASSUME AnswerInv
    PROVE  FoundIsUsed
<1> DEFINE o == FusedOrder
<1>1. Returned(ranking.dense) /\ Returned(ranking.sparse)
  BY DEF AnswerInv, ContextInv
<1>2. PICK n \in 0 .. CandK : /\ o \in [1 .. n -> Candidates] /\ DOMAIN stage.rrf = 1 .. n /\ BestFirst(o)
  BY DEF AnswerInv, ContextInv, FusedTrue
<1>3. \A i \in 1 .. n : stage.rrf[i].chunk = o[i] /\ o[i] \in Candidates
  BY <1>2 DEF FusedOrder
<1>4. Chunks(stage.rrf) = Range(o)
  BY <1>2, <1>3 DEF Chunks, Range
<1> HIDE DEF o
<1>5. ASSUME ~(Chunks(stage.rrf) \subseteq BothFound) PROVE BothFound \subseteq Chunks(stage.rrf)
  <2>1. PICK i \in 1 .. n : o[i] \notin BothFound
    BY <1>2, <1>4, <1>5 DEF Range
  <2>2. ASSUME NEW a \in BothFound, a \notin Range(o) PROVE FALSE
    <3>1. a \in Candidates
      BY DEF Candidates, BothFound
    <3>2. Ahead(o[i], a)
      BY <1>2, <2>2, <3>1 DEF BestFirst
    <3> QED
      BY <1>1, <1>3, <2>1, <3>2, FusionFair
  <2> QED
    BY <1>4, <2>2
<1>6. ASSUME NEW i \in DOMAIN stage.rrf, NEW j \in DOMAIN stage.rrf,
             {o[i], o[j]} \subseteq BothFound, AheadInBoth(o[i], o[j])
      PROVE  i < j
  <2>1. i \in Nat /\ j \in Nat /\ n \in Nat /\ i \in 1 .. n /\ j \in 1 .. n
    BY <1>2, AnsweringSizes
  <2>2. ~Ahead(o[j], o[i])
    BY <1>1, <1>3, <1>6, <2>1, FusionFair
  <2>3. ~ (j < i)
    BY <1>2, <2>1, <2>2 DEF BestFirst
  <2>4. i # j
    <3>1. RankOf(o[i], ranking.dense) \in Nat
      BY <1>1, <1>6, RanksAre, AnsweringSizes DEF BothFound
    <3> QED
      BY <1>6, <3>1 DEF AheadInBoth
  <2> QED
    BY <2>1, <2>3, <2>4
<1>7. \A i, j \in DOMAIN stage.rrf :
        LET a == stage.rrf[i].chunk   b == stage.rrf[j].chunk
        IN  {a, b} \subseteq BothFound /\ AheadInBoth(a, b) => i < j
  BY <1>2, <1>3, <1>6
<1> QED
  BY <1>5, <1>7 DEF FoundIsUsed, AnswerInv, ReplyInv

\* The reply stands on what was found, at every state of it.
LEMMA GroundedIs ==
    ASSUME AnswerInv
    PROVE  AnswerGrounded
<1>1. /\ reply.cited \in {<<>>, prompted} /\ (Answered => (reply.refused <=> reply.cited = <<>>))
      /\ ~Answered => reply.cited = <<>>
  BY DEF AnswerInv, ReplyInv
<1>2. CitedChunks \subseteq Chunks(prompted)
  BY <1>1 DEF CitedChunks, Chunks
<1>3. Answered /\ ~reply.refused => CitedChunks = Chunks(prompted)
  BY <1>1 DEF CitedChunks
<1>4. /\ prompted \in Seq(Hits) /\ context \in Seq(Hits) /\ Len(prompted) <= Len(context)
      /\ Len(context) <= OrElse(ask.limit, IF ask.hybrid THEN RerankTop ELSE TopK)
      /\ ask \in [hybrid : BOOLEAN, limit : Nat, streamed : BOOLEAN]
  BY DEF AnswerInv, ContextInv, PromptInv
<1>5. Len(prompted) <= OrElse(ask.limit, IF ask.hybrid THEN RerankTop ELSE TopK)
  <2>1. OrElse(ask.limit, IF ask.hybrid THEN RerankTop ELSE TopK) \in Nat /\ Len(prompted) \in Nat /\ Len(context) \in Nat
    BY <1>4, AnsweringSizes DEF OrElse
  <2> QED
    BY <1>4, <2>1
<1>6. ASSUME NEW i \in DOMAIN prompted
      PROVE  LET score == prompted[i].score
             IN  \/ score.space = "cosine" /\ score.level >= MinScore
                 \/ /\ score.space = "rerank" /\ score.level >= RerankMinScore
                    /\ prompted[i].chunk \in Range(ranking.dense) \cup Range(ranking.sparse)
  <2>1. PICK j \in DOMAIN context : prompted[i] = context[j] /\ prompted[i].score.level >= GroundingFloor
    BY DEF AnswerInv, PromptInv
  <2>2. context[j].score.space = Space /\ (ask.hybrid => context[j].chunk \in Candidates)
    BY DEF AnswerInv, ContextInv
  <2> QED
    BY <2>1, <2>2 DEF Space, GroundingFloor, Candidates
<1> QED
  BY <1>1, <1>2, <1>3, <1>5, <1>6 DEF AnswerGrounded

\* A prefix.
LEMMA PrefixIs ==
    ASSUME NEW E, NEW s \in Seq(E), NEW n \in Nat
    PROVE  /\ Cut(s, n) \in Seq(E) /\ Len(Cut(s, n)) = IF n < Len(s) THEN n ELSE Len(s)
           /\ \A i \in 1 .. Len(Cut(s, n)) : Cut(s, n)[i] = s[i]
<1> DEFINE m == IF n < Len(s) THEN n ELSE Len(s)
<1>1. Len(s) \in Nat /\ m \in 0 .. Len(s) /\ \A i \in 1 .. m : s[i] \in E
  OBVIOUS
<1>2. /\ SubSeq(s, 1, m) \in Seq(E) /\ Len(SubSeq(s, 1, m)) = IF 1 <= m THEN m - 1 + 1 ELSE 0
      /\ \A i \in 1 .. m - 1 + 1 : SubSeq(s, 1, m)[i] = s[1 + i - 1]
  BY <1>1, SubSeqProperties
<1>3. (IF 1 <= m THEN m - 1 + 1 ELSE 0) = m /\ m - 1 + 1 = m /\ \A i \in 1 .. m : 1 + i - 1 = i
  BY <1>1
<1>4. Cut(s, n) = SubSeq(s, 1, m)
  BY DEF Cut
<1> HIDE DEF m
<1>5. Cut(s, n) \in Seq(E) /\ Len(Cut(s, n)) = m /\ \A i \in 1 .. m : Cut(s, n)[i] = s[i]
  BY <1>2, <1>3, <1>4
<1> QED
  BY <1>5 DEF m

\* Nothing is left twice.
LEMMA LeavesFewer ==
    ASSUME NEW E, NEW all \in Seq(E), NEW K, NEW m, NEW at0, Leaves(all, K, Len(all), m, at0)
    PROVE  Len(m) <= Len(all)
<1>1. m \in Seq(Range(all)) /\ at0 \in [1 .. Len(m) -> K \cap (1 .. Len(all))]
      /\ \A i, j \in 1 .. Len(m) : at0[i] = at0[j] => i = j
  BY DEF Leaves
<1>2. at0 \in Injection(1 .. Len(m), 1 .. Len(all))
  BY <1>1 DEF Injection, IsInjective
<1>3. Len(m) \in Nat /\ Len(all) \in Nat
  BY <1>1
<1>4. /\ IsFiniteSet(1 .. Len(all)) /\ Cardinality(1 .. Len(all)) = Len(all)
      /\ Cardinality(1 .. Len(m)) = Len(m)
  <2>1. \A n \in Nat : IsFiniteSet(1 .. n) /\ Cardinality(1 .. n) = IF 1 > n THEN 0 ELSE n - 1 + 1
    BY FS_Interval
  <2>2. \A n \in Nat : (IF 1 > n THEN 0 ELSE n - 1 + 1) = n
    OBVIOUS
  <2> QED
    BY <1>3, <2>1, <2>2
<1>5. Cardinality(1 .. Len(m)) <= Cardinality(1 .. Len(all))
  BY <1>2, <1>4, FS_Injection
<1> QED
  BY <1>4, <1>5

\* What is over the floor, in the order of the context.
LEMMA GroundedHas ==
    ASSUME ContextInv
    PROVE  /\ Grounded \in Seq(Hits) /\ Len(Grounded) <= Len(context)
           /\ \A i \in DOMAIN Grounded : /\ \E j \in DOMAIN context : Grounded[i] = context[j]
                                         /\ Grounded[i].score.level >= GroundingFloor
           /\ \A j \in DOMAIN context : context[j].score.level >= GroundingFloor => Grounded # <<>>
<1> DEFINE K == {i \in DOMAIN context : context[i].score.level >= GroundingFloor}
<1>1. context \in Seq(Hits) /\ DOMAIN context = 1 .. Len(context) /\ Range(context) \subseteq Hits
  BY DEF ContextInv, Range
<1>2. Grounded = FlattenSeq([i \in DOMAIN context |-> IF i \in K THEN <<context[i]>> ELSE <<>>])
  <2>1. [i \in DOMAIN context |-> IF context[i].score.level >= GroundingFloor THEN <<context[i]>> ELSE <<>>]
          = [i \in DOMAIN context |-> IF i \in K THEN <<context[i]>> ELSE <<>>]
    OBVIOUS
  <2> QED
    BY <2>1 DEF Grounded
<1> DEFINE s == Grounded
<1>3. PICK pos : Leaves(context, K, Len(context), s, pos)
  <2>1. K \in SUBSET (DOMAIN context)
    OBVIOUS
  <2> HIDE DEF K
  <2> QED
    BY <1>1, <1>2, <2>1, LeavesOthers
<1>4. K \cap (1 .. Len(context)) = K
  BY <1>1
<1>5. /\ s \in Seq(Range(context)) /\ DOMAIN s = 1 .. Len(s) /\ \A i \in DOMAIN s : pos[i] \in K /\ s[i] = context[pos[i]]
      /\ \A j \in K : \E i \in DOMAIN s : pos[i] = j
  <2> HIDE DEF K, s
  <2>1. s \in Seq(Range(context)) /\ DOMAIN s = 1 .. Len(s)
    BY <1>3 DEF Leaves
  <2> QED
    BY <1>3, <1>4, <2>1 DEF Leaves
<1>6. Len(s) <= Len(context)
  <2> HIDE DEF K, s
  <2> QED
    BY <1>1, <1>3, LeavesFewer
<1> HIDE DEF s
<1>7. \A i \in DOMAIN s : pos[i] \in DOMAIN context /\ context[pos[i]].score.level >= GroundingFloor /\ s[i] = context[pos[i]]
  BY <1>5
<1>8. \A j \in DOMAIN context : context[j].score.level >= GroundingFloor => s # <<>>
  BY <1>5
<1>9. s \in Seq(Hits)
  BY <1>1, <1>5
<1> QED
  BY <1>6, <1>7, <1>8, <1>9 DEF s

\* A step that leaves the context and what was found alone.
ContextStays == UNCHANGED <<ask, ranking, ranked, stage, context>>

\* Nor does it touch what was fused.
LEMMA FusedStays ==
    ASSUME FusedTrue, UNCHANGED <<ranking, stage>>
    PROVE  FusedTrue'
<1>1. \A c : RrfScore(c)' = RrfScore(c)
  BY DEF RrfScore, Share
<1>2. \A a, b : MetBefore(a, b)' <=> MetBefore(a, b)
  BY DEF MetBefore
<1>3. \A a, b : Ahead(a, b)' <=> Ahead(a, b)
  BY <1>1, <1>2 DEF Ahead
<1>4. Candidates' = Candidates /\ FusedOrder' = FusedOrder
  BY DEF Candidates, FusedOrder
<1>5. BestFirst(FusedOrder) => BestFirst(FusedOrder)'
  BY <1>3, <1>4 DEF BestFirst
<1> QED
  BY <1>4, <1>5 DEF FusedTrue

\* Such a step keeps what is known of them.
LEMMA ContextKept == ContextInv /\ ContextStays => ContextInv'
<1> SUFFICES ASSUME ContextInv, ContextStays PROVE ContextInv'
  OBVIOUS
<1>1. FusedTrue'
  BY FusedStays DEF ContextInv, ContextStays
<1> QED
  BY <1>1 DEF ContextInv, ContextStays, Returned, Candidates, Space, Descending

\* What is told when a server does not answer.
LEMMA FailuresAre ==
    ASSUME NEW f
    PROVE  Unreachable(f).kind # "answer" /\ Unreachable(f).cited = <<>>
  BY DEF Unreachable, Unanswered

\* A failure on the way: there is no answer, and nothing is cited.
LEMMA FailureKeeps ==
    ASSUME AnswerInv, ContextStays, UNCHANGED prompted, at' = "done", reply'.kind # "answer", reply'.cited = <<>>
    PROVE  AnswerInv'
<1>1. ContextInv'
  BY ContextKept DEF AnswerInv
<1>2. PromptInv'
  BY DEF AnswerInv, PromptInv, ContextStays, GroundingFloor
<1>3. ~Answered'
  BY DEF Answered
<1> QED
  BY <1>1, <1>2, <1>3 DEF AnswerInv, ReplyInv, WayInv

\* The search is next.
LEMMA OnwardKeeps ==
    ASSUME AnswerInv, ContextStays, UNCHANGED <<prompted, reply>>,
           at = "embed", at' = "search"
    PROVE  AnswerInv'
<1>1. ContextInv'
  BY ContextKept DEF AnswerInv
<1>2. PromptInv'
  BY DEF AnswerInv, PromptInv, ContextStays, GroundingFloor
<1>3. Answered' = Answered
  BY DEF Answered
<1> QED
  BY <1>1, <1>2, <1>3 DEF AnswerInv, ReplyInv, WayInv, ContextStays

\* The embedding, of either kind, or its failure.
LEMMA EmbedKeeps ==
    ASSUME AnswerInv, EmbedDense \/ EmbedFull
    PROVE  AnswerInv'
<1>1. at = "embed" /\ ContextStays /\ prompted' = prompted
  BY DEF EmbedDense, EmbedFull, ContextStays
<1>2. \/ at' = "search" /\ UNCHANGED reply
      \/ \E f : at' = "done" /\ reply' = Unreachable(f)
  BY DEF EmbedDense, EmbedFull, Fail
<1> QED
  BY <1>1, <1>2, FailuresAre, FailureKeeps, OnwardKeeps

\* The dense search: the context is what the database ranked, cut.
LEMMA SearchDenseKeeps ==
    ASSUME AnswerInv, SearchDense
    PROVE  AnswerInv'
<1>1. PICK r \in Rankings(Chunk, TopK) : \E level \in [DOMAIN r -> Scores] :
        LET hits == [i \in DOMAIN r |-> [chunk |-> r[i], score |-> Scored("cosine", level[i])]]
        IN  Descending(hits) /\ context' = Cut(hits, OrElse(ask.limit, Len(hits)))
  BY DEF SearchDense
<1>2. PICK level \in [DOMAIN r -> Scores] :
        LET hits == [i \in DOMAIN r |-> [chunk |-> r[i], score |-> Scored("cosine", level[i])]]
        IN  Descending(hits) /\ context' = Cut(hits, OrElse(ask.limit, Len(hits)))
  BY <1>1
<1> DEFINE hits == [i \in DOMAIN r |-> [chunk |-> r[i], score |-> Scored("cosine", level[i])]]
<1>3. PICK n \in 0 .. TopK : r \in [1 .. n -> Chunk]
  BY RankingsAre, AnsweringSizes
<1>4. /\ at = "search" /\ ~ask.hybrid /\ at' = "ground" /\ ask.limit \in Nat /\ ranked = <<>>
      /\ UNCHANGED <<ask, ranking, ranked, stage, prompted, begun, reply>> /\ prompted = <<>>
  BY DEF SearchDense, AnswerInv, ContextInv, WayInv
<1>5. hits \in Seq(Hits) /\ Len(hits) = n /\ DOMAIN hits = 1 .. n /\ \A i \in 1 .. n : hits[i].score.space = "cosine"
  <2>1. n \in Nat /\ DOMAIN r = 1 .. n
    BY <1>3, AnsweringSizes
  <2>2. \A i \in 1 .. n : hits[i] \in Hits /\ hits[i].score.space = "cosine"
    BY <1>3, <2>1, AnsweringSizes DEF Hits, Scored
  <2>3. hits \in [1 .. n -> Hits] /\ DOMAIN hits = 1 .. n
    BY <2>1, <2>2
  <2> HIDE DEF hits
  <2> QED
    BY <2>1, <2>2, <2>3
<1>6. context' = Cut(hits, OrElse(ask.limit, Len(hits)))
  BY <1>2
<1> HIDE DEF hits
<1> DEFINE m == OrElse(ask.limit, Len(hits))
<1>7. m \in Nat /\ TopK \in Nat /\ n \in Nat /\ n <= TopK /\ (ask.limit # 0 => m = ask.limit) /\ (ask.limit = 0 => m = n)
  BY <1>3, <1>4, <1>5, AnsweringSizes DEF OrElse
<1>8. /\ context' \in Seq(Hits) /\ Len(context') = (IF m < n THEN m ELSE n)
      /\ \A i \in 1 .. Len(context') : context'[i] = hits[i]
  <2> HIDE DEF m
  <2> QED
    BY <1>5, <1>6, <1>7, PrefixIs DEF m
<1>9. Len(context') <= OrElse(ask.limit, TopK)
  BY <1>7, <1>8 DEF OrElse
<1>10. \A i \in DOMAIN context' : context'[i].score.space = "cosine"
  <2>1. DOMAIN context' = 1 .. Len(context') /\ Len(context') \in Nat /\ Len(context') <= n
    BY <1>7, <1>8
  <2> QED
    BY <1>5, <1>7, <1>8, <2>1
<1>11. ContextInv'
  <2>1. Returned(ranking'.dense) /\ Returned(ranking'.sparse) /\ FusedTrue'
    BY <1>4, FusedStays DEF AnswerInv, ContextInv, Returned
  <2>2. Descending(ranked')
    BY <1>4 DEF AnswerInv, ContextInv, Descending
  <2>3. Space' = "cosine" /\ Candidates' = Candidates
    BY <1>4 DEF Space, Candidates
  <2> QED
    BY <1>4, <1>8, <1>9, <1>10, <2>1, <2>2, <2>3 DEF ContextInv, AnswerInv, Returned
<1>12. PromptInv'
  BY <1>4, <1>8 DEF PromptInv
<1>13. Answered' = Answered
  BY <1>4 DEF Answered
<1> QED
  BY <1>4, <1>11, <1>12, <1>13 DEF AnswerInv, ReplyInv, WayInv

\* The hybrid search: two rankings.
LEMMA HybridKeeps ==
    ASSUME AnswerInv, HybridSearch
    PROVE  AnswerInv'
<1>1. PICK d \in Rankings(Chunk, CandK) : \E s \in Rankings(Backfilled, CandK) : ranking' = [dense |-> d, sparse |-> s]
  BY DEF HybridSearch
<1>2. PICK s \in Rankings(Backfilled, CandK) : ranking' = [dense |-> d, sparse |-> s]
  BY <1>1
<1>3. Returned(d) /\ Returned(s)
  <2>1. CandK \in Nat /\ Backfilled \subseteq Chunk
    BY AnsweringSizes
  <2>2. \A S, n : S \subseteq Chunk => [1 .. n -> S] \subseteq [1 .. n -> Chunk]
    OBVIOUS
  <2>3. /\ IsInjective(d) /\ \E n \in 0 .. CandK : d \in [1 .. n -> Chunk]
        /\ IsInjective(s) /\ \E n \in 0 .. CandK : s \in [1 .. n -> Backfilled]
    BY <2>1, RankingsAre
  <2>4. \E n \in 0 .. CandK : s \in [1 .. n -> Chunk]
    BY <2>1, <2>2, <2>3
  <2> QED
    BY <2>3, <2>4 DEF Returned
<1>4. /\ at = "search" /\ ask.hybrid /\ at' = "fuse" /\ UNCHANGED <<ask, ranked, stage, context, prompted, begun, reply>>
      /\ stage = [rrf |-> <<>>, rerank |-> <<>>] /\ ranked = <<>> /\ context = <<>> /\ prompted = <<>>
  BY DEF HybridSearch, AnswerInv, WayInv
<1>5. FusedTrue'
  <2>1. stage'.rrf = <<>> /\ FusedOrder' = <<>>
    BY <1>4 DEF FusedOrder
  <2>2. 0 \in 0 .. CandK /\ 1 .. 0 = {} /\ DOMAIN <<>> = {} /\ <<>> \in [1 .. 0 -> Candidates'] /\ IsInjective(<<>>)
    BY AnsweringSizes DEF IsInjective
  <2>3. BestFirst(<<>>)'
    BY <2>2 DEF BestFirst
  <2> QED
    BY <2>1, <2>2, <2>3 DEF FusedTrue, BestFirst
<1>6. ContextInv'
  <2>1. Returned(ranking.dense)' /\ Returned(ranking.sparse)'
    BY <1>2, <1>3 DEF Returned
  <2>2. Descending(ranked)'
    BY <1>4 DEF Descending
  <2>3. OrElse(ask.limit, IF ask.hybrid THEN RerankTop ELSE TopK)' = OrElse(ask.limit, IF ask.hybrid THEN RerankTop ELSE TopK)
    BY <1>4
  <2> QED
    BY <1>4, <1>5, <2>1, <2>2, <2>3 DEF ContextInv, AnswerInv
<1>7. PromptInv'
  BY <1>4 DEF PromptInv, AnswerInv
<1>8. Answered' = Answered
  BY <1>4 DEF Answered
<1> QED
  BY <1>4, <1>6, <1>7, <1>8 DEF AnswerInv, ReplyInv, WayInv

\* The fusion: the candidates, best first.
LEMMA FuseKeeps ==
    ASSUME AnswerInv, Fuse
    PROVE  AnswerInv'
<1>1. PICK r \in Rankings(Candidates, CandK) :
         /\ BestFirst(r)
         /\ stage' = [stage EXCEPT !.rrf =
                [i \in DOMAIN r |-> [chunk |-> r[i], score |-> Scored("rrf", RrfScore(r[i]))]]]
         /\ at' = IF r = <<>> THEN "ground" ELSE "rerank"
  BY DEF Fuse
<1>2. /\ at = "fuse" /\ UNCHANGED <<ask, ranking, ranked, context, prompted, begun, reply>> /\ ask.hybrid
      /\ stage = [rrf |-> <<>>, rerank |-> <<>>] /\ ranked = <<>> /\ context = <<>> /\ prompted = <<>>
  BY DEF Fuse, AnswerInv, WayInv
<1>3. PICK n \in 0 .. CandK : r \in [1 .. n -> Candidates]
  <2>1. Candidates \subseteq Chunk
    BY DEF AnswerInv, ContextInv, Candidates, Returned, Range
  <2>2. CandK \in Nat
    BY AnsweringSizes
  <2> QED
    BY <2>1, <2>2, RankingsAre
<1>4. IsInjective(r)
  BY DEF Rankings
<1> DEFINE q == [i \in DOMAIN r |-> [chunk |-> r[i], score |-> Scored("rrf", RrfScore(r[i]))]]
<1>5. DOMAIN q = 1 .. n /\ \A i \in 1 .. n : q[i].chunk = r[i]
  BY <1>3
<1>6. stage' = [stage EXCEPT !.rrf = q]
  BY <1>1
<1> HIDE DEF q
<1>7. stage'.rrf = q
  BY <1>2, <1>6
<1>8. FusedOrder' = r
  <2>1. FusedOrder' = [i \in 1 .. n |-> q[i].chunk]
    BY <1>5, <1>7 DEF FusedOrder
  <2>2. r = [i \in 1 .. n |-> r[i]]
    BY <1>3
  <2> QED
    BY <1>5, <2>1, <2>2
<1>9. FusedTrue'
  <2>1. Candidates' = Candidates /\ \A c : RrfScore(c)' = RrfScore(c)
    BY <1>2 DEF Candidates, RrfScore, Share
  <2>2. \A a, b : Ahead(a, b) => Ahead(a, b)'
    BY <1>2, <2>1 DEF Ahead, MetBefore
  <2>3. BestFirst(FusedOrder)'
    BY <1>1, <1>8, <2>1, <2>2 DEF BestFirst
  <2> QED
    BY <1>3, <1>4, <1>5, <1>7, <1>8, <2>1, <2>3 DEF FusedTrue
<1>10. ContextInv'
  BY SMTT(30), <1>2, <1>9 DEF ContextInv, AnswerInv, Returned, Descending
<1>11. PromptInv'
  BY <1>2 DEF PromptInv, AnswerInv
<1>12. Answered' = Answered
  BY <1>2 DEF Answered
<1>13. at' \in {"ground", "rerank"}
  BY <1>1
<1> QED
  BY <1>2, <1>10, <1>11, <1>12, <1>13 DEF AnswerInv, ReplyInv, WayInv

\* The reranker: the candidates sorted by its scores, and the context's share.
LEMMA RerankKeeps ==
    ASSUME AnswerInv, Rerank
    PROVE  AnswerInv'
<1>1. /\ at = "rerank" /\ ask.hybrid /\ UNCHANGED <<ask, ranking, prompted, begun>> /\ prompted = <<>>
      /\ ask.limit \in Nat
  BY DEF Rerank, AnswerInv, ContextInv, WayInv
<1>2. ASSUME NEW f, Fail(Unreachable(f)), UNCHANGED <<ranked, context, stage>> PROVE AnswerInv'
  BY <1>1, <1>2, FailuresAre, FailureKeeps DEF Fail, ContextStays
<1>3. ASSUME NEW r \in Rankings(Chunks(stage.rrf), CandK), NEW level \in [DOMAIN r -> Scores],
             ranked' = [i \in DOMAIN r |-> [chunk |-> r[i], score |-> Scored("rerank", level[i])]],
             Sorted(ranked'), context' = Cut(ranked', OrElse(ask.limit, RerankTop)),
             stage' = [rrf |-> Rescored(stage.rrf, context'), rerank |-> context'],
             at' = "ground", UNCHANGED reply
      PROVE  AnswerInv'
  <2>1. PICK n \in 0 .. CandK : FusedOrder \in [1 .. n -> Candidates] /\ DOMAIN stage.rrf = 1 .. n
    BY DEF AnswerInv, ContextInv, FusedTrue
  <2>2. Chunks(stage.rrf) \subseteq Candidates
    BY <2>1 DEF Chunks, FusedOrder
  <2>3. Candidates \subseteq Chunk
    BY DEF AnswerInv, ContextInv, Candidates, Returned, Range
  <2>4. CandK \in Nat
    BY AnsweringSizes
  <2>5. PICK k \in 0 .. CandK : r \in [1 .. k -> Chunks(stage.rrf)]
    BY <2>2, <2>3, <2>4, RankingsAre
  <2>6. k \in Nat /\ DOMAIN r = 1 .. k
    BY <2>4, <2>5
  <2>7. \A i \in 1 .. k : /\ ranked'[i] \in Hits /\ ranked'[i].score.space = "rerank"
                          /\ ranked'[i].chunk \in Candidates
    <3>1. \A i \in 1 .. k : r[i] \in Candidates /\ r[i] \in Chunk /\ level[i] \in Nat
      BY <2>2, <2>3, <2>5, <2>6, AnsweringSizes
    <3> QED
      BY <1>3, <2>6, <3>1 DEF Hits, Scored
  <2>8. ranked' \in Seq(Hits) /\ Len(ranked') = k /\ DOMAIN ranked' = 1 .. k
    <3>1. ranked' \in [1 .. k -> Hits]
      BY <1>3, <2>6, <2>7
    <3> QED
      BY <2>6, <3>1
  <2> DEFINE m == OrElse(ask.limit, RerankTop)
  <2>9. m \in Nat /\ m > 0
    BY <1>1, AnsweringSizes DEF OrElse
  <2>10. context' = Cut(ranked', m)
    BY <1>3
  <2> HIDE DEF m
  <2>11. /\ context' \in Seq(Hits) /\ Len(context') = (IF m < k THEN m ELSE k)
         /\ \A i \in 1 .. Len(context') : context'[i] = ranked'[i]
    <3> DEFINE s == ranked'
    <3>1. s \in Seq(Hits) /\ Len(s) = k /\ context' = Cut(s, m)
      BY <2>8, <2>10
    <3> HIDE DEF s
    <3>2. /\ Cut(s, m) \in Seq(Hits) /\ Len(Cut(s, m)) = IF m < Len(s) THEN m ELSE Len(s)
          /\ \A i \in 1 .. Len(Cut(s, m)) : Cut(s, m)[i] = s[i]
      BY <2>9, <3>1, PrefixIs
    <3> QED
      BY <3>1, <3>2 DEF s
  <2>12. /\ Len(context') <= m /\ DOMAIN context' = 1 .. Len(context') /\ Len(context') \in 0 .. k
         /\ ranked' # <<>> => context' # <<>> /\ context'[1] = ranked'[1]
    BY <2>6, <2>8, <2>9, <2>11
  <2>13. FusedTrue'
    <3> DEFINE new == Rescored(stage.rrf, context')
    <3>1. stage'.rrf = new
      BY <1>3
    <3>2. DOMAIN new = DOMAIN stage.rrf
      BY DEF Rescored
    <3>3. \A i \in DOMAIN stage.rrf : new[i].chunk = stage.rrf[i].chunk
      <4>1. ASSUME NEW i \in DOMAIN stage.rrf PROVE new[i].chunk = stage.rrf[i].chunk
        <5> DEFINE c == stage.rrf[i].chunk
        <5> DEFINE s == context'
        <5>1. new[i] = IF c \in Chunks(s) THEN s[CHOOSE j \in DOMAIN s : s[j].chunk = c] ELSE stage.rrf[i]
          BY DEF Rescored
        <5> HIDE DEF s
        <5>2. c \in Chunks(s) => \E j \in DOMAIN s : s[j].chunk = c
          BY DEF Chunks
        <5>3. c \in Chunks(s) => s[CHOOSE j \in DOMAIN s : s[j].chunk = c].chunk = c
          BY <5>2
        <5> HIDE DEF new
        <5> QED
          BY <5>1, <5>3
      <4> QED
        BY <4>1
    <3> HIDE DEF new
    <3>4. FusedOrder' = FusedOrder
      BY <3>1, <3>2, <3>3 DEF FusedOrder
    <3>5. Candidates' = Candidates /\ \A c : RrfScore(c)' = RrfScore(c)
      BY <1>1 DEF Candidates, RrfScore, Share
    <3>6. \A a, b : Ahead(a, b) => Ahead(a, b)'
      BY <1>1, <3>5 DEF Ahead, MetBefore
    <3>7. BestFirst(FusedOrder) => BestFirst(FusedOrder)'
      BY <3>4, <3>5, <3>6 DEF BestFirst
    <3> QED
      BY <3>1, <3>2, <3>4, <3>5, <3>7 DEF AnswerInv, ContextInv, FusedTrue
  <2>14. Descending(ranked')
    BY <1>3 DEF Sorted
  <2>15. \A i \in DOMAIN context' : context'[i].score.space = "rerank" /\ context'[i].chunk \in Candidates
    <3>1. \A i \in 1 .. Len(context') : i \in 1 .. k /\ context'[i] = ranked'[i]
      BY <2>6, <2>11, <2>12
    <3> QED
      BY <2>7, <2>12, <3>1
  <2>16. Space' = "rerank" /\ Candidates' = Candidates
    BY <1>1 DEF Space, Candidates
  <2>17. ContextInv'
    BY <1>1, <2>8, <2>11, <2>12, <2>13, <2>14, <2>15, <2>16 DEF m, ContextInv, AnswerInv, Returned
  <2>18. PromptInv'
    BY <1>1, <2>12 DEF PromptInv
  <2>19. Answered' = Answered /\ ~Answered
    BY <1>1, <1>3 DEF Answered, AnswerInv, WayInv
  <2> QED
    BY <1>1, <1>3, <2>17, <2>18, <2>19 DEF AnswerInv, ReplyInv, WayInv
<1> QED
  <2>1. CASE \E f \in Failures : Fail(Unreachable(f)) /\ UNCHANGED <<ranked, context, stage>>
    BY <1>2, <2>1
  <2>2. CASE \E r \in Rankings(Chunks(stage.rrf), CandK) : \E level \in [DOMAIN r -> Scores] :
                /\ ranked' = [i \in DOMAIN r |-> [chunk |-> r[i], score |-> Scored("rerank", level[i])]]
                /\ Sorted(ranked') /\ context' = Cut(ranked', OrElse(ask.limit, RerankTop))
                /\ stage' = [rrf |-> Rescored(stage.rrf, context'), rerank |-> context']
                /\ at' = "ground" /\ UNCHANGED reply
    BY <1>3, <2>2
  <2> QED
    BY <2>1, <2>2 DEF Rerank

\* The floor: without a chunk over it, none of those that were ranked is.
LEMMA GroundKeeps ==
    ASSUME AnswerInv, Ground
    PROVE  AnswerInv'
<1>1. at = "ground" /\ ContextStays /\ prompted = <<>> /\ ~Answered /\ reply.cited = <<>>
  BY DEF Ground, ContextStays, AnswerInv, WayInv
<1>2. ContextInv' /\ ContextInv
  BY <1>1, ContextKept DEF AnswerInv
<1>3. GroundingFloor' = GroundingFloor
  BY <1>1 DEF GroundingFloor, ContextStays
<1>4. CASE Grounded = <<>>
  <2>1. at' = "done" /\ prompted' = prompted
        /\ reply' = [Unanswered EXCEPT !.status = 200, !.kind = "answer", !.refused = TRUE]
    BY <1>4 DEF Ground, Fail
  <2>2. reply'.kind = "answer" /\ reply'.refused = TRUE /\ reply'.cited = <<>>
    BY <2>1 DEF Unanswered
  <2>3. \A i \in DOMAIN ranked : ranked[i].score.level < RerankMinScore
    <3> SUFFICES ASSUME NEW i \in DOMAIN ranked PROVE ranked[i].score.level < RerankMinScore
      OBVIOUS
    <3>1. ranked \in Seq(Hits) /\ context \in Seq(Hits) /\ Descending(ranked) /\ ranked # <<>>
      BY <1>2 DEF ContextInv
    <3>2. ask.hybrid /\ context # <<>> /\ context[1] = ranked[1]
      BY <1>2, <3>1 DEF ContextInv
    <3>3. 1 \in DOMAIN context /\ 1 \in DOMAIN ranked /\ i \in Nat /\ (i = 1 \/ 1 < i)
      BY <3>1, <3>2
    <3>4. ~ (context[1].score.level >= RerankMinScore)
      BY <1>2, <1>4, <3>2, <3>3, GroundedHas DEF GroundingFloor
    <3>5. ranked[1].score.level >= ranked[i].score.level
      <4>1. CASE i = 1
        <5>1. ranked[1] \in Hits
          BY <3>1, <3>3
        <5>2. ranked[1].score.level \in Nat
          BY <5>1 DEF Hits
        <5> QED
          BY <4>1, <5>2
      <4>2. CASE 1 < i
        BY <3>1, <3>3, <4>2 DEF Descending
      <4> QED
        BY <3>3, <4>1, <4>2
    <3>6. ranked[1] \in Hits /\ ranked[i] \in Hits
      BY <3>1, <3>3
    <3>7. ranked[1].score.level \in Nat /\ ranked[i].score.level \in Nat /\ RerankMinScore \in Nat
      BY <3>6, AnsweringSizes DEF Hits
    <3> QED
      BY <3>2, <3>4, <3>5, <3>7
  <2>4. PromptInv'
    BY <1>1, <1>2, <2>1 DEF PromptInv, AnswerInv, ContextInv, ContextStays
  <2> QED
    BY <1>1, <1>2, <2>1, <2>2, <2>3, <2>4 DEF AnswerInv, ReplyInv, WayInv, Answered, ContextStays
<1>5. CASE Grounded # <<>>
  <2>1. at' = "generate" /\ prompted' = Grounded /\ reply' = reply
    BY <1>5 DEF Ground
  <2>2. PromptInv'
    BY <1>1, <1>2, <1>3, <2>1, GroundedHas DEF PromptInv, ContextStays
  <2> QED
    BY <1>1, <1>2, <1>5, <2>1, <2>2 DEF AnswerInv, ReplyInv, WayInv, Answered, ContextStays
<1> QED
  BY <1>4, <1>5

\* The model: a piece of its text, its text, or its failure.
LEMMA ModelKeeps ==
    ASSUME AnswerInv, Token \/ Complete \/ ProviderFails
    PROVE  AnswerInv'
<1>1. at = "generate" /\ prompted' = prompted /\ prompted # <<>> /\ ~Answered /\ reply.cited = <<>>
  <2>1. at = "generate" /\ prompted' = prompted
    <3>1. Token => at = "generate" /\ prompted' = prompted
      BY DEF Token
    <3>2. Complete => at = "generate" /\ prompted' = prompted
      BY DEF Complete
    <3>3. ProviderFails => at = "generate" /\ prompted' = prompted
      BY DEF ProviderFails
    <3> QED
      BY <3>1, <3>2, <3>3
  <2> QED
    BY <2>1 DEF AnswerInv, WayInv
<1>0. ContextStays
  <2>1. Token => ContextStays
    BY DEF Token, ContextStays
  <2>2. Complete => ContextStays
    BY DEF Complete, ContextStays
  <2>3. ProviderFails => ContextStays
    BY DEF ProviderFails, ContextStays
  <2> QED
    BY <2>1, <2>2, <2>3
<1>2. CASE Token
  <2>1. at' = at /\ reply' = reply
    BY <1>2 DEF Token
  <2>2. ContextInv' /\ PromptInv'
    BY <1>0, <1>1, <2>1, ContextKept DEF AnswerInv, PromptInv, ContextStays, GroundingFloor
  <2> QED
    BY <1>1, <2>1, <2>2 DEF AnswerInv, ReplyInv, WayInv, Answered
<1>3. ASSUME ProviderFails
      PROVE  at' = "done" /\ reply'.kind # "answer" /\ reply'.cited = <<>>
  <2>1. \A status, retry : \A kind \in {"model_quota_exceeded", "model_unavailable", "internal"} :
            ProviderError(status, kind, retry).kind # "answer" /\ ProviderError(status, kind, retry).cited = <<>>
    BY DEF ProviderError, Unanswered
  <2> QED
    BY <1>3, <2>1 DEF ProviderFails, Fail
<1>4. CASE ProviderFails
  <2>4. ContextInv' /\ PromptInv'
    BY <1>0, <1>1, ContextKept DEF AnswerInv, PromptInv, ContextStays, GroundingFloor
  <2> QED
    BY <1>1, <1>3, <1>4, <2>4 DEF AnswerInv, ReplyInv, WayInv, Answered
<1>5. CASE Complete
  <2>1. PICK text \in {"answer"} \cup Refusals : at' = "done" /\ reply' = Answer(text)
    BY <1>5 DEF Complete, Fail
  <2>2. /\ reply'.kind = "answer" /\ reply'.refused = (text \in Refusals)
        /\ reply'.cited = IF text \in Refusals THEN <<>> ELSE prompted
    BY <2>1 DEF Answer, Unanswered
  <2>3. ContextInv'
    BY <1>0, <1>1, ContextKept DEF AnswerInv
  <2>4. PromptInv'
    BY <1>0, <1>1 DEF AnswerInv, PromptInv, ContextStays, GroundingFloor
  <2>5. reply'.refused <=> reply'.cited = <<>>
    BY <1>1, <2>2
  <2>6. prompted' # <<>>
    BY <1>1
  <2> QED
    BY <1>1, <2>1, <2>2, <2>3, <2>4, <2>5, <2>6 DEF AnswerInv, ReplyInv, WayInv, Answered
<1> QED
  BY <1>2, <1>4, <1>5

\* Nothing has been asked of anybody (AnsweringInit).
LEMMA AnsweringStarts == AnsweringInit => AnswerInv
<1> SUFFICES ASSUME AnsweringInit PROVE AnswerInv
  OBVIOUS
<1>1. /\ ask \in [hybrid : BOOLEAN, limit : Nat, streamed : BOOLEAN] /\ at = "embed"
      /\ ranking = [dense |-> <<>>, sparse |-> <<>>] /\ ranked = <<>> /\ stage = [rrf |-> <<>>, rerank |-> <<>>]
      /\ context = <<>> /\ prompted = <<>> /\ reply = Unanswered
  BY AnsweringSizes DEF AnsweringInit
<1>2. 0 \in 0 .. CandK /\ 1 .. 0 = {} /\ DOMAIN <<>> = {} /\ \A S : <<>> \in [1 .. 0 -> S] /\ IsInjective(<<>>)
  BY AnsweringSizes DEF IsInjective
<1>3. Returned(ranking.dense) /\ Returned(ranking.sparse)
  BY <1>1, <1>2 DEF Returned
<1>4. FusedOrder = <<>> /\ stage.rrf = <<>>
  BY <1>1 DEF FusedOrder
<1>5. FusedTrue
  BY <1>2, <1>4 DEF FusedTrue, BestFirst
<1>6. Descending(ranked) /\ 0 <= OrElse(ask.limit, IF ask.hybrid THEN RerankTop ELSE TopK)
  BY <1>1, AnsweringSizes DEF Descending, OrElse
<1>7. ContextInv
  BY <1>1, <1>3, <1>5, <1>6 DEF ContextInv
<1>8. reply.kind = "none" /\ reply.cited = <<>>
  BY <1>1 DEF Unanswered
<1> QED
  BY <1>1, <1>7, <1>8 DEF AnswerInv, PromptInv, ReplyInv, WayInv, Answered

\* Every step on the way keeps the invariant.
LEMMA AnsweringKeeps == AnswerInv /\ [AnsweringNext]_answering => AnswerInv'
<1>1. ASSUME AnswerInv, UNCHANGED answering PROVE AnswerInv'
  <2>1. ContextStays /\ UNCHANGED <<at, prompted, reply>>
    BY <1>1 DEF answering, ContextStays
  <2>2. ContextInv'
    BY <1>1, <2>1, ContextKept DEF AnswerInv
  <2> QED
    BY <1>1, <2>1, <2>2 DEF AnswerInv, PromptInv, ReplyInv, WayInv, Answered, ContextStays, GroundingFloor
<1> QED
  BY <1>1, EmbedKeeps, SearchDenseKeeps, HybridKeeps, FuseKeeps, RerankKeeps, GroundKeeps, ModelKeeps DEF AnsweringNext

\* An answer stands on what was found, and what was found is used (AnswerTold),
\* whatever the scope holds, the retrievers rank and the servers score: it cites
\* the chunks of its prompt, each over the floor of its own space; what both
\* retrievers found is not cut off for what one found; and a question is refused
\* unasked only when no candidate reached the floor.
THEOREM AnswersStand == Spec => []AnswerTold
<1>1. Init => AnswerInv
  BY AnsweringStarts DEF Init
<1>2. AnswerInv /\ [Next]_serving => AnswerInv'
  <2>1. [Next]_serving => [AnsweringNext]_answering
    <3>1. UNCHANGED serving => UNCHANGED answering
      BY DEF serving
    <3> QED
      BY <3>1 DEF Next
  <2> QED
    BY <2>1, AnsweringKeeps
<1>3. AnswerInv => AnswerTold
  BY FusionIs, GroundedIs DEF AnswerTold
<1> QED
  BY <1>1, <1>2, <1>3, PTL DEF Spec

-----------------------------------------------------------------------------
(***************************************************************************)
(* The cutting of documents.  A heading path is a stack that a heading cuts *)
(* down to its level and goes on top of.  What it is worth is said without  *)
(* the stack (PathAt): at each depth it holds the last enclosing heading of *)
(* at most that level.  Two paths that share a heading then share all above *)
(* it (SharedAbove), so that what a merged span is put under names just the *)
(* headings that enclose both its parts.                                    *)
(***************************************************************************)
\* The headings up to token i of page n.
Sofar(n, i) == {h \in Places : Before(h, <<n, i>>) \/ h = <<n, i>>}

\* What holds of the document and of the way to cut it.
BookOK == /\ book \in Seq(Seq(Nat))
          /\ cut \in [size : Nat \ {0}, overlap : Nat, strategy : {"section", "fixed"}, prefix : BOOLEAN]

\* The places of headings are ordered.
LEMMA PlacesAre ==
    ASSUME BookOK
    PROVE  \A h \in Places : /\ h = <<h[1], h[2]>> /\ h[1] \in 1 .. Len(book) /\ h[2] \in DOMAIN book[h[1]]
                             /\ h[1] \in Nat /\ h[2] \in Nat \ {0} /\ Level(h) \in Nat \ {0}
<1>1. \A n \in 1 .. Len(book) : book[n] \in Seq(Nat)
  BY DEF BookOK
<1>2. ASSUME NEW n \in 1 .. Len(book), NEW i \in Headings(book[n])
      PROVE  i \in DOMAIN book[n] /\ i \in Nat \ {0} /\ book[n][i] \in Nat \ {0}
  <2>1. i \in 1 .. Len(book[n]) /\ book[n][i] > 0 /\ book[n][i] \in Nat
    BY <1>1 DEF Headings
  <2> QED
    BY <1>1, <2>1
<1>3. ASSUME NEW h \in Places
      PROVE  /\ h = <<h[1], h[2]>> /\ h[1] \in 1 .. Len(book) /\ h[2] \in DOMAIN book[h[1]]
             /\ h[1] \in Nat /\ h[2] \in Nat \ {0} /\ Level(h) \in Nat \ {0}
  <2>1. PICK n \in 1 .. Len(book) : \E i \in Headings(book[n]) : h = <<n, i>>
    BY DEF Places
  <2>3. PICK i \in Headings(book[n]) : h = <<n, i>>
    BY <2>1
  <2>2. h[1] = n /\ h[2] = i /\ n \in Nat
    BY <2>3
  <2> QED
    BY <1>2, <2>2, <2>3 DEF Level
<1> QED
  BY <1>3

\* Of two of them one is before the other.
LEMMA OneBefore ==
    ASSUME BookOK, NEW g \in Places, NEW h \in Places
    PROVE  /\ g = h \/ Before(g, h) \/ Before(h, g)
           /\ ~ (Before(g, h) /\ Before(h, g)) /\ ~ Before(g, g)
<1>1. g = <<g[1], g[2]>> /\ h = <<h[1], h[2]>> /\ g[1] \in Nat /\ g[2] \in Nat /\ h[1] \in Nat /\ h[2] \in Nat
  BY PlacesAre
<1> QED
  BY <1>1 DEF Before

\* s is the heading path at token i of page n: at each depth the last enclosing
\* heading of at most that level.
PathAt(s, n, i) ==
    /\ s \in Seq(Places)
    /\ \A k \in 1 .. Len(s) :
          /\ s[k] \in Enclosing(n, i) /\ Level(s[k]) <= k
          /\ \A h \in Enclosing(n, i) : Level(h) <= k => h = s[k] \/ Before(h, s[k])
    /\ \A h \in Enclosing(n, i) : Level(h) <= Len(s)
    /\ s = <<>> => Sofar(n, i) = {}

\* Enclosing, said of what has come so far.
LEMMA EnclosingIs ==
    \A n, i : Enclosing(n, i) = {h \in Sofar(n, i) : \A k \in Sofar(n, i) : Before(h, k) => Level(k) > Level(h)}
  BY DEF Enclosing, Sofar

\* An enclosing heading is there at the depth of its own level,
LEMMA AtItsLevel ==
    ASSUME BookOK, NEW s, NEW n, NEW i, PathAt(s, n, i), NEW h \in Enclosing(n, i)
    PROVE  Level(h) \in 1 .. Len(s) /\ s[Level(h)] = h
<1>1. h \in Sofar(n, i) /\ h \in Places /\ Level(h) \in Nat \ {0} /\ Level(h) <= Len(s) /\ Len(s) \in Nat
  BY PlacesAre, EnclosingIs DEF PathAt, Sofar
<1> DEFINE k == Level(h)
<1>2. k \in 1 .. Len(s)
  BY <1>1
<1>3. s[k] \in Enclosing(n, i) /\ Level(s[k]) <= k /\ (h = s[k] \/ Before(h, s[k]))
  BY <1>1, <1>2 DEF PathAt
<1>4. s[k] \in Sofar(n, i) /\ s[k] \in Places /\ Level(s[k]) \in Nat
  BY <1>3, EnclosingIs, PlacesAre DEF Sofar
<1>5. Before(h, s[k]) => Level(s[k]) > k
  BY <1>4, EnclosingIs
<1> QED
  BY <1>1, <1>2, <1>3, <1>4, <1>5

\* so the path names the enclosing headings.
LEMMA PathNames ==
    ASSUME BookOK, NEW s, NEW n, NEW i, PathAt(s, n, i)
    PROVE  Range(s) = Enclosing(n, i)
<1>1. DOMAIN s = 1 .. Len(s)
  BY DEF PathAt
<1>2. Range(s) \subseteq Enclosing(n, i)
  BY <1>1 DEF Range, PathAt
<1>3. Enclosing(n, i) \subseteq Range(s)
  BY <1>1, AtItsLevel DEF Range
<1> QED
  BY <1>2, <1>3

\* A word leaves it as it is,
LEMMA WordKeepsPath ==
    ASSUME BookOK, NEW n \in 1 .. Len(book), NEW i \in DOMAIN book[n], book[n][i] = 0
    PROVE  Sofar(n, i) = Sofar(n, i - 1) /\ Enclosing(n, i) = Enclosing(n, i - 1)
<1>1. book[n] \in Seq(Nat) /\ i \in Nat \ {0} /\ n \in Nat
  BY DEF BookOK
<1>2. ASSUME NEW h \in Places
      PROVE  (Before(h, <<n, i>>) \/ h = <<n, i>>) <=> (Before(h, <<n, i - 1>>) \/ h = <<n, i - 1>>)
  <2>1. h = <<h[1], h[2]>> /\ h[1] \in Nat /\ h[2] \in Nat /\ Level(h) # 0
    BY PlacesAre
  <2>2. h # <<n, i>>
    BY <2>1 DEF Level
  <2>3. <<n, i>>[1] = n /\ <<n, i>>[2] = i /\ <<n, i - 1>>[1] = n /\ <<n, i - 1>>[2] = i - 1
    OBVIOUS
  <2>4. Before(h, <<n, i>>) <=> h[1] < n \/ (h[1] = n /\ h[2] < i)
    BY <2>3 DEF Before
  <2>5. Before(h, <<n, i - 1>>) <=> h[1] < n \/ (h[1] = n /\ h[2] < i - 1)
    BY <2>3 DEF Before
  <2>6. h = <<n, i - 1>> <=> h[1] = n /\ h[2] = i - 1
    BY <2>1
  <2>7. ~ (h[1] = n /\ h[2] = i)
    BY <2>1, <2>2
  <2> QED
    BY <1>1, <2>1, <2>2, <2>4, <2>5, <2>6, <2>7
<1>3. Sofar(n, i) = Sofar(n, i - 1)
  BY <1>2 DEF Sofar
<1> QED
  BY <1>3, EnclosingIs

\* and so does the turn of a page.
LEMMA PageKeepsPath ==
    ASSUME BookOK, NEW n \in 1 .. Len(book)
    PROVE  Sofar(n, Len(book[n])) = Sofar(n + 1, 0) /\ Enclosing(n, Len(book[n])) = Enclosing(n + 1, 0)
<1>1. book[n] \in Seq(Nat) /\ n \in Nat
  BY DEF BookOK
<1> DEFINE i == Len(book[n])
<1>2. i \in Nat /\ DOMAIN book[n] = 1 .. i
  BY <1>1
<1>3. ASSUME NEW h \in Places
      PROVE  (Before(h, <<n, i>>) \/ h = <<n, i>>) <=> (Before(h, <<n + 1, 0>>) \/ h = <<n + 1, 0>>)
  <2>1. h = <<h[1], h[2]>> /\ h[1] \in Nat /\ h[2] \in Nat \ {0} /\ h[2] \in DOMAIN book[h[1]]
    BY PlacesAre
  <2>2. h[1] = n => h[2] <= i
    BY <1>2, <2>1
  <2>3. <<n, i>>[1] = n /\ <<n, i>>[2] = i /\ <<n + 1, 0>>[1] = n + 1 /\ <<n + 1, 0>>[2] = 0
    OBVIOUS
  <2>4. Before(h, <<n, i>>) <=> h[1] < n \/ (h[1] = n /\ h[2] < i)
    BY <2>3 DEF Before
  <2>5. Before(h, <<n + 1, 0>>) <=> h[1] < n + 1 \/ (h[1] = n + 1 /\ h[2] < 0)
    BY <2>3 DEF Before
  <2>6. h = <<n, i>> <=> h[1] = n /\ h[2] = i
    BY <2>1
  <2>7. h # <<n + 1, 0>>
    BY <2>1, <2>3
  <2> HIDE DEF i
  <2> QED
    BY <1>1, <1>2, <2>1, <2>2, <2>4, <2>5, <2>6, <2>7
<1>4. Sofar(n, i) = Sofar(n + 1, 0)
  BY <1>3 DEF Sofar
<1> QED
  BY <1>4, EnclosingIs

\* A heading closes its equals and all below,
LEMMA HeadingCloses ==
    ASSUME BookOK, NEW n \in 1 .. Len(book), NEW i \in DOMAIN book[n], book[n][i] > 0
    PROVE  /\ <<n, i>> \in Places /\ Level(<<n, i>>) = book[n][i]
           /\ Sofar(n, i) = Sofar(n, i - 1) \cup {<<n, i>>}
           /\ \A h \in Sofar(n, i - 1) : Before(h, <<n, i>>)
           /\ Enclosing(n, i) = {h \in Enclosing(n, i - 1) : Level(h) < book[n][i]} \cup {<<n, i>>}
<1>1. book[n] \in Seq(Nat) /\ i \in Nat \ {0} /\ n \in Nat
  BY DEF BookOK
<1> DEFINE x == <<n, i>>
<1>2. x \in Places /\ Level(x) = book[n][i]
  BY <1>1 DEF Places, Headings, Level
<1>3. ASSUME NEW h \in Places
      PROVE  Before(h, x) <=> (Before(h, <<n, i - 1>>) \/ h = <<n, i - 1>>)
  <2>1. h = <<h[1], h[2]>> /\ h[1] \in Nat /\ h[2] \in Nat
    BY PlacesAre
  <2>2. x[1] = n /\ x[2] = i /\ <<n, i - 1>>[1] = n /\ <<n, i - 1>>[2] = i - 1
    OBVIOUS
  <2>3. Before(h, x) <=> h[1] < n \/ (h[1] = n /\ h[2] < i)
    BY <2>2 DEF Before
  <2>4. Before(h, <<n, i - 1>>) <=> h[1] < n \/ (h[1] = n /\ h[2] < i - 1)
    BY <2>2 DEF Before
  <2>5. h = <<n, i - 1>> <=> h[1] = n /\ h[2] = i - 1
    BY <2>1
  <2> HIDE DEF x
  <2> QED
    BY <1>1, <2>1, <2>3, <2>4, <2>5
<1>4. Sofar(n, i) = Sofar(n, i - 1) \cup {x}
  BY <1>2, <1>3 DEF Sofar
<1>5. \A h \in Sofar(n, i - 1) : Before(h, x) /\ h \in Places
  BY <1>3 DEF Sofar
<1>6. \A h \in Places : Level(h) \in Nat /\ ~ Before(h, h) /\ ~ (Before(h, x) /\ Before(x, h))
  BY <1>2, PlacesAre, OneBefore
<1>7. Enclosing(n, i) = {h \in Enclosing(n, i - 1) : Level(h) < Level(x)} \cup {x}
  <2> HIDE DEF x
  <2>1. ASSUME NEW h \in Enclosing(n, i) PROVE h = x \/ (h \in Enclosing(n, i - 1) /\ Level(h) < Level(x))
    BY <1>4, <1>5, <2>1, EnclosingIs
  <2>2. ASSUME NEW h \in Enclosing(n, i - 1), Level(h) < Level(x) PROVE h \in Enclosing(n, i)
    BY <1>4, <1>5, <2>2, EnclosingIs
  <2>3. x \in Enclosing(n, i)
    BY <1>4, <1>5, <1>6, <1>2, EnclosingIs
  <2> QED
    BY <2>1, <2>2, <2>3
<1> QED
  BY <1>2, <1>4, <1>5, <1>7

\* and the stack does so where the outline opens at the top.
LEMMA PushKeepsPath ==
    ASSUME BookOK, OutlineOpensAtTop, NEW n \in 1 .. Len(book), NEW i \in DOMAIN book[n], book[n][i] > 0,
           NEW s, PathAt(s, n, i - 1)
    PROVE  PathAt(Push(s, book[n][i], <<n, i>>), n, i)
<1> DEFINE x == <<n, i>>
<1> DEFINE L == book[n][i]
<1> DEFINE E == Enclosing(n, i - 1)
<1> DEFINE t == Push(s, L, x)
<1>1. x \in Places /\ Level(x) = L /\ L \in Nat /\ L > 0
  BY HeadingCloses, PlacesAre
<1>2. Enclosing(n, i) = {h \in E : Level(h) < L} \cup {x} /\ \A h \in E : Before(h, x) /\ h \in Places /\ Level(h) \in Nat
  BY HeadingCloses, EnclosingIs, PlacesAre DEF Sofar
<1>3. s \in Seq(Places) /\ Len(s) \in Nat /\ \A k \in 1 .. Len(s) : s[k] \in Places
  BY DEF PathAt
<1>4. s = <<>> => L = 1
  <2>1. SUFFICES ASSUME s = <<>> PROVE L = 1
    OBVIOUS
  <2>2. Sofar(n, i - 1) = {} /\ Sofar(n, i) = {x}
    <3>1. Sofar(n, i - 1) = {}
      BY <2>1 DEF PathAt
    <3>2. Sofar(n, i) = Sofar(n, i - 1) \cup {x}
      BY HeadingCloses
    <3> HIDE DEF x
    <3> QED
      BY <3>1, <3>2
  <2>3. PICK h \in Places : Level(h) = 1 /\ \A k \in Places : ~ Before(k, h)
    BY <1>1 DEF OutlineOpensAtTop
  <2>4. h = x \/ Before(h, x)
    BY <1>1, <2>3, OneBefore
  <2>5. h = x
    BY <2>2, <2>4 DEF Sofar
  <2> QED
    BY <1>1, <2>3, <2>5
<1>5. t = [k \in 1 .. L |-> IF k = L \/ s = <<>> THEN x ELSE IF k <= Len(s) THEN s[k] ELSE s[Len(s)]]
  BY DEF Push, Last
<1>6. s # <<>> => Len(s) \in 1 .. Len(s)
  BY <1>3
<1> HIDE DEF x, L, E, t
<1>7. \A k \in 1 .. L : t[k] \in Places
  BY <1>1, <1>3, <1>5, <1>6
<1>8. t \in Seq(Places) /\ Len(t) = L /\ t # <<>>
  BY <1>1, <1>5, <1>7
<1>9. ASSUME NEW k \in 1 .. L
      PROVE  /\ t[k] \in Enclosing(n, i) /\ Level(t[k]) <= k
             /\ \A h \in Enclosing(n, i) : Level(h) <= k => h = t[k] \/ Before(h, t[k])
  <2>1. CASE k = L
    BY <1>1, <1>2, <1>5, <2>1
  <2>2. CASE k # L
    <3> DEFINE m == IF k <= Len(s) THEN k ELSE Len(s)
    <3>1. s # <<>> /\ k < L /\ k \in Nat
      BY <1>1, <1>4, <2>2
    <3>2. m \in 1 .. Len(s) /\ m <= k /\ t[k] = s[m]
      BY <1>3, <1>5, <1>6, <2>2, <3>1
    <3> HIDE DEF m
    <3>3. /\ s[m] \in E /\ Level(s[m]) <= m
          /\ \A h \in E : Level(h) <= m => h = s[m] \/ Before(h, s[m])
      BY <3>2 DEF PathAt, E
    <3>4. Level(s[m]) \in Nat /\ Level(s[m]) < L /\ Level(s[m]) <= k
      BY <1>1, <1>2, <3>1, <3>2, <3>3
    <3>5. t[k] \in Enclosing(n, i)
      BY <1>2, <3>2, <3>3, <3>4
    <3>6. ASSUME NEW h \in Enclosing(n, i), Level(h) <= k PROVE h = t[k] \/ Before(h, t[k])
      <4>1. h \in E
        BY <1>1, <1>2, <3>1, <3>6
      <4>2. Level(h) <= m
        <5>1. Level(h) <= Len(s)
          BY <4>1 DEF PathAt, E
        <5> QED
          BY <3>6, <5>1 DEF m
      <4> QED
        BY <3>2, <3>3, <4>1, <4>2
    <3> QED
      BY <3>2, <3>4, <3>5, <3>6
  <2> QED
    BY <2>1, <2>2
<1>10. \A h \in Enclosing(n, i) : Level(h) <= L
  BY <1>1, <1>2
<1>11. PathAt(t, n, i)
  BY <1>8, <1>9, <1>10 DEF PathAt
<1> QED
  BY <1>11 DEF t, L, x

\* Two paths that share a heading share all above it.
LEMMA SharedAbove ==
    ASSUME BookOK, NEW n \in Nat, NEW i \in Nat, NEW m \in Nat, NEW j \in Nat,
           NEW g \in Enclosing(n, i), NEW h \in Enclosing(n, i) \cap Enclosing(m, j),
           Level(g) < Level(h)
    PROVE  g \in Enclosing(m, j)
<1>1. g \in Sofar(n, i) /\ h \in Sofar(n, i) /\ h \in Sofar(m, j) /\ g \in Places /\ h \in Places
  BY EnclosingIs DEF Sofar
<1>2. \A k \in Places : Level(k) \in Nat
  BY PlacesAre
<1>3. Before(g, h)
  BY <1>1, <1>2, OneBefore, EnclosingIs
<1>4. \A a, b, c \in Places : Before(a, b) /\ Before(b, c) => Before(a, c)
  <2>1. \A a \in Places : a[1] \in Nat /\ a[2] \in Nat
    BY PlacesAre
  <2> QED
    BY <2>1 DEF Before
<1>5. \A a, b \in Places : \A p, q \in Nat : Before(a, b) /\ b \in Sofar(p, q) => a \in Sofar(p, q)
  <2>1. ASSUME NEW a \in Places, NEW b \in Places, NEW p \in Nat, NEW q \in Nat, Before(a, b), b \in Sofar(p, q)
        PROVE  a \in Sofar(p, q)
    <3>1. CASE b = <<p, q>>
      BY <2>1, <3>1 DEF Sofar
    <3>2. CASE Before(b, <<p, q>>)
      <4>1. a[1] \in Nat /\ a[2] \in Nat /\ b[1] \in Nat /\ b[2] \in Nat
        BY PlacesAre
      <4>3. <<p, q>>[1] = p /\ <<p, q>>[2] = q
        OBVIOUS
      <4>2. Before(a, <<p, q>>)
        BY <2>1, <3>2, <4>1, <4>3 DEF Before
      <4> QED
        BY <4>2 DEF Sofar
    <3> QED
      BY <2>1, <3>1, <3>2 DEF Sofar
  <2> QED
    BY <2>1
<1>6. g \in Sofar(m, j)
  BY <1>1, <1>3, <1>5
<1>7. ASSUME NEW k \in Sofar(m, j), Before(g, k) PROVE Level(k) > Level(g)
  <2>1. k \in Places
    BY DEF Sofar
  <2>2. CASE k = h
    BY <2>2, <1>2, <1>1
  <2>3. CASE Before(h, k)
    <3>1. Level(k) > Level(h)
      BY <2>3, EnclosingIs
    <3> QED
      BY <1>1, <1>2, <2>1, <3>1
  <2>4. CASE Before(k, h)
    <3>1. k \in Sofar(n, i)
      BY <1>1, <1>5, <2>1, <2>4
    <3> QED
      BY <1>7, <3>1, EnclosingIs
  <2> QED
    BY <1>1, <2>1, <2>2, <2>3, <2>4, OneBefore
<1> QED
  BY <1>6, <1>7, EnclosingIs

\* P begins the path at a token.
PathBegins(P, n, i) == \E s : PathAt(s, n, i) /\ \E k \in 0 .. Len(s) : P = SubSeq(s, 1, k)

\* Two paths that share a heading agree down to it.
LEMMA AgreeDown ==
    ASSUME BookOK, NEW n \in Nat, NEW i \in Nat, NEW j \in Nat, NEW s, PathAt(s, n, i), NEW t, PathAt(t, n, j),
           NEW h \in Enclosing(n, i) \cap Enclosing(n, j)
    PROVE  /\ Level(h) \in 1 .. Len(s) /\ Level(h) \in 1 .. Len(t)
           /\ \A b \in 1 .. Level(h) : s[b] = t[b]
<1>1. Level(h) \in 1 .. Len(s) /\ s[Level(h)] = h /\ Level(h) \in 1 .. Len(t) /\ t[Level(h)] = h /\ Level(h) \in Nat
  BY AtItsLevel
<1>2. Len(s) \in Nat /\ Len(t) \in Nat
  BY DEF PathAt
<1>3. ASSUME NEW b \in 1 .. Level(h), b # Level(h) PROVE s[b] = t[b]
  <2>1. b \in 1 .. Len(s) /\ b \in 1 .. Len(t) /\ b < Level(h)
    BY <1>1, <1>2, <1>3
  <2>2. /\ s[b] \in Enclosing(n, i) /\ Level(s[b]) <= b
        /\ \A g \in Enclosing(n, i) : Level(g) <= b => g = s[b] \/ Before(g, s[b])
    BY <2>1 DEF PathAt
  <2>3. /\ t[b] \in Enclosing(n, j) /\ Level(t[b]) <= b
        /\ \A g \in Enclosing(n, j) : Level(g) <= b => g = t[b] \/ Before(g, t[b])
    BY <2>1 DEF PathAt
  <2>4. s[b] \in Places /\ t[b] \in Places
    BY <2>2, <2>3, EnclosingIs DEF Sofar
  <2>5. Level(s[b]) \in Nat /\ Level(t[b]) \in Nat
    BY <2>4, PlacesAre
  <2>6. Level(s[b]) < Level(h) /\ Level(t[b]) < Level(h)
    BY <1>1, <2>1, <2>2, <2>3, <2>5
  <2>7. s[b] \in Enclosing(n, j)
    BY <2>2, <2>6, SharedAbove
  <2>8. t[b] \in Enclosing(n, i)
    BY <2>3, <2>6, SharedAbove
  <2> QED
    BY <2>2, <2>3, <2>4, <2>7, <2>8, OneBefore
<1> QED
  BY <1>1, <1>3

\* What two headings' paths share names the headings that they share.
LEMMA PrefixNames ==
    ASSUME BookOK, NEW n \in Nat, NEW i \in Nat, NEW j \in Nat, NEW P, PathBegins(P, n, i), NEW t, PathAt(t, n, j)
    PROVE  /\ Range(CommonPrefix(P, t)) = Range(P) \cap Range(t)
           /\ PathBegins(CommonPrefix(P, t), n, i)
<1>1. PICK s : PathAt(s, n, i) /\ \E k \in 0 .. Len(s) : P = SubSeq(s, 1, k)
  BY DEF PathBegins
<1>2. PICK k \in 0 .. Len(s) : P = SubSeq(s, 1, k)
  BY <1>1
<1>3. s \in Seq(Places) /\ t \in Seq(Places) /\ Len(s) \in Nat /\ Len(t) \in Nat
  BY <1>1 DEF PathAt
<1>4. P \in Seq(Places) /\ Len(P) = k /\ (\A b \in 1 .. k : P[b] = s[b]) /\ \A m \in 0 .. k : SubSeq(P, 1, m) = SubSeq(s, 1, m)
  BY <1>2, <1>3, FirstPart
<1> DEFINE D == Agreed(P, t)
<1> DEFINE m == CHOOSE k0 \in D : \A m0 \in D : m0 <= k0
<1>5. D = {b \in 0 .. k : b <= Len(t) /\ \A a \in 1 .. b : P[a] = t[a]}
  BY <1>4 DEF Agreed
<1>6. m \in D /\ \A b \in D : b <= m
  <2>1. D \subseteq 0 .. k /\ 0 \in D /\ k \in Nat
    BY <1>2, <1>3, <1>5
  <2> HIDE DEF D
  <2>2. \E k0 \in D : \A m0 \in D : m0 <= k0
    BY <2>1, LargestNatural
  <2> QED
    BY <2>2
<1> DEFINE C == CommonPrefix(P, t)
<1>7. C = SubSeq(P, 1, m)
  BY DEF CommonPrefix
<1> HIDE DEF D, m
<1>8. m \in 0 .. k /\ m \in 0 .. Len(s) /\ m <= Len(t) /\ \A a \in 1 .. m : P[a] = t[a]
  BY <1>2, <1>3, <1>5, <1>6
<1>9. C = SubSeq(s, 1, m) /\ C \in Seq(Places) /\ Len(C) = m /\ \A a \in 1 .. m : C[a] = s[a]
  BY <1>3, <1>4, <1>7, <1>8, FirstPart
<1>10. PathBegins(C, n, i)
  BY <1>1, <1>8, <1>9 DEF PathBegins
<1> HIDE DEF C
<1>11. DOMAIN C = 1 .. m /\ DOMAIN P = 1 .. k /\ DOMAIN t = 1 .. Len(t)
  BY <1>3, <1>4, <1>9
<1>12. Range(C) \subseteq Range(P) \cap Range(t)
  <2> SUFFICES ASSUME NEW a \in 1 .. m PROVE C[a] \in Range(P) \cap Range(t)
    BY <1>11 DEF Range
  <2>1. a \in 1 .. k /\ a \in 1 .. Len(t) /\ C[a] = P[a] /\ C[a] = t[a]
    BY <1>2, <1>3, <1>4, <1>8, <1>9
  <2> QED
    BY <1>11, <2>1 DEF Range
<1>13. ASSUME NEW h \in Range(P) \cap Range(t) PROVE h \in Range(C)
  <2>1. PICK a \in 1 .. k : h = P[a]
    BY <1>11, <1>13 DEF Range
  <2>2. h = s[a] /\ a \in 1 .. Len(s)
    BY <1>2, <1>3, <1>4, <2>1
  <2>3. h \in Enclosing(n, i) /\ Level(h) <= a
    BY <1>1, <2>2 DEF PathAt
  <2>4. h \in Enclosing(n, j)
    BY <1>13, PathNames
  <2> DEFINE l == Level(h)
  <2>5. l \in 1 .. Len(s) /\ l \in 1 .. Len(t) /\ s[l] = h /\ \A b \in 1 .. l : s[b] = t[b]
    BY <1>1, <2>3, <2>4, AgreeDown, AtItsLevel
  <2> HIDE DEF l
  <2>6. l <= a
    BY <2>3 DEF l
  <2>7. l \in 0 .. k /\ l <= Len(t) /\ l \in 1 .. l /\ l \in Nat
    BY <1>2, <1>3, <2>1, <2>5, <2>6
  <2>8. \A b \in 1 .. l : P[b] = t[b]
    BY <1>2, <1>4, <2>5, <2>7
  <2>9. l \in D
    BY <1>5, <2>7, <2>8
  <2>10. l \in 1 .. m /\ C[l] = h
    BY <1>6, <1>8, <1>9, <2>5, <2>7, <2>9
  <2> QED
    BY <1>11, <2>10 DEF Range
<1> QED
  BY <1>10, <1>12, <1>13 DEF C

\* The heading path after a token, from the one before it.
Turned(n, i, s) == IF book[n][i] = 0 THEN s ELSE Push(s, book[n][i], <<n, i>>)

\* It is a sequence of places again.
LEMMA TurnedIs ==
    ASSUME BookOK, NEW n \in 1 .. Len(book), NEW i \in 1 .. Len(book[n]), NEW s \in Seq(Nat \X Nat)
    PROVE  Turned(n, i, s) \in Seq(Nat \X Nat)
<1>1. book[n] \in Seq(Nat) /\ n \in Nat /\ i \in Nat /\ book[n][i] \in Nat
  BY SMTT(30) DEF BookOK
<1> DEFINE L == book[n][i]
<1> DEFINE x == <<n, i>>
<1> DEFINE t == [k \in 1 .. L |-> IF k = L \/ s = <<>> THEN x ELSE IF k <= Len(s) THEN s[k] ELSE s[Len(s)]]
<1>2. Turned(n, i, s) = IF L = 0 THEN s ELSE t
  BY DEF Turned, Push, Last
<1>3. x \in Nat \X Nat /\ L \in Nat
  BY <1>1
<1> DEFINE P == Nat \X Nat
<1> HIDE DEF x, L, P
<1>4. \A k \in 1 .. Len(s) : s[k] \in P
  BY DEF P
<1>5. s # <<>> => Len(s) \in 1 .. Len(s)
  OBVIOUS
<1>6. \A k \in 1 .. L : (IF k = L \/ s = <<>> THEN x ELSE IF k <= Len(s) THEN s[k] ELSE s[Len(s)]) \in P
  BY <1>3, <1>4, <1>5 DEF P
<1>7. t \in [1 .. L -> P]
  BY <1>6
<1>8. t \in Seq(P)
  <2> HIDE DEF t
  <2> QED
    BY <1>3, <1>7
<1> HIDE DEF t
<1> QED
  BY <1>2, <1>8 DEF P

\* Paths goes on by it from token to token: the recursion has a value.
LEMMA PathsAre ==
    ASSUME BookOK, NEW n \in 1 .. Len(book), NEW base \in Seq(Nat \X Nat)
    PROVE  /\ Paths(n, base)[0] = base
           /\ \A i \in 1 .. Len(book[n]) : Paths(n, base)[i] = Turned(n, i, Paths(n, base)[i - 1])
<1> DEFINE m == Len(book[n])
<1> DEFINE V == Seq(Nat \X Nat)
<1> DEFINE F == [p \in (1 .. m) \X V |-> Turned(n, p[1], p[2])]
<1>1. m \in Nat /\ base \in V
  BY DEF BookOK
<1>2. F \in [(1 .. m) \X V -> V]
  BY TurnedIs
<1>3. \A i \in 1 .. m : \A s \in V : F[<<i, s>>] = Turned(n, i, s)
  OBVIOUS
<1> HIDE DEF m, V, F
<1>4. PICK g \in [0 .. m -> V] : g[0] = base /\ \A i \in 1 .. m : g[i] = F[<<i, g[i - 1]>>]
  <2>1. \E g : StepsBy(g, m, V, base, F)
    BY <1>1, <1>2, StepsAlways
  <2> QED
    BY <2>1 DEF StepsBy
<1> DEFINE Body(f) == [i \in 0 .. m |-> IF i = 0 THEN base ELSE IF book[n][i] = 0 THEN f[i - 1] ELSE Push(f[i - 1], book[n][i], <<n, i>>)]
<1>5. Paths(n, base) = CHOOSE f : f = Body(f)
  BY DEF Paths, m
<1>6. g = Body(g)
  <2>1. ASSUME NEW i \in 0 .. m PROVE g[i] = Body(g)[i]
    <3>1. CASE i = 0
      BY <1>4, <3>1
    <3>2. CASE i # 0
      <4>1. i \in 1 .. m /\ i - 1 \in 0 .. m
        BY <1>1, <3>2
      <4>2. g[i] = Turned(n, i, g[i - 1])
        BY <1>3, <1>4, <4>1
      <4> QED
        BY <3>2, <4>2 DEF Turned
    <3> QED
      BY <3>1, <3>2
  <2>2. g = [i \in 0 .. m |-> g[i]]
    BY <1>4
  <2>3. Body(g) = [i \in 0 .. m |-> Body(g)[i]]
    OBVIOUS
  <2> HIDE DEF Body
  <2> QED
    BY <2>1, <2>2, <2>3
<1> DEFINE f == Paths(n, base)
<1>7. f = Body(f)
  <2> HIDE DEF Body
  <2> QED
    BY <1>5, <1>6
<1> HIDE DEF f
<1>8. f[0] = base
  BY <1>1, <1>7
<1>9. ASSUME NEW i \in 1 .. m PROVE f[i] = Turned(n, i, f[i - 1])
  <2>1. i \in 0 .. m /\ i # 0
    BY <1>1
  <2>2. f[i] = Body(f)[i]
    BY <1>7
  <2> QED
    BY <2>1, <2>2 DEF Turned
<1> QED
  BY <1>8, <1>9 DEF f, m

\* At each token it is the path there, if it was before the first.
LEMMA PathsTrack ==
    ASSUME BookOK, OutlineOpensAtTop, NEW n \in 1 .. Len(book), NEW base, PathAt(base, n, 0)
    PROVE  \A i \in 0 .. Len(book[n]) : PathAt(Paths(n, base)[i], n, i)
<1> DEFINE m == Len(book[n])
<1>1. m \in Nat /\ DOMAIN book[n] = 1 .. m /\ book[n] \in Seq(Nat)
  BY DEF BookOK
<1>2. base \in Seq(Nat \X Nat)
  <2>1. Places \subseteq Nat \X Nat
    <3>1. ASSUME NEW h \in Places PROVE h \in Nat \X Nat
      <4>1. h = <<h[1], h[2]>> /\ h[1] \in Nat /\ h[2] \in Nat
        BY PlacesAre
      <4> QED
        BY <4>1
    <3> QED
      BY <3>1
  <2>2. base \in Seq(Places)
    BY DEF PathAt
  <2>3. Len(base) \in Nat /\ DOMAIN base = 1 .. Len(base) /\ \A k \in 1 .. Len(base) : base[k] \in Nat \X Nat
    BY <2>1, <2>2
  <2>4. base = [k \in 1 .. Len(base) |-> base[k]]
    BY <2>2
  <2> QED
    BY <2>3, <2>4
<1> DEFINE f == Paths(n, base)
<1> DEFINE D == {i \in 0 .. m : PathAt(f[i], n, i)}
<1>3. 0 \in D
  <2>1. f[0] = base
    BY <1>2, PathsAre
  <2> HIDE DEF f
  <2> QED
    BY <1>1, <2>1
<1>4. ASSUME NEW i \in 1 .. m, i - 1 \in D PROVE i \in D
  <2>1. PathAt(f[i - 1], n, i - 1) /\ f[i] = Turned(n, i, f[i - 1])
    BY <1>2, <1>4, PathsAre
  <2> HIDE DEF f
  <2>2. i \in DOMAIN book[n] /\ i \in 0 .. m /\ book[n][i] \in Nat
    BY <1>1
  <2>3. CASE book[n][i] = 0
    <3>1. f[i] = f[i - 1]
      BY <2>1, <2>3 DEF Turned
    <3>2. Sofar(n, i) = Sofar(n, i - 1) /\ Enclosing(n, i) = Enclosing(n, i - 1)
      BY <2>2, <2>3, WordKeepsPath
    <3> QED
      BY <2>1, <2>2, <3>1, <3>2 DEF PathAt
  <2>4. CASE book[n][i] > 0
    <3>1. f[i] = Push(f[i - 1], book[n][i], <<n, i>>)
      BY <2>1, <2>4 DEF Turned
    <3>2. PathAt(Push(f[i - 1], book[n][i], <<n, i>>), n, i)
      BY <2>1, <2>2, <2>4, PushKeepsPath
    <3> QED
      BY <2>2, <3>1, <3>2
  <2> QED
    BY <2>2, <2>3, <2>4
<1> HIDE DEF D, m
<1>5. \A i \in 0 .. m : i \in D
  BY <1>1, <1>3, <1>4, UpTo
<1> QED
  BY <1>5 DEF D, m

\* The heading of a section, 0 before the first, and where the section starts
\* and ends: at the first of the headings it follows, and before the next.
StartOf(p, a) == IF a = 0 THEN 1 ELSE FirstOf({j \in Headings(p) : j <= a /\ j .. a \subseteq Headings(p)}, a)
EndOf(p, a) == FirstOf({j \in Headings(p) : j > a}, Len(p) + 1) - 1
SectionOf(n, base, a) ==
    [lo |-> StartOf(book[n], a), hi |-> EndOf(book[n], a), path |-> IF a = 0 THEN base ELSE Paths(n, base)[a]]

\* The least of a set of numbers.
LEMMA FirstIs ==
    ASSUME NEW S, S \subseteq Nat, NEW otherwise
    PROVE  /\ S = {} => FirstOf(S, otherwise) = otherwise
           /\ S # {} => FirstOf(S, otherwise) \in S /\ \A j \in S : FirstOf(S, otherwise) <= j
<1>1. SUFFICES ASSUME S # {} PROVE FirstOf(S, otherwise) \in S /\ \A j \in S : FirstOf(S, otherwise) <= j
  BY DEF FirstOf
<1>2. PICK k \in S : \A j \in Nat : j < k => j \notin S
  BY <1>1, LeastNatural
<1>3. \A j \in S : k <= j
  BY <1>2
<1>4. \E i \in S : \A j \in S : i <= j
  BY <1>2, <1>3
<1> QED
  BY <1>1, <1>4 DEF FirstOf

\* A token is a heading or a word.
LEMMA HeadingsAre ==
    ASSUME NEW p \in Seq(Nat)
    PROVE  /\ Headings(p) \subseteq 1 .. Len(p)
           /\ \A i \in 1 .. Len(p) : p[i] \in Nat /\ (i \in Headings(p) <=> p[i] > 0) /\ (i \notin Headings(p) <=> p[i] = 0)
<1>1. DOMAIN p = 1 .. Len(p) /\ \A i \in 1 .. Len(p) : p[i] \in Nat
  OBVIOUS
<1> QED
  BY <1>1 DEF Headings

\* What follows a heading up to the end of its section are words.
LEMMA EndIs ==
    ASSUME NEW p \in Seq(Nat), NEW a \in 0 .. Len(p)
    PROVE  /\ EndOf(p, a) \in a .. Len(p)
           /\ \A i \in a + 1 .. EndOf(p, a) : i \in 1 .. Len(p) /\ p[i] = 0
           /\ EndOf(p, a) = Len(p) \/ EndOf(p, a) + 1 \in Headings(p)
           /\ \A e \in a .. Len(p) : (\A i \in a + 1 .. e : p[i] = 0) => e <= EndOf(p, a)
           /\ \A e \in a .. Len(p) : (\A i \in a + 1 .. e : p[i] = 0) /\ (e = Len(p) \/ p[e + 1] > 0) => e = EndOf(p, a)
<1> DEFINE m == Len(p)
<1> DEFINE N == {j \in Headings(p) : j > a}
<1> DEFINE f == FirstOf(N, m + 1)
<1>1. m \in Nat /\ N \subseteq Nat /\ Headings(p) \subseteq 1 .. m /\ a \in Nat /\ a <= m
  BY HeadingsAre
<1>2. EndOf(p, a) = f - 1
  BY DEF EndOf
<1>3. \A i \in 1 .. m : (i \in Headings(p) <=> p[i] > 0) /\ (i \notin Headings(p) <=> p[i] = 0)
  BY HeadingsAre
<1>4. (N = {} => f = m + 1) /\ (N # {} => f \in N /\ \A j \in N : f <= j)
  BY <1>1, FirstIs
<1>5. f \in a + 1 .. m + 1 /\ (f = m + 1 \/ f \in Headings(p)) /\ \A j \in Headings(p) : j > a => f <= j
  <2> HIDE DEF f, m
  <2>1. CASE N = {}
    BY <1>1, <1>4, <2>1
  <2>2. CASE N # {}
    BY <1>1, <1>4, <2>2
  <2> QED
    BY <2>1, <2>2
<1> HIDE DEF f, N, m
<1>6. \A i \in a + 1 .. f - 1 : i \in 1 .. m /\ p[i] = 0
  BY <1>1, <1>3, <1>5
<1>7. ASSUME NEW e \in a .. m, \A i \in a + 1 .. e : p[i] = 0 PROVE e <= f - 1
  <2>1. SUFFICES ASSUME f <= e PROVE FALSE
    BY <1>1, <1>5
  <2>2. f \in a + 1 .. e /\ f \in 1 .. m /\ f \in Headings(p)
    BY <1>1, <1>5, <2>1
  <2> QED
    BY <1>3, <1>7, <2>2
<1>8. ASSUME NEW e \in a .. m, \A i \in a + 1 .. e : p[i] = 0, e = m \/ p[e + 1] > 0 PROVE e = f - 1
  <2>1. e <= f - 1
    BY <1>7, <1>8
  <2>2. CASE e = m
    BY <1>1, <1>5, <2>1, <2>2
  <2>3. CASE e # m
    <3>1. e + 1 \in 1 .. m /\ e + 1 > a /\ p[e + 1] > 0
      BY <1>1, <1>8, <2>3
    <3> QED
      BY <1>1, <1>3, <1>5, <2>1, <3>1, SMTT(30)
  <2> QED
    BY <2>2, <2>3
<1> QED
  BY <1>1, <1>2, <1>5, <1>6, <1>7, <1>8 DEF m

\* Before it come the headings that have no body.
LEMMA StartIs ==
    ASSUME NEW p \in Seq(Nat), NEW a \in {0} \cup Headings(p)
    PROVE  /\ StartOf(p, a) \in 1 .. a + 1 /\ (a # 0 => StartOf(p, a) <= a)
           /\ StartOf(p, a) .. a \subseteq Headings(p)
           /\ \A j \in Headings(p) : j <= a /\ j .. a \subseteq Headings(p) => StartOf(p, a) <= j
<1>1. CASE a = 0
  <2>1. StartOf(p, a) = 1 /\ 1 .. a = {} /\ 1 \in 1 .. a + 1
    BY <1>1 DEF StartOf
  <2>2. \A j \in Headings(p) : 1 <= j
    BY HeadingsAre
  <2> QED
    BY <1>1, <2>1, <2>2
<1>2. CASE a # 0
  <2> DEFINE R == {j \in Headings(p) : j <= a /\ j .. a \subseteq Headings(p)}
  <2>1. Headings(p) \subseteq 1 .. Len(p) /\ Len(p) \in Nat
    BY HeadingsAre
  <2>2. a \in Nat /\ a \in Headings(p) /\ a .. a = {a}
    BY <1>2, <2>1
  <2>3. R \subseteq Nat /\ a \in R
    BY <2>1, <2>2
  <2> HIDE DEF R
  <2>4. FirstOf(R, a) \in R /\ \A j \in R : FirstOf(R, a) <= j
    BY <2>3, FirstIs
  <2>5. StartOf(p, a) = FirstOf(R, a)
    BY <1>2 DEF StartOf, R
  <2>6. StartOf(p, a) \in Headings(p) /\ StartOf(p, a) <= a /\ StartOf(p, a) .. a \subseteq Headings(p)
    BY <2>4, <2>5 DEF R
  <2>7. \A j \in Headings(p) : j <= a /\ j .. a \subseteq Headings(p) => StartOf(p, a) <= j
    BY <2>4, <2>5 DEF R
  <2>8. StartOf(p, a) \in 1 .. a + 1
    BY <2>1, <2>2, <2>6
  <2> QED
    BY <2>6, <2>7, <2>8
<1> QED
  BY <1>1, <1>2

\* The headings that have a body make the sections, with what precedes the first.
LEMMA SectionsAre ==
    ASSUME BookOK, NEW n \in 1 .. Len(book), NEW base
    PROVE  Sections(n, base) =
              {SectionOf(n, base, a) : a \in {b \in {0} \cup Headings(book[n]) : EndOf(book[n], b) > b}}
<1> DEFINE p == book[n]
<1> DEFINE heads == Headings(p)
<1>1. p \in Seq(Nat)
  BY DEF BookOK
<1>2. heads \subseteq 1 .. Len(p) /\ Len(p) \in Nat
  BY <1>1, HeadingsAre
<1> DEFINE next(i) == FirstOf({j \in heads : j > i}, Len(p) + 1)
<1> DEFINE runStart(i) == FirstOf({j \in heads : j <= i /\ j .. i \subseteq heads}, i)
<1> DEFINE intro == FirstOf(heads, Len(p) + 1) - 1
<1> DEFINE first == IF intro = 0 THEN {} ELSE {[lo |-> 1, hi |-> intro, path |-> base]}
<1> DEFINE rest == {[lo |-> runStart(i), hi |-> next(i) - 1, path |-> Paths(n, base)[i]] : i \in {h \in heads : next(h) > h + 1}}
<1>3. Sections(n, base) = first \cup rest
  BY DEF Sections
<1>4. \A i : EndOf(p, i) = next(i) - 1
  BY DEF EndOf
<1>5. \A i \in heads : StartOf(p, i) = runStart(i) /\ i # 0
  <2>1. \A i \in heads : i # 0
    BY <1>2
  <2> QED
    BY <2>1 DEF StartOf
<1>6. EndOf(p, 0) = intro
  <2>1. heads = {j \in heads : j > 0}
    BY <1>2
  <2> QED
    BY <2>1 DEF EndOf
<1>7. intro \in Nat
  <2>1. 0 \in 0 .. Len(p)
    BY <1>2
  <2>2. EndOf(p, 0) \in 0 .. Len(p)
    BY <1>1, <2>1, EndIs
  <2> HIDE DEF intro
  <2> QED
    BY <1>2, <1>6, <2>2
<1>8. ASSUME NEW i \in heads PROVE next(i) > i + 1 <=> EndOf(p, i) > i
  <2>1. i \in 0 .. Len(p) /\ i \in Nat
    BY <1>2
  <2>2. EndOf(p, i) \in i .. Len(p)
    BY <1>1, <2>1, EndIs
  <2>3. next(i) \in Nat
    <3> DEFINE N == {j \in heads : j > i}
    <3>1. N \subseteq Nat
      BY <1>2
    <3>2. Len(p) + 1 \in Nat
      BY <1>2
    <3> HIDE DEF N
    <3>3. (N = {} => FirstOf(N, Len(p) + 1) = Len(p) + 1) /\ (N # {} => FirstOf(N, Len(p) + 1) \in N)
      BY <3>1, FirstIs
    <3>4. FirstOf(N, Len(p) + 1) \in Nat
      <4> HIDE DEF p
      <4> QED
        BY <3>1, <3>2, <3>3
    <3> QED
      BY <3>4 DEF N
  <2>4. EndOf(p, i) = next(i) - 1
    BY <1>4
  <2> HIDE DEF next
  <2> QED
    BY <2>1, <2>3, <2>4
<1>9. SectionOf(n, base, 0) = [lo |-> 1, hi |-> intro, path |-> base]
  BY <1>6 DEF SectionOf, StartOf
<1>10. \A i \in heads : SectionOf(n, base, i) = [lo |-> runStart(i), hi |-> next(i) - 1, path |-> Paths(n, base)[i]]
  BY <1>4, <1>5 DEF SectionOf
<1> HIDE DEF intro, next, runStart, heads, p
<1>11. first = {SectionOf(n, base, a) : a \in {b \in {0} : EndOf(p, b) > b}}
  BY <1>6, <1>7, <1>9
<1>12. rest = {SectionOf(n, base, a) : a \in {b \in heads : EndOf(p, b) > b}}
  BY <1>8, <1>10
<1> HIDE DEF first, rest
<1>13. Sections(n, base) = {SectionOf(n, base, a) : a \in {b \in {0} \cup heads : EndOf(p, b) > b}}
  BY <1>3, <1>11, <1>12
<1> QED
  BY <1>13 DEF heads, p

\* A stretch of a page of m tokens, with a heading path.
Spans(m) == [lo : 1 .. m, hi : 1 .. m, path : Seq(Nat \X Nat)]

\* The paths of a page are sequences of places, wherever the outline opens.
LEMMA PathsTyped ==
    ASSUME BookOK, NEW n \in 1 .. Len(book), NEW base \in Seq(Nat \X Nat)
    PROVE  \A i \in 0 .. Len(book[n]) : Paths(n, base)[i] \in Seq(Nat \X Nat)
<1> DEFINE m == Len(book[n])
<1> DEFINE f == Paths(n, base)
<1> DEFINE V == Seq(Nat \X Nat)
<1> DEFINE D == {i \in 0 .. m : f[i] \in V}
<1>1. m \in Nat
  BY DEF BookOK
<1>2. f[0] = base /\ \A i \in 1 .. m : f[i] = Turned(n, i, f[i - 1])
  BY PathsAre
<1>3. \A i \in 1 .. m : \A s \in V : Turned(n, i, s) \in V
  BY TurnedIs
<1> HIDE DEF m, f
<1>4. 0 \in D
  BY <1>1, <1>2
<1>5. \A i \in 1 .. m : i - 1 \in D => i \in D
  <2> HIDE DEF V
  <2> QED
    BY <1>1, <1>2, <1>3
<1>6. \A i \in 0 .. m : i \in D
  <2> HIDE DEF D
  <2> QED
    BY <1>1, <1>4, <1>5, UpTo
<1> QED
  BY <1>6 DEF f, m

\* A section: headings, the last of them its own, then words.
LEMMA SectionIs ==
    ASSUME BookOK, NEW n \in 1 .. Len(book), NEW base \in Seq(Nat \X Nat), NEW s \in Sections(n, base)
    PROVE  /\ s \in Spans(Len(book[n])) /\ s.lo <= s.hi
           /\ \E a \in {0} \cup Headings(book[n]) :
                 /\ a \in 0 .. s.hi - 1 /\ a \in 0 .. Len(book[n]) /\ s = SectionOf(n, base, a)
                 /\ s.lo \in 1 .. a + 1 /\ s.lo .. a \subseteq Headings(book[n])
                 /\ \A i \in a + 1 .. s.hi : book[n][i] = 0
                 /\ s.path = Paths(n, base)[a]
<1> DEFINE p == book[n]
<1>1. p \in Seq(Nat)
  BY DEF BookOK
<1>2. PICK a \in {0} \cup Headings(p) : EndOf(p, a) > a /\ s = SectionOf(n, base, a)
  <2>1. s \in {SectionOf(n, base, a) : a \in {b \in {0} \cup Headings(p) : EndOf(p, b) > b}}
    BY SectionsAre
  <2> HIDE DEF p
  <2> QED
    BY <2>1
<1>3. a \in 0 .. Len(p) /\ Len(p) \in Nat
  BY <1>1, HeadingsAre
<1>4. s.lo = StartOf(p, a) /\ s.hi = EndOf(p, a) /\ s.path = (IF a = 0 THEN base ELSE Paths(n, base)[a])
  BY <1>2 DEF SectionOf
<1>5. s.path = Paths(n, base)[a] /\ s.path \in Seq(Nat \X Nat)
  <2>1. s.path = Paths(n, base)[a]
    BY <1>4, PathsAre
  <2> QED
    BY <1>3, <2>1, PathsTyped
<1>6. EndOf(p, a) \in a .. Len(p) /\ \A i \in a + 1 .. EndOf(p, a) : p[i] = 0
  BY <1>1, <1>3, EndIs
<1>7. StartOf(p, a) \in 1 .. a + 1 /\ StartOf(p, a) .. a \subseteq Headings(p)
  BY <1>1, StartIs
<1> DEFINE m == Len(p)
<1> HIDE DEF m
<1>8. s.lo \in 1 .. a + 1 /\ s.hi \in a + 1 .. m /\ s.lo <= s.hi /\ s.lo \in 1 .. m /\ s.hi \in 1 .. m /\ a \in 0 .. s.hi - 1
  <2>1. m \in Nat /\ a \in 0 .. m /\ EndOf(p, a) \in a .. m
    BY <1>3, <1>6 DEF m
  <2> HIDE DEF p
  <2> QED
    BY <1>2, <1>4, <1>7, <2>1
<1>9. s = [lo |-> s.lo, hi |-> s.hi, path |-> s.path]
  BY <1>2 DEF SectionOf
<1>10. s \in Spans(m)
  BY <1>5, <1>8, <1>9 DEF Spans
<1> QED
  BY <1>2, <1>3, <1>4, <1>5, <1>6, <1>7, <1>8, <1>10 DEF m

\* No two end at the same token.
LEMMA SectionsApart ==
    ASSUME BookOK, NEW n \in 1 .. Len(book), NEW base \in Seq(Nat \X Nat),
           NEW s \in Sections(n, base), NEW t \in Sections(n, base), s.hi = t.hi
    PROVE  s = t
<1>1. PICK a \in {0} \cup Headings(book[n]) :
          a \in 0 .. s.hi - 1 /\ s = SectionOf(n, base, a) /\ \A i \in a + 1 .. s.hi : book[n][i] = 0
  BY SectionIs
<1>2. PICK b \in {0} \cup Headings(book[n]) :
          b \in 0 .. t.hi - 1 /\ t = SectionOf(n, base, b) /\ \A i \in b + 1 .. t.hi : book[n][i] = 0
  BY SectionIs
<1>3. \A h \in Headings(book[n]) : book[n][h] > 0
  BY DEF Headings
<1>4. s.hi \in Nat
  BY SectionIs DEF Spans
<1>5. ~ (a < b)
  <2>1. SUFFICES ASSUME a < b PROVE FALSE
    OBVIOUS
  <2>2. b \in a + 1 .. s.hi /\ b \in Headings(book[n])
    BY <1>1, <1>2, <1>4, <2>1
  <2> QED
    <3>1. book[n][b] = 0
      BY <1>1, <2>2
    <3>2. book[n][b] > 0
      BY <1>3, <2>2
    <3> QED
      BY <3>1, <3>2
<1>6. ~ (b < a)
  <2>1. SUFFICES ASSUME b < a PROVE FALSE
    OBVIOUS
  <2>2. a \in b + 1 .. t.hi /\ a \in Headings(book[n])
    BY <1>1, <1>2, <1>4, <2>1
  <2> QED
    <3>1. book[n][a] = 0
      BY <1>2, <2>2
    <3>2. book[n][a] > 0
      BY <1>3, <2>2
    <3> QED
      BY <3>1, <3>2
<1>7. a = b
  BY <1>1, <1>2, <1>4, <1>5, <1>6
<1> QED
  BY <1>1, <1>2, <1>7

\* Every word is in one.
LEMMA WordsInSections ==
    ASSUME BookOK, NEW n \in 1 .. Len(book), NEW base \in Seq(Nat \X Nat),
           NEW w \in 1 .. Len(book[n]), book[n][w] = 0
    PROVE  \E s \in Sections(n, base) : w \in s.lo .. s.hi
<1> DEFINE p == book[n]
<1> DEFINE heads == Headings(p)
<1> DEFINE D == {0} \cup {h \in heads : h < w}
<1>1. p \in Seq(Nat) /\ Len(p) \in Nat /\ heads \subseteq 1 .. Len(p) /\ w \in Nat
  BY HeadingsAre DEF BookOK
<1>2. PICK a \in D : \A b \in D : b <= a
  <2>1. D \subseteq 0 .. Len(p) /\ D # {}
    BY <1>1
  <2> HIDE DEF D
  <2> QED
    BY <1>1, <2>1, LargestNatural
<1>3. a \in 0 .. Len(p) /\ a < w /\ a \in {0} \cup heads
  BY <1>1, <1>2
<1>4. \A i \in a + 1 .. w : p[i] = 0
  <2> SUFFICES ASSUME NEW i \in a + 1 .. w PROVE p[i] = 0
    OBVIOUS
  <2>1. i \in 1 .. Len(p) /\ i > a /\ i <= w
    BY <1>1, <1>3
  <2>2. CASE i = w
    BY <2>2
  <2>3. CASE i # w
    <3>1. i < w /\ ~ (i <= a)
      BY <1>1, <1>3, <2>1, <2>3
    <3>2. i \notin heads
      BY <1>2, <3>1
    <3> HIDE DEF p
    <3> QED
      BY <1>1, <2>1, <3>2, HeadingsAre
  <2> QED
    BY <2>2, <2>3
<1>5. w <= EndOf(p, a) /\ EndOf(p, a) \in a .. Len(p)
  <2>1. w \in a .. Len(p)
    BY <1>1, <1>3
  <2> HIDE DEF p
  <2> QED
    BY <1>1, <1>3, <1>4, <2>1, EndIs
<1>6. StartOf(p, a) \in 1 .. a + 1
  BY <1>1, <1>3, StartIs
<1> DEFINE s == SectionOf(n, base, a)
<1>7. s.lo = StartOf(p, a) /\ s.hi = EndOf(p, a)
  BY DEF SectionOf
<1>8. EndOf(p, a) > a
  <2> HIDE DEF p
  <2> QED
    BY <1>1, <1>3, <1>5
<1>9. s \in Sections(n, base)
  BY <1>3, <1>8, SectionsAre
<1> HIDE DEF s, p
<1>10. w \in s.lo .. s.hi
  BY <1>1, <1>3, <1>5, <1>6, <1>7
<1> QED
  BY <1>9, <1>10

\* The words under a heading, with those that only lead to it, are one.
LEMMA UnitsAreSections ==
    ASSUME BookOK, NEW n \in 1 .. Len(book), NEW base \in Seq(Nat \X Nat), NEW u \in Units(book[n])
    PROVE  \E s \in Sections(n, base) : s.lo = u.lo /\ s.hi = u.hi
<1> DEFINE p == book[n]
<1> DEFINE m == Len(p)
<1>1. p \in Seq(Nat) /\ m \in Nat /\ DOMAIN p = 1 .. m
  BY DEF BookOK
<1>2. /\ u.lo \in 1 .. m /\ u.hi \in 1 .. m
      /\ \E w \in u.lo .. u.hi : (\A i \in u.lo .. w - 1 : p[i] > 0) /\ (\A i \in w .. u.hi : p[i] = 0)
      /\ u.hi = m \/ p[u.hi + 1] > 0
      /\ u.lo = 1 \/ (p[u.lo] > 0 /\ p[u.lo - 1] = 0)
  BY <1>1 DEF Units
<1>3. PICK w \in u.lo .. u.hi : (\A i \in u.lo .. w - 1 : p[i] > 0) /\ (\A i \in w .. u.hi : p[i] = 0)
  BY <1>2
<1>4. \A i \in 1 .. m : (i \in Headings(p) <=> p[i] > 0) /\ (i \notin Headings(p) <=> p[i] = 0)
  BY <1>1, HeadingsAre
<1> DEFINE a == w - 1
<1>5. Headings(p) \subseteq 1 .. m
  BY <1>1, HeadingsAre
<1> HIDE DEF p, m
<1>6. w \in 1 .. m /\ w \in Nat /\ a \in 0 .. m /\ a + 1 = w /\ a < u.hi /\ u.hi \in a .. m /\ u.lo <= w
  BY <1>1, <1>2, <1>3
<1> HIDE DEF a
<1>7. EndOf(p, a) = u.hi
  <2>1. \A i \in a + 1 .. u.hi : p[i] = 0
    BY <1>3, <1>6
  <2> QED
    BY <1>1, <1>2, <1>6, <2>1, EndIs DEF m
<1>8. a \in {0} \cup Headings(p) /\ StartOf(p, a) = u.lo
  <2>1. CASE w = u.lo
    <3>1. w \in w .. u.hi /\ p[w] = 0
      BY <1>1, <1>2, <1>3, <1>6
    <3>2. u.lo = 1
      BY <1>1, <1>2, <2>1, <3>1
    <3>3. a = 0
      BY <1>6, <2>1, <3>2
    <3> QED
      BY <3>2, <3>3 DEF StartOf
  <2>2. CASE w # u.lo
    <3>1. u.lo <= a /\ a \in u.lo .. w - 1 /\ a \in 1 .. m /\ a # 0 /\ u.lo \in Nat
      BY <1>1, <1>2, <1>6, <2>2
    <3>2. a \in Headings(p)
      BY <1>3, <1>4, <3>1
    <3>3. u.lo .. a \subseteq Headings(p) /\ u.lo \in Headings(p)
      <4>1. \A i \in u.lo .. a : i \in u.lo .. w - 1 /\ i \in 1 .. m
        BY <1>1, <1>2, <1>6, <3>1
      <4>2. u.lo \in u.lo .. a
        BY <3>1
      <4> QED
        BY <1>3, <1>4, <4>1, <4>2
    <3> DEFINE l == StartOf(p, a)
    <3>4. l \in 1 .. a + 1 /\ l <= a /\ l .. a \subseteq Headings(p) /\ l <= u.lo
      BY <1>1, <3>1, <3>2, <3>3, StartIs
    <3> HIDE DEF l
    <3>5. ~ (l < u.lo)
      <4>1. SUFFICES ASSUME l < u.lo PROVE FALSE
        OBVIOUS
      <4>2. u.lo # 1 /\ u.lo - 1 \in l .. a /\ u.lo - 1 \in 1 .. m
        <5>1. u.lo \in 1 .. m
          BY <1>2
        <5> QED
          BY <1>1, <3>1, <3>4, <4>1, <5>1, SMTT(30)
      <4> QED
        BY <1>2, <1>4, <3>4, <4>2
    <3>6. l = u.lo
      BY <1>2, <3>4, <3>5
    <3> QED
      BY <3>2, <3>6 DEF l
  <2> QED
    BY <2>1, <2>2
<1> DEFINE s == SectionOf(n, base, a)
<1>9. s.lo = StartOf(p, a) /\ s.hi = EndOf(p, a)
  BY DEF SectionOf, p
<1>10. s \in Sections(n, base)
  <2>1. EndOf(p, a) > a
    BY <1>2, <1>6, <1>7
  <2> QED
    BY <1>8, <2>1, SectionsAre DEF p
<1> QED
  BY <1>7, <1>8, <1>9, <1>10

\* What two sequences share is one of their kind.
LEMMA SharedTyped ==
    ASSUME NEW S, NEW s \in Seq(S), NEW t \in Seq(S)
    PROVE  CommonPrefix(s, t) \in Seq(S)
<1> DEFINE D == Agreed(s, t)
<1> DEFINE m == CHOOSE k \in D : \A j \in D : j <= k
<1>1. D \subseteq 0 .. Len(s) /\ 0 \in D /\ Len(s) \in Nat
  BY DEF Agreed
<1>2. m \in D
  <2> HIDE DEF D
  <2>1. \E k \in D : \A j \in D : j <= k
    BY <1>1, LargestNatural
  <2> QED
    BY <2>1
<1>3. CommonPrefix(s, t) = SubSeq(s, 1, m)
  BY DEF CommonPrefix
<1> HIDE DEF D, m
<1> QED
  BY <1>1, <1>2, <1>3, FirstPart

\* What is merged is a stretch of the page.
LEMMA MergeTyped ==
    ASSUME NEW m \in Nat, NEW P \in SUBSET Spans(m), NEW s \in Spans(m)
    PROVE  Merge(P, s) \in SUBSET Spans(m)
<1> DEFINE joined == {q \in P : q.hi + 1 = s.lo /\ s.hi - q.lo < Budget}
<1> DEFINE new == {[lo |-> q.lo, hi |-> s.hi, path |-> CommonPrefix(q.path, s.path)] : q \in joined}
<1>1. Merge(P, s) = (P \ joined) \cup IF joined = {} THEN {s} ELSE new
  BY DEF Merge
<1>2. \A q \in joined : [lo |-> q.lo, hi |-> s.hi, path |-> CommonPrefix(q.path, s.path)] \in Spans(m)
  BY SharedTyped DEF Spans
<1> HIDE DEF joined
<1> QED
  BY <1>1, <1>2

\* The spans after token i, from those before it.
PackedNext(S, i, P) ==
    LET ended == {s \in S : s.hi = i} IN IF ended = {} THEN P ELSE Merge(P, CHOOSE s \in ended : TRUE)

\* Pack goes on by it from token to token: the recursion has a value.
LEMMA PackIs ==
    ASSUME NEW m \in Nat, NEW S \in SUBSET Spans(m)
    PROVE  \E g \in [0 .. m -> SUBSET Spans(m)] :
              g[0] = {} /\ Pack(S, m) = g[m] /\ \A i \in 1 .. m : g[i] = PackedNext(S, i, g[i - 1])
<1> DEFINE V == SUBSET Spans(m)
<1> DEFINE F == [p \in (1 .. m) \X V |-> PackedNext(S, p[1], p[2])]
<1> DEFINE none == {}
<1>1. none \in V
  OBVIOUS
<1>2. ASSUME NEW i \in 1 .. m, NEW P \in V PROVE PackedNext(S, i, P) \in V
  BY MergeTyped DEF PackedNext
<1>3. F \in [(1 .. m) \X V -> V]
  <2>1. \A p \in (1 .. m) \X V : p[1] \in 1 .. m /\ p[2] \in V
    OBVIOUS
  <2> HIDE DEF V
  <2> QED
    BY <1>2, <2>1
<1>4. \A i \in 1 .. m : \A P \in V : F[<<i, P>>] = PackedNext(S, i, P)
  OBVIOUS
<1> HIDE DEF V, F, none
<1>5. PICK g : StepsBy(g, m, V, none, F)
  <2>1. \E g : StepsBy(g, m, V, none, F)
    BY <1>1, <1>3, StepsAlways
  <2> QED
    BY <2>1
<1>6. g \in [0 .. m -> V] /\ g[0] = {} /\ \A i \in 1 .. m : g[i] = PackedNext(S, i, g[i - 1])
  <2>1. g \in [0 .. m -> V] /\ g[0] = {} /\ \A i \in 1 .. m : g[i] = F[<<i, g[i - 1]>>]
    BY <1>5 DEF StepsBy, none
  <2>2. \A i \in 1 .. m : g[i - 1] \in V
    <3>1. \A i \in 1 .. m : i - 1 \in 0 .. m
      OBVIOUS
    <3> QED
      BY <2>1, <3>1
  <2> QED
    BY <1>4, <2>1, <2>2
<1> DEFINE Body(f) == [i \in 0 .. m |->
        IF i = 0 THEN {}
        ELSE LET ended == {s \in S : s.hi = i} IN IF ended = {} THEN f[i - 1] ELSE Merge(f[i - 1], CHOOSE s \in ended : TRUE)]
<1>7. Pack(S, m) = (CHOOSE f : f = Body(f))[m]
  BY DEF Pack
<1>8. g = Body(g)
  <2>1. ASSUME NEW i \in 0 .. m PROVE g[i] = Body(g)[i]
    <3>1. CASE i = 0
      BY <1>6, <3>1
    <3>2. CASE i # 0
      <4>1. i \in 1 .. m
        BY <3>2
      <4>2. g[i] = PackedNext(S, i, g[i - 1])
        BY <1>6, <4>1
      <4> QED
        BY <3>2, <4>2 DEF PackedNext
    <3> QED
      BY <3>1, <3>2
  <2>2. g = [i \in 0 .. m |-> g[i]]
    BY <1>6
  <2>3. Body(g) = [i \in 0 .. m |-> Body(g)[i]]
    OBVIOUS
  <2> HIDE DEF Body
  <2> QED
    BY <2>1, <2>2, <2>3
<1> DEFINE f == CHOOSE f : f = Body(f)
<1>9. f = Body(f)
  <2> HIDE DEF Body
  <2> QED
    BY <1>8
<1> HIDE DEF f
<1>10. f \in [0 .. m -> V] /\ f[0] = {} /\ \A i \in 1 .. m : f[i] = PackedNext(S, i, f[i - 1])
  <2>1. \A i \in 0 .. m : f[i] = Body(f)[i]
    BY <1>9
  <2>2. f[0] = {}
    BY <1>9
  <2>3. \A i \in 1 .. m : f[i] = PackedNext(S, i, f[i - 1])
    <3> SUFFICES ASSUME NEW i \in 1 .. m PROVE f[i] = PackedNext(S, i, f[i - 1])
      OBVIOUS
    <3>1. i \in 0 .. m /\ i # 0
      OBVIOUS
    <3> QED
      BY <2>1, <3>1 DEF PackedNext
  <2>4. \A i \in 0 .. m : f[i] \in V
    <3> DEFINE D == {i \in 0 .. m : f[i] \in V}
    <3>1. 0 \in D
      BY <1>1, <2>2 DEF none
    <3>2. \A i \in 1 .. m : i - 1 \in D => i \in D
      <4> SUFFICES ASSUME NEW i \in 1 .. m, i - 1 \in D PROVE i \in D
        OBVIOUS
      <4>1. f[i - 1] \in V /\ i \in 0 .. m
        OBVIOUS
      <4> QED
        BY <1>2, <2>3, <4>1
    <3>3. \A i \in 0 .. m : i \in D
      <4> HIDE DEF D
      <4> QED
        BY <3>1, <3>2, UpTo
    <3> QED
      BY <3>3
  <2>5. DOMAIN f = 0 .. m /\ f = [i \in 0 .. m |-> f[i]]
    <3>1. DOMAIN Body(f) = 0 .. m /\ Body(f) = [i \in 0 .. m |-> Body(f)[i]]
      OBVIOUS
    <3> HIDE DEF Body
    <3>2. [i \in 0 .. m |-> Body(f)[i]] = [i \in 0 .. m |-> f[i]]
      BY <2>1
    <3> QED
      BY <1>9, <3>1, <3>2
  <2> HIDE DEF Body
  <2> QED
    BY <2>2, <2>3, <2>4, <2>5
<1> HIDE DEF Body
<1> QED
  BY <1>7, <1>10 DEF f, V

\* Every section that has ended is inside a span, by itself if it is too large
\* for a chunk.
PackedHolds(S, P, i) ==
    /\ \A q \in P : q.lo <= q.hi /\ q.hi <= i /\ (q.hi - q.lo < Budget \/ q \in S)
    /\ \A s \in S : s.hi <= i => \E q \in P : q.lo <= s.lo /\ s.hi <= q.hi /\ (q.hi - q.lo < Budget \/ q = s)

\* So it is when the page is through.
LEMMA PackHolds ==
    ASSUME NEW m \in Nat, NEW S \in SUBSET Spans(m), \A s \in S : s.lo <= s.hi,
           \A s, t \in S : s.hi = t.hi => s = t
    PROVE  Pack(S, m) \in SUBSET Spans(m) /\ PackedHolds(S, Pack(S, m), m)
<1>1. PICK g \in [0 .. m -> SUBSET Spans(m)] :
          g[0] = {} /\ Pack(S, m) = g[m] /\ \A i \in 1 .. m : g[i] = PackedNext(S, i, g[i - 1])
  BY PackIs
<1> DEFINE D == {i \in 0 .. m : PackedHolds(S, g[i], i)}
<1>2. 0 \in D
  <2>1. \A s \in S : s.hi \in Nat /\ ~ (s.hi <= 0)
    BY DEF Spans
  <2> QED
    BY <1>1, <2>1 DEF PackedHolds
<1>3. ASSUME NEW i \in 1 .. m, i - 1 \in D PROVE i \in D
  <2> DEFINE P == g[i - 1]
  <2>1. P \in SUBSET Spans(m) /\ PackedHolds(S, P, i - 1) /\ g[i] = PackedNext(S, i, P) /\ i \in 0 .. m /\ i \in Nat
    <3>1. i - 1 \in 0 .. m
      OBVIOUS
    <3> QED
      BY <1>1, <1>3, <3>1
  <2> HIDE DEF P, D
  <2>2. \A q \in Spans(m) : q.lo \in Nat /\ q.hi \in Nat
    BY DEF Spans
  <2> DEFINE ended == {s \in S : s.hi = i}
  <2>3. CASE ended = {}
    <3>1. g[i] = P
      BY <2>1, <2>3 DEF PackedNext
    <3>2. \A s \in S : s.hi <= i => s.hi <= i - 1
      BY <2>1, <2>2, <2>3
    <3>3. PackedHolds(S, P, i)
      BY <2>1, <2>2, <3>2 DEF PackedHolds
    <3> QED
      BY <2>1, <3>1, <3>3 DEF D
  <2>4. CASE ended # {}
    <3>1. PICK s \in S : s.hi = i /\ g[i] = Merge(P, s)
      <4>1. (CHOOSE s \in ended : TRUE) \in ended
        BY <2>4
      <4>2. g[i] = Merge(P, CHOOSE s \in ended : TRUE)
        BY <2>1, <2>4 DEF PackedNext
      <4> QED
        BY <4>1, <4>2
    <3> DEFINE joined == {q \in P : q.hi + 1 = s.lo /\ s.hi - q.lo < Budget}
    <3> DEFINE new == {[lo |-> q.lo, hi |-> s.hi, path |-> CommonPrefix(q.path, s.path)] : q \in joined}
    <3>2. Merge(P, s) = (P \ joined) \cup IF joined = {} THEN {s} ELSE new
      BY DEF Merge
    <3>3. \A q \in joined : q \in P /\ q.hi + 1 = s.lo /\ s.hi - q.lo < Budget
      OBVIOUS
    <3>4. \A r \in new : \E q \in joined : r.lo = q.lo /\ r.hi = s.hi
      OBVIOUS
    <3>5. \A q \in joined : \E r \in new : r.lo = q.lo /\ r.hi = s.hi
      <4> SUFFICES ASSUME NEW q \in joined PROVE \E r \in new : r.lo = q.lo /\ r.hi = s.hi
        OBVIOUS
      <4> DEFINE r == [lo |-> q.lo, hi |-> s.hi, path |-> CommonPrefix(q.path, s.path)]
      <4>1. r \in new /\ r.lo = q.lo /\ r.hi = s.hi
        OBVIOUS
      <4> QED
        BY <4>1
    <3> HIDE DEF joined, new
    <3> DEFINE M == Merge(P, s)
    <3>6. \A r \in M : r \in P \/ (joined = {} /\ r = s) \/ r \in new
      BY <3>2
    <3>7. s.lo <= s.hi /\ s.lo \in Nat /\ s.hi \in Nat
      BY <2>2
    <3>8. \A q \in P : q.lo <= q.hi /\ q.hi <= i - 1 /\ q.lo \in Nat /\ q.hi \in Nat /\ (q.hi - q.lo < Budget \/ q \in S)
      BY <2>1, <2>2 DEF PackedHolds
    <3> HIDE DEF M
    <3>9. ASSUME NEW r \in M PROVE r.lo <= r.hi /\ r.hi <= i /\ (r.hi - r.lo < Budget \/ r \in S)
      <4>1. CASE r \in P
        BY <2>1, <3>8, <4>1
      <4>2. CASE joined = {} /\ r = s
        BY <2>1, <3>1, <3>7, <4>2
      <4>3. CASE r \in new
        <5>1. PICK q \in joined : r.lo = q.lo /\ r.hi = s.hi
          BY <3>4, <4>3
        <5>2. q \in P /\ q.hi + 1 = s.lo /\ s.hi - q.lo < Budget
          BY <3>3
        <5>3. q.lo <= q.hi /\ q.lo \in Nat /\ q.hi \in Nat
          BY <3>8, <5>2
        <5> QED
          BY <3>1, <3>7, <5>1, <5>2, <5>3
      <4> QED
        BY <3>6, <3>9, <4>1, <4>2, <4>3
    <3>10. ASSUME NEW t \in S, t.hi <= i
           PROVE  \E r \in M : r.lo <= t.lo /\ t.hi <= r.hi /\ (r.hi - r.lo < Budget \/ r = t)
      <4>1. t.lo \in Nat /\ t.hi \in Nat
        BY <2>2
      <4>2. CASE t.hi = i
        <5>1. t = s
          BY <3>1, <4>2
        <5>2. CASE joined = {}
          <6>1. s \in M
            BY <3>2, <5>2 DEF M
          <6> QED
            BY <3>7, <5>1, <6>1
        <5>3. CASE joined # {}
          <6>1. PICK q \in joined : TRUE
            BY <5>3
          <6>2. PICK r \in new : r.lo = q.lo /\ r.hi = s.hi
            BY <3>5
          <6>3. r \in M
            BY <3>2, <5>3 DEF M
          <6>4. q \in P /\ q.hi + 1 = s.lo /\ s.hi - q.lo < Budget
            BY <3>3
          <6>5. q.lo <= q.hi /\ q.lo \in Nat /\ q.hi \in Nat
            BY <3>8, <6>4
          <6> QED
            BY <3>7, <5>1, <6>2, <6>3, <6>4, <6>5
        <5> QED
          BY <5>2, <5>3
      <4>3. CASE t.hi # i
        <5>1. t.hi <= i - 1
          BY <2>1, <3>10, <4>1, <4>3
        <5>2. PICK q \in P : q.lo <= t.lo /\ t.hi <= q.hi /\ (q.hi - q.lo < Budget \/ q = t)
          BY <2>1, <5>1 DEF PackedHolds
        <5>3. CASE q \notin joined
          <6>1. q \in M
            BY <3>2, <5>3 DEF M
          <6> QED
            BY <5>2, <6>1
        <5>4. CASE q \in joined
          <6>1. PICK r \in new : r.lo = q.lo /\ r.hi = s.hi
            BY <3>5, <5>4
          <6>2. r \in M
            BY <3>2, <5>4 DEF M
          <6>3. q.hi + 1 = s.lo /\ s.hi - q.lo < Budget
            BY <3>3, <5>4
          <6>4. q.lo <= q.hi /\ q.lo \in Nat /\ q.hi \in Nat
            BY <3>8
          <6>5. r.lo <= t.lo /\ t.hi <= r.hi /\ r.hi - r.lo < Budget
            BY <3>7, <4>1, <5>2, <6>1, <6>3, <6>4
          <6> QED
            BY <6>2, <6>5
        <5> QED
          BY <5>3, <5>4
      <4> QED
        BY <4>2, <4>3
    <3>11. PackedHolds(S, M, i)
      BY <3>9, <3>10 DEF PackedHolds
    <3> QED
      BY <2>1, <3>1, <3>11 DEF D, M
  <2> QED
    BY <2>3, <2>4
<1>4. \A i \in 0 .. m : i \in D
  <2> HIDE DEF D
  <2> QED
    BY <1>2, <1>3, UpTo
<1>5. m \in D /\ m \in 0 .. m
  BY <1>4
<1> QED
  BY <1>1, <1>5

\* A span is put under the headings that enclose all its words.
WordsOf(n, lo, hi) == {i \in lo .. hi : book[n][i] = 0}
NamedTrue(n, q) ==
    /\ \E i \in WordsOf(n, q.lo, q.hi) : PathBegins(q.path, n, i)
    /\ Range(q.path) = {h \in Places : \A i \in WordsOf(n, q.lo, q.hi) : h \in Enclosing(n, i)}

\* A heading path is a sequence of places.
LEMMA PathTyped ==
    ASSUME BookOK, NEW s, NEW n, NEW i, PathAt(s, n, i)
    PROVE  s \in Seq(Nat \X Nat)
<1>1. Places \subseteq Nat \X Nat
  <2>1. ASSUME NEW h \in Places PROVE h \in Nat \X Nat
    <3>1. h = <<h[1], h[2]>> /\ h[1] \in Nat /\ h[2] \in Nat
      BY PlacesAre
    <3> QED
      BY <3>1
  <2> QED
    BY <2>1
<1>2. s \in Seq(Places)
  BY DEF PathAt
<1>3. Len(s) \in Nat /\ DOMAIN s = 1 .. Len(s) /\ \A k \in 1 .. Len(s) : s[k] \in Nat \X Nat
  BY <1>1, <1>2
<1>4. s = [k \in 1 .. Len(s) |-> s[k]]
  BY <1>2
<1> QED
  BY <1>3, <1>4

\* All the words of a section have its path.
LEMMA SectionPath ==
    ASSUME BookOK, OutlineOpensAtTop, NEW n \in 1 .. Len(book), NEW base, PathAt(base, n, 0),
           NEW s \in Sections(n, base)
    PROVE  /\ s.hi \in WordsOf(n, s.lo, s.hi) /\ WordsOf(n, s.lo, s.hi) \subseteq Nat
           /\ \A i \in WordsOf(n, s.lo, s.hi) : PathAt(s.path, n, i)
<1> DEFINE m == Len(book[n])
<1>1. base \in Seq(Nat \X Nat) /\ m \in Nat /\ DOMAIN book[n] = 1 .. m
  BY PathTyped DEF BookOK
<1>2. PICK a \in {0} \cup Headings(book[n]) :
         /\ a \in 0 .. s.hi - 1 /\ a \in 0 .. m
         /\ s.lo \in 1 .. a + 1 /\ s.lo .. a \subseteq Headings(book[n])
         /\ \A i \in a + 1 .. s.hi : book[n][i] = 0
         /\ s.path = Paths(n, base)[a]
  BY <1>1, SectionIs
<1>3. s.lo \in 1 .. m /\ s.hi \in 1 .. m /\ s.lo <= s.hi
  BY <1>1, SectionIs DEF Spans
<1>4. PathAt(s.path, n, a)
  BY <1>2, PathsTrack
<1> HIDE DEF m
<1> DEFINE l == s.hi - a
<1> DEFINE D == {k \in 0 .. l : PathAt(s.path, n, a + k)}
<1>5. l \in Nat /\ a \in Nat /\ a < s.hi /\ s.hi = a + l /\ s.hi \in Nat /\ s.lo \in Nat
  <2>1. a \in 0 .. s.hi - 1
    BY <1>2
  <2>2. s.hi \in Nat /\ s.lo \in Nat
    BY <1>3
  <2> QED
    BY <2>1, <2>2
<1>6. 0 \in D
  <2>1. a + 0 = a /\ 0 \in 0 .. l
    BY <1>5
  <2> QED
    BY <1>4, <2>1
<1>7. ASSUME NEW k \in 1 .. l, k - 1 \in D PROVE k \in D
  <2> DEFINE i == a + k
  <2>1. i \in a + 1 .. s.hi /\ i \in 1 .. m /\ i - 1 = a + (k - 1) /\ k \in 0 .. l
    BY <1>1, <1>3, <1>5
  <2>2. PathAt(s.path, n, i - 1)
    BY <1>7, <2>1
  <2> HIDE DEF i
  <2>3. book[n][i] = 0 /\ i \in DOMAIN book[n]
    BY <1>1, <1>2, <2>1
  <2>4. Sofar(n, i) = Sofar(n, i - 1) /\ Enclosing(n, i) = Enclosing(n, i - 1)
    BY <2>3, WordKeepsPath
  <2>5. PathAt(s.path, n, i)
    BY <2>2, <2>4 DEF PathAt
  <2> QED
    BY <2>1, <2>5 DEF i
<1>8. \A k \in 0 .. l : k \in D
  <2> HIDE DEF D, l
  <2> QED
    BY <1>5, <1>6, <1>7, UpTo
<1>9. ASSUME NEW i \in WordsOf(n, s.lo, s.hi) PROVE i \in Nat /\ PathAt(s.path, n, i)
  <2>1. i \in s.lo .. s.hi /\ book[n][i] = 0 /\ i \in Nat
    BY <1>5, <1>9 DEF WordsOf
  <2>2. ~ (i <= a)
    <3>1. SUFFICES ASSUME i <= a PROVE FALSE
      OBVIOUS
    <3>2. i \in s.lo .. a
      BY <1>5, <2>1, <3>1
    <3>3. book[n][i] > 0
      BY <1>2, <3>2 DEF Headings
    <3> QED
      BY <2>1, <3>3
  <2>3. i - a \in 0 .. l /\ a + (i - a) = i
    BY <1>5, <2>1, <2>2
  <2>4. i - a \in D
    BY <1>8, <2>3
  <2> QED
    BY <2>1, <2>3, <2>4
<1>10. s.hi \in WordsOf(n, s.lo, s.hi)
  <2>1. s.hi \in a + 1 .. s.hi /\ s.hi \in s.lo .. s.hi
    BY <1>3, <1>5
  <2> QED
    BY <1>2, <2>1 DEF WordsOf
<1> QED
  BY <1>9, <1>10

\* A section is under the headings that enclose it,
LEMMA SectionNamed ==
    ASSUME BookOK, OutlineOpensAtTop, NEW n \in 1 .. Len(book), NEW base, PathAt(base, n, 0),
           NEW s \in Sections(n, base)
    PROVE  NamedTrue(n, s)
<1>1. /\ s.hi \in WordsOf(n, s.lo, s.hi)
      /\ \A i \in WordsOf(n, s.lo, s.hi) : PathAt(s.path, n, i)
  BY SectionPath
<1>2. \A i \in WordsOf(n, s.lo, s.hi) : Range(s.path) = Enclosing(n, i)
  BY <1>1, PathNames
<1>3. Range(s.path) \subseteq Places
  BY <1>1, <1>2, EnclosingIs DEF Sofar
<1>4. Range(s.path) = {h \in Places : \A i \in WordsOf(n, s.lo, s.hi) : h \in Enclosing(n, i)}
  BY <1>1, <1>2, <1>3
<1>5. PathBegins(s.path, n, s.hi)
  <2>1. PathAt(s.path, n, s.hi)
    BY <1>1
  <2>2. s.path \in Seq(Places)
    BY <2>1 DEF PathAt
  <2>3. s.path = SubSeq(s.path, 1, Len(s.path)) /\ Len(s.path) \in 0 .. Len(s.path)
    BY <2>2
  <2> QED
    BY <2>1, <2>3 DEF PathBegins
<1> QED
  BY <1>1, <1>4, <1>5 DEF NamedTrue

\* What is merged is under what its parts share.
LEMMA MergeNamed ==
    ASSUME BookOK, OutlineOpensAtTop, NEW n \in 1 .. Len(book), NEW base, PathAt(base, n, 0),
           NEW s \in Sections(n, base), NEW P \in SUBSET Spans(Len(book[n])),
           \A q \in P : q.lo <= q.hi /\ NamedTrue(n, q)
    PROVE  \A r \in Merge(P, s) : NamedTrue(n, r)
<1> DEFINE joined == {q \in P : q.hi + 1 = s.lo /\ s.hi - q.lo < Budget}
<1> DEFINE Of(q) == [lo |-> q.lo, hi |-> s.hi, path |-> CommonPrefix(q.path, s.path)]
<1>1. Merge(P, s) = (P \ joined) \cup IF joined = {} THEN {s} ELSE {Of(q) : q \in joined}
  BY DEF Merge
<1>2. NamedTrue(n, s)
  BY SectionNamed
<1>3. ASSUME NEW q \in joined PROVE NamedTrue(n, Of(q))
  <2> DEFINE r == Of(q)
  <2>1. q \in P /\ q.hi + 1 = s.lo
    BY <1>3
  <2>2. q.lo \in Nat /\ q.hi \in Nat /\ s.lo \in Nat /\ s.hi \in Nat /\ s.lo <= s.hi /\ q.lo <= q.hi /\ NamedTrue(n, q)
    <3>1. base \in Seq(Nat \X Nat)
      BY PathTyped
    <3>2. s \in Spans(Len(book[n])) /\ s.lo <= s.hi
      BY <3>1, SectionIs
    <3> QED
      BY <2>1, <3>2 DEF Spans
  <2>3. r.lo = q.lo /\ r.hi = s.hi /\ r.path = CommonPrefix(q.path, s.path)
    OBVIOUS
  <2> HIDE DEF r
  <2>4. WordsOf(n, r.lo, r.hi) = WordsOf(n, q.lo, q.hi) \cup WordsOf(n, s.lo, s.hi)
    <3>1. q.lo .. s.hi = (q.lo .. q.hi) \cup (s.lo .. s.hi)
      BY <2>1, <2>2
    <3> QED
      BY <2>3, <3>1 DEF WordsOf
  <2>5. PICK i \in WordsOf(n, q.lo, q.hi) : PathBegins(q.path, n, i)
    BY <2>2 DEF NamedTrue
  <2>6. i \in Nat /\ n \in Nat
    BY <2>2 DEF WordsOf, BookOK
  <2>7. PathAt(s.path, n, s.hi)
    BY SectionPath
  <2>8. Range(r.path) = Range(q.path) \cap Range(s.path) /\ PathBegins(r.path, n, i)
    BY <2>2, <2>3, <2>5, <2>6, <2>7, PrefixNames
  <2>9. Range(r.path) = {h \in Places : \A j \in WordsOf(n, r.lo, r.hi) : h \in Enclosing(n, j)}
    <3>1. Range(q.path) = {h \in Places : \A j \in WordsOf(n, q.lo, q.hi) : h \in Enclosing(n, j)}
      BY <2>2 DEF NamedTrue
    <3>2. Range(s.path) = {h \in Places : \A j \in WordsOf(n, s.lo, s.hi) : h \in Enclosing(n, j)}
      BY <1>2 DEF NamedTrue
    <3> QED
      BY <2>4, <2>8, <3>1, <3>2
  <2>10. i \in WordsOf(n, r.lo, r.hi)
    BY <2>4
  <2>11. NamedTrue(n, r)
    BY <2>8, <2>9, <2>10 DEF NamedTrue
  <2> QED
    BY <2>11 DEF r
<1> HIDE DEF joined, Of
<1>4. ASSUME NEW r \in Merge(P, s) PROVE NamedTrue(n, r)
  <2>1. r \in P \/ r = s \/ \E q \in joined : r = Of(q)
    BY <1>1
  <2> QED
    BY <1>2, <1>3, <2>1
<1> QED
  BY <1>4

\* and so is every span in the end.
LEMMA PackNamed ==
    ASSUME BookOK, OutlineOpensAtTop, NEW n \in 1 .. Len(book), NEW base, PathAt(base, n, 0)
    PROVE  \A q \in Pack(Sections(n, base), Len(book[n])) : NamedTrue(n, q)
<1> DEFINE m == Len(book[n])
<1> DEFINE S == Sections(n, base)
<1>1. base \in Seq(Nat \X Nat) /\ m \in Nat
  BY PathTyped DEF BookOK
<1>2. S \in SUBSET Spans(m) /\ (\A s \in S : s.lo <= s.hi) /\ (\A s, t \in S : s.hi = t.hi => s = t)
  BY <1>1, SectionIs, SectionsApart
<1> DEFINE Good(P) == \A q \in P : q.lo <= q.hi /\ NamedTrue(n, q)
<1>3. ASSUME NEW P \in SUBSET Spans(m), Good(P), NEW s \in S PROVE Good(Merge(P, s))
  <2>1. \A r \in Merge(P, s) : NamedTrue(n, r)
    BY <1>3, MergeNamed
  <2>2. ASSUME NEW r \in Merge(P, s) PROVE r.lo <= r.hi
    <3> DEFINE joined == {q \in P : q.hi + 1 = s.lo /\ s.hi - q.lo < Budget}
    <3>1. r \in P \/ r = s \/ \E q \in joined : r = [lo |-> q.lo, hi |-> s.hi, path |-> CommonPrefix(q.path, s.path)]
      BY <2>2 DEF Merge
    <3>2. \A q \in joined : q.lo <= q.hi /\ q.hi + 1 = s.lo /\ q \in P
      BY <1>3
    <3>3. \A q \in Spans(m) : q.lo \in Nat /\ q.hi \in Nat
      BY DEF Spans
    <3> HIDE DEF joined, S
    <3>4. s.lo <= s.hi /\ s.lo \in Nat /\ s.hi \in Nat
      BY <1>2, <3>3
    <3>5. \A q \in joined : q.lo <= s.hi
      BY <3>2, <3>3, <3>4
    <3> QED
      BY <1>3, <3>1, <3>4, <3>5
  <2> QED
    BY <2>1, <2>2
<1> HIDE DEF S, m
<1>4. PICK g \in [0 .. m -> SUBSET Spans(m)] :
          g[0] = {} /\ Pack(S, m) = g[m] /\ \A i \in 1 .. m : g[i] = PackedNext(S, i, g[i - 1])
  BY <1>1, <1>2, PackIs
<1> DEFINE D == {i \in 0 .. m : Good(g[i])}
<1>5. 0 \in D
  BY <1>1, <1>4
<1>6. ASSUME NEW i \in 1 .. m, i - 1 \in D PROVE i \in D
  <2>1. Good(g[i - 1]) /\ g[i - 1] \in SUBSET Spans(m) /\ i \in 0 .. m /\ g[i] = PackedNext(S, i, g[i - 1])
    <3>1. i - 1 \in 0 .. m /\ i \in 0 .. m
      BY <1>1
    <3> QED
      BY <1>4, <1>6, <3>1
  <2> HIDE DEF Good
  <2> DEFINE ended == {s \in S : s.hi = i}
  <2>2. CASE ended = {}
    <3>1. g[i] = g[i - 1]
      BY <2>1, <2>2 DEF PackedNext
    <3> QED
      BY <2>1, <3>1
  <2>3. CASE ended # {}
    <3>1. PICK s \in S : g[i] = Merge(g[i - 1], s)
      <4>1. (CHOOSE s \in ended : TRUE) \in S
        BY <2>3
      <4>2. g[i] = Merge(g[i - 1], CHOOSE s \in ended : TRUE)
        BY <2>1, <2>3 DEF PackedNext
      <4> QED
        BY <4>1, <4>2
    <3> QED
      BY <1>3, <2>1, <3>1
  <2> QED
    BY <2>2, <2>3
<1>7. \A i \in 0 .. m : i \in D
  <2> HIDE DEF D
  <2> QED
    BY <1>1, <1>5, <1>6, UpTo
<1>8. Good(g[m])
  <2>1. m \in 0 .. m
    BY <1>1
  <2> QED
    BY <1>7, <2>1
<1> QED
  BY <1>4, <1>8 DEF S, m

\* A window moves on by at least one token and by no more than its own size.
LEMMA StepIs == ASSUME BookOK PROVE Budget \in Nat \ {0} /\ Step \in Nat \ {0} /\ Step <= Budget
<1>1. cut.size \in Nat \ {0} /\ cut.overlap \in Nat
  BY DEF BookOK
<1> QED
  BY <1>1 DEF Budget, Step, Overlap

\* The windows cover the tokens, none is too large, and what fits is not cut.
LEMMA WindowsAre ==
    ASSUME BookOK, NEW lo \in Nat, NEW hi \in Nat, lo <= hi
    PROVE  /\ \A w \in Windows(lo, hi) : w.lo \in lo .. hi /\ w.hi \in w.lo .. hi /\ w.hi - w.lo < Budget
           /\ \A i \in lo .. hi : \E w \in Windows(lo, hi) : i \in w.lo .. w.hi
           /\ hi - lo < Budget => Windows(lo, hi) = {[lo |-> lo, hi |-> hi]}
<1> DEFINE n == hi - lo + 1
<1> DEFINE b == Budget
<1> DEFINE d == Step
<1> DEFINE starts == {t \in 0 .. n - 1 : (\E k \in 0 .. n - 1 : t = k * d) /\ (t = 0 \/ t + b < n + d)}
<1> DEFINE At(t) == [lo |-> lo + t, hi |-> IF t + b < n THEN lo + t + b - 1 ELSE hi]
<1>1. Windows(lo, hi) = {At(t) : t \in starts}
  BY DEF Windows, WindowsEvery
<1>2. b \in Nat \ {0} /\ d \in Nat \ {0} /\ d <= b
  BY StepIs
<1>3. n \in Nat /\ n > 0 /\ hi = lo + n - 1
  OBVIOUS
<1> HIDE DEF n, b, d
<1>4. ASSUME NEW t \in starts
      PROVE  At(t).lo \in lo .. hi /\ At(t).hi \in At(t).lo .. hi /\ At(t).hi - At(t).lo < b
  BY <1>2, <1>3
<1>5. \A k \in Nat : k * d \in Nat /\ k <= k * d /\ (k + 1) * d = k * d + d /\ (k > 0 => d <= k * d)
  BY <1>2, Multiples
<1>6. 0 \in starts
  <2>1. 0 \in 0 .. n - 1 /\ 0 * d = 0
    BY <1>2, <1>3
  <2> QED
    BY <2>1
<1>7. ASSUME NEW i \in lo .. hi PROVE \E t \in starts : i \in At(t).lo .. At(t).hi
  <2> DEFINE D == {k \in 0 .. n - 1 : k * d <= i - lo /\ k * d \in starts}
  <2>1. i - lo \in 0 .. n - 1
    BY <1>3
  <2>2. PICK k \in D : \A j \in D : j <= k
    <3>1. 0 \in D
      <4>1. 0 * d = 0
        BY <1>2
      <4> HIDE DEF starts
      <4> QED
        BY <1>3, <1>6, <2>1, <4>1
    <3>2. D \subseteq 0 .. n - 1 /\ n - 1 \in Nat /\ D # {}
      BY <1>3, <3>1
    <3> HIDE DEF D
    <3> QED
      BY <3>2, LargestNatural
  <2> DEFINE t == k * d
  <2>3. k \in Nat /\ t \in starts /\ t <= i - lo /\ t \in Nat
    BY <1>5, <2>2
  <2> HIDE DEF t
  <2>4. CASE ~ (t + b < n)
    <3>1. At(t).hi = hi /\ At(t).lo = lo + t
      BY <2>4
    <3>2. i \in lo + t .. hi
      BY <1>3, <2>3
    <3> QED
      BY <2>3, <3>1, <3>2
  <2>5. CASE t + b < n
    <3> DEFINE u == (k + 1) * d
    <3>1. u = t + d /\ k + 1 <= u /\ k + 1 \in Nat /\ u \in Nat
      BY <1>5, <2>3 DEF t
    <3>2. ~ (u <= i - lo)
      <4>1. SUFFICES ASSUME u <= i - lo PROVE FALSE
        OBVIOUS
      <4> HIDE DEF u
      <4>2. u \in 0 .. n - 1 /\ k + 1 \in 0 .. n - 1 /\ u + b < n + d
        BY <1>2, <1>3, <2>1, <2>3, <2>5, <3>1, <4>1
      <4>3. u \in starts
        BY <4>2 DEF u
      <4> HIDE DEF starts
      <4>4. k + 1 \in D
        BY <4>1, <4>2, <4>3 DEF u
      <4> HIDE DEF D
      <4>5. k + 1 <= k
        BY <2>2, <4>4
      <4> QED
        BY <2>3, <4>5
    <3> HIDE DEF u
    <3>3. At(t).hi = lo + t + b - 1 /\ At(t).lo = lo + t
      BY <2>5
    <3>4. i \in lo + t .. lo + t + b - 1
      BY <1>2, <1>3, <2>1, <2>3, <3>1, <3>2
    <3> QED
      BY <2>3, <3>3, <3>4
  <2> QED
    BY <2>4, <2>5
<1>8. ASSUME hi - lo < b PROVE {At(t) : t \in starts} = {[lo |-> lo, hi |-> hi]}
  <2>1. n <= b
    BY <1>2, <1>3, <1>8
  <2>2. ASSUME NEW t \in starts PROVE t = 0
    <3>1. t \in 0 .. n - 1 /\ (t = 0 \/ t + b < n + d)
      OBVIOUS
    <3>2. PICK k \in 0 .. n - 1 : t = k * d
      OBVIOUS
    <3>3. k \in Nat
      BY <1>3
    <3>4. t \in Nat /\ (k > 0 => d <= t) /\ (k = 0 => t = 0)
      BY <1>2, <1>5, <3>2, <3>3
    <3> HIDE DEF starts
    <3>5. t # 0 => t < d
      BY <1>2, <1>3, <2>1, <3>1, <3>4
    <3> QED
      BY <1>2, <3>3, <3>4, <3>5
  <2>3. At(0) = [lo |-> lo, hi |-> hi]
    <3>1. ~ (0 + b < n) /\ lo + 0 = lo
      BY <1>2, <1>3, <2>1
    <3> QED
      BY <3>1
  <2> HIDE DEF starts, At
  <2>4. starts = {0}
    BY <1>6, <2>2
  <2> QED
    BY <2>3, <2>4
<1> HIDE DEF starts, At
<1>9. \A w \in Windows(lo, hi) : w.lo \in lo .. hi /\ w.hi \in w.lo .. hi /\ w.hi - w.lo < b
  BY <1>1, <1>4
<1>10. \A i \in lo .. hi : \E w \in Windows(lo, hi) : i \in w.lo .. w.hi
  BY <1>1, <1>7
<1>11. hi - lo < b => Windows(lo, hi) = {[lo |-> lo, hi |-> hi]}
  BY <1>1, <1>8
<1> QED
  BY <1>9, <1>10, <1>11 DEF b

\* What is cut of page n.
PageSpans(n) ==
    IF cut.strategy = "section" THEN Pack(Sections(n, carried), Len(book[n]))
    ELSE {[lo |-> 1, hi |-> Len(book[n]), path |-> carried]}
PutUnder(n, s, w) ==
    IF ~cut.prefix THEN <<>> ELSE IF cut.strategy = "section" THEN s.path ELSE Paths(n, carried)[w.lo]
PageChunks(n) ==
    UNION {{[page |-> n, lo |-> w.lo, hi |-> w.hi, path |-> PutUnder(n, s, w)] : w \in Windows(s.lo, s.hi)} : s \in PageSpans(n)}

\* What ChunksCover says of a page, and PathsEnclose of a chunk.
PageCovered(n, here) ==
    /\ \A i \in DOMAIN book[n] : book[n][i] = 0 => \E c \in here : i \in c.lo .. c.hi
    /\ \A c \in here : c.lo <= c.hi /\ c.hi - c.lo < Budget
    /\ cut.strategy = "section" =>
          \A u \in Units(book[n]) : u.hi - u.lo < Budget => \E c \in here : c.lo <= u.lo /\ u.hi <= c.hi
Encloses(c) ==
    cut.prefix =>
        /\ cut.strategy = "section" =>
              LET words == {i \in c.lo .. c.hi : book[c.page][i] = 0}
              IN  words # {} => Range(c.path) = {h \in Places : \A i \in words : h \in Enclosing(c.page, i)}
        /\ cut.strategy = "fixed" => Range(c.path) = Enclosing(c.page, c.lo)

\* A chunk is a window over a span of its page.
LEMMA PageChunksAre ==
    ASSUME NEW n
    PROVE  /\ \A c \in PageChunks(n) :
                \E s \in PageSpans(n) : \E w \in Windows(s.lo, s.hi) :
                   c.page = n /\ c.lo = w.lo /\ c.hi = w.hi /\ c.path = PutUnder(n, s, w)
           /\ \A s \in PageSpans(n) : \A w \in Windows(s.lo, s.hi) :
                \E c \in PageChunks(n) : c.lo = w.lo /\ c.hi = w.hi
<1> DEFINE Of(s, w) == [page |-> n, lo |-> w.lo, hi |-> w.hi, path |-> PutUnder(n, s, w)]
<1>1. \A s, w : Of(s, w).page = n /\ Of(s, w).lo = w.lo /\ Of(s, w).hi = w.hi /\ Of(s, w).path = PutUnder(n, s, w)
  OBVIOUS
<1>2. PageChunks(n) = UNION {{Of(s, w) : w \in Windows(s.lo, s.hi)} : s \in PageSpans(n)}
  BY DEF PageChunks
<1> HIDE DEF Of
<1>3. \A c \in PageChunks(n) : \E s \in PageSpans(n) : \E w \in Windows(s.lo, s.hi) : c = Of(s, w)
  BY <1>2
<1>4. \A s \in PageSpans(n) : \A w \in Windows(s.lo, s.hi) : Of(s, w) \in PageChunks(n)
  BY <1>2
<1> QED
  BY <1>1, <1>3, <1>4

\* The spans of a page hold its words, and what is under one heading.
LEMMA SpansHold ==
    ASSUME BookOK, carried \in Seq(Nat \X Nat), NEW n \in 1 .. Len(book), book[n] # <<>>
    PROVE  /\ \A s \in PageSpans(n) : s.lo \in 1 .. Len(book[n]) /\ s.hi \in 1 .. Len(book[n]) /\ s.lo <= s.hi
           /\ \A i \in DOMAIN book[n] : book[n][i] = 0 => \E s \in PageSpans(n) : i \in s.lo .. s.hi
           /\ cut.strategy = "section" =>
                 /\ \A s \in PageSpans(n) : s.hi - s.lo < Budget \/ s \in Sections(n, carried)
                 /\ \A u \in Units(book[n]) : u.hi - u.lo < Budget =>
                       \E s \in PageSpans(n) : s.lo <= u.lo /\ u.hi <= s.hi /\ s.hi - s.lo < Budget
<1> DEFINE m == Len(book[n])
<1> DEFINE S == Sections(n, carried)
<1>1. m \in Nat /\ m > 0 /\ DOMAIN book[n] = 1 .. m
  BY DEF BookOK
<1>2. CASE cut.strategy # "section"
  <2>1. PageSpans(n) = {[lo |-> 1, hi |-> m, path |-> carried]}
    BY <1>2 DEF PageSpans
  <2> HIDE DEF m
  <2> QED
    BY <1>1, <1>2, <2>1 DEF m
<1>3. CASE cut.strategy = "section"
  <2>1. S \in SUBSET Spans(m) /\ (\A s \in S : s.lo <= s.hi) /\ (\A s, t \in S : s.hi = t.hi => s = t)
    BY SectionIs, SectionsApart
  <2>2. PageSpans(n) = Pack(S, m)
    BY <1>3 DEF PageSpans
  <2>3. \A i \in 1 .. m : book[n][i] = 0 => \E s \in S : i \in s.lo .. s.hi
    BY WordsInSections
  <2>4. \A u \in Units(book[n]) : \E s \in S : s.lo = u.lo /\ s.hi = u.hi
    BY UnitsAreSections
  <2> DEFINE P == Pack(S, m)
  <2> HIDE DEF S, m
  <2>5. P \in SUBSET Spans(m) /\ PackedHolds(S, P, m)
    BY <1>1, <2>1, PackHolds
  <2> HIDE DEF P
  <2>6. \A s \in Spans(m) : s.lo \in 1 .. m /\ s.hi \in 1 .. m /\ s.lo \in Nat /\ s.hi \in Nat
    BY DEF Spans
  <2>7. \A s \in P : s.lo \in 1 .. m /\ s.hi \in 1 .. m /\ s.lo <= s.hi /\ (s.hi - s.lo < Budget \/ s \in S)
    BY <2>5, <2>6 DEF PackedHolds
  <2>8. \A s \in S : \E q \in P : q.lo <= s.lo /\ s.hi <= q.hi /\ (q.hi - q.lo < Budget \/ q = s)
    <3>1. \A s \in S : s.hi <= m
      BY <1>1, <2>1, <2>6
    <3> QED
      BY <2>5, <3>1 DEF PackedHolds
  <2>9. ASSUME NEW i \in 1 .. m, book[n][i] = 0 PROVE \E q \in P : i \in q.lo .. q.hi
    <3>1. PICK s \in S : i \in s.lo .. s.hi
      BY <2>3, <2>9
    <3>2. PICK q \in P : q.lo <= s.lo /\ s.hi <= q.hi
      BY <2>8
    <3>3. s.lo \in Nat /\ s.hi \in Nat /\ q.lo \in Nat /\ q.hi \in Nat
      BY <2>1, <2>5, <2>6
    <3>4. i \in q.lo .. q.hi
      BY <3>1, <3>2, <3>3
    <3> QED
      BY <3>4
  <2>10. ASSUME NEW u \in Units(book[n]), u.hi - u.lo < Budget
         PROVE  \E q \in P : q.lo <= u.lo /\ u.hi <= q.hi /\ q.hi - q.lo < Budget
    <3>1. PICK s \in S : s.lo = u.lo /\ s.hi = u.hi
      BY <2>4
    <3>2. PICK q \in P : q.lo <= s.lo /\ s.hi <= q.hi /\ (q.hi - q.lo < Budget \/ q = s)
      BY <2>8
    <3>3. q.hi - q.lo < Budget
      BY <2>10, <3>1, <3>2
    <3> QED
      BY <3>1, <3>2, <3>3
  <2> QED
    BY <1>1, <1>3, <2>2, <2>7, <2>9, <2>10 DEF P, S, m
<1> QED
  BY <1>2, <1>3

\* The chunks of a page cover it,
LEMMA PageIsCovered ==
    ASSUME BookOK, carried \in Seq(Nat \X Nat), NEW n \in 1 .. Len(book), book[n] # <<>>
    PROVE  PageCovered(n, PageChunks(n)) /\ \A c \in PageChunks(n) : c.page = n
<1> DEFINE C == PageChunks(n)
<1>1. \A s \in PageSpans(n) : s.lo \in Nat /\ s.hi \in Nat /\ s.lo <= s.hi
  BY SpansHold
<1>2. /\ \A c \in C : \E s \in PageSpans(n) : \E w \in Windows(s.lo, s.hi) : c.page = n /\ c.lo = w.lo /\ c.hi = w.hi
      /\ \A s \in PageSpans(n) : \A w \in Windows(s.lo, s.hi) : \E c \in C : c.lo = w.lo /\ c.hi = w.hi
  <2>1. \A c \in C : \E s \in PageSpans(n) : \E w \in Windows(s.lo, s.hi) :
           c.page = n /\ c.lo = w.lo /\ c.hi = w.hi /\ c.path = PutUnder(n, s, w)
    BY PageChunksAre
  <2>2. \A s \in PageSpans(n) : \A w \in Windows(s.lo, s.hi) : \E c \in C : c.lo = w.lo /\ c.hi = w.hi
    BY PageChunksAre
  <2> HIDE DEF C
  <2>3. \A c \in C : \E s \in PageSpans(n) : \E w \in Windows(s.lo, s.hi) : c.page = n /\ c.lo = w.lo /\ c.hi = w.hi
    BY <2>1
  <2> QED
    BY <2>2, <2>3
<1> HIDE DEF C
<1>3. ASSUME NEW c \in C PROVE c.lo <= c.hi /\ c.hi - c.lo < Budget
  <2>1. PICK s \in PageSpans(n) : \E w \in Windows(s.lo, s.hi) : c.lo = w.lo /\ c.hi = w.hi
    BY <1>2
  <2>2. PICK w \in Windows(s.lo, s.hi) : c.lo = w.lo /\ c.hi = w.hi
    BY <2>1
  <2>3. w.lo \in s.lo .. s.hi /\ w.hi \in w.lo .. s.hi /\ w.hi - w.lo < Budget
    BY <1>1, WindowsAre
  <2>4. w.lo <= w.hi
    BY <1>1, <2>3
  <2> QED
    BY <2>2, <2>3, <2>4
<1>4. ASSUME NEW i \in DOMAIN book[n], book[n][i] = 0 PROVE \E c \in C : i \in c.lo .. c.hi
  <2>1. PICK s \in PageSpans(n) : i \in s.lo .. s.hi
    BY <1>4, SpansHold
  <2>2. PICK w \in Windows(s.lo, s.hi) : i \in w.lo .. w.hi
    BY <1>1, <2>1, WindowsAre
  <2>3. PICK c \in C : c.lo = w.lo /\ c.hi = w.hi
    BY <1>2
  <2> QED
    BY <2>2, <2>3
<1>5. ASSUME cut.strategy = "section", NEW u \in Units(book[n]), u.hi - u.lo < Budget
      PROVE  \E c \in C : c.lo <= u.lo /\ u.hi <= c.hi
  <2>1. PICK s \in PageSpans(n) : s.lo <= u.lo /\ u.hi <= s.hi /\ s.hi - s.lo < Budget
    BY <1>5, SpansHold
  <2>2. Windows(s.lo, s.hi) = {[lo |-> s.lo, hi |-> s.hi]}
    BY <1>1, <2>1, WindowsAre
  <2> DEFINE w == [lo |-> s.lo, hi |-> s.hi]
  <2>3. w \in Windows(s.lo, s.hi) /\ w.lo = s.lo /\ w.hi = s.hi
    BY <2>2
  <2> HIDE DEF w
  <2>4. PICK c \in C : c.lo = w.lo /\ c.hi = w.hi
    BY <1>2, <2>3
  <2> QED
    BY <2>1, <2>3, <2>4
<1> QED
  BY <1>2, <1>3, <1>4, <1>5 DEF C, PageCovered

\* and are under the headings that enclose them.
LEMMA PageIsNamed ==
    ASSUME BookOK, OutlineOpensAtTop, NEW n \in 1 .. Len(book), book[n] # <<>>,
           cut.prefix \/ cut.strategy = "section" => PathAt(carried, n, 0), carried \in Seq(Nat \X Nat)
    PROVE  \A c \in PageChunks(n) : Encloses(c)
<1> SUFFICES ASSUME NEW c \in PageChunks(n), cut.prefix PROVE Encloses(c)
  BY DEF Encloses
<1>1. PICK s \in PageSpans(n) : \E w \in Windows(s.lo, s.hi) :
         c.page = n /\ c.lo = w.lo /\ c.hi = w.hi /\ c.path = PutUnder(n, s, w)
  BY PageChunksAre
<1>2. PICK w \in Windows(s.lo, s.hi) : c.page = n /\ c.lo = w.lo /\ c.hi = w.hi /\ c.path = PutUnder(n, s, w)
  BY <1>1
<1>3. PathAt(carried, n, 0)
  OBVIOUS
<1>4. s.lo \in 1 .. Len(book[n]) /\ s.hi \in 1 .. Len(book[n]) /\ s.lo <= s.hi /\ s.lo \in Nat /\ s.hi \in Nat
  BY SpansHold
<1>5. w.lo \in s.lo .. s.hi /\ w.hi \in w.lo .. s.hi
  BY <1>4, WindowsAre
<1>6. CASE cut.strategy = "fixed"
  <2>1. c.path = Paths(n, carried)[w.lo]
    BY <1>2, <1>6 DEF PutUnder
  <2>2. w.lo \in 0 .. Len(book[n])
    BY <1>4, <1>5
  <2>3. PathAt(c.path, n, w.lo)
    BY <1>3, <2>1, <2>2, PathsTrack
  <2>4. Range(c.path) = Enclosing(n, w.lo)
    BY <2>3, PathNames
  <2>5. cut.strategy # "section"
    BY <1>6
  <2> QED
    BY <1>2, <2>4, <2>5 DEF Encloses
<1>7. CASE cut.strategy = "section"
  <2> DEFINE words == {i \in c.lo .. c.hi : book[c.page][i] = 0}
  <2>1. c.path = s.path /\ s \in Pack(Sections(n, carried), Len(book[n]))
    BY <1>2, <1>7 DEF PutUnder, PageSpans
  <2>2. NamedTrue(n, s)
    BY <1>3, <2>1, PackNamed
  <2>3. words = WordsOf(n, w.lo, w.hi)
    BY <1>2 DEF WordsOf
  <2>4. ASSUME words # {} PROVE Range(c.path) = {h \in Places : \A i \in words : h \in Enclosing(n, i)}
    <3>1. CASE s.hi - s.lo < Budget
      <4>1. w = [lo |-> s.lo, hi |-> s.hi]
        BY <1>4, <3>1, WindowsAre
      <4>2. words = WordsOf(n, s.lo, s.hi)
        BY <2>3, <4>1
      <4> HIDE DEF words
      <4> QED
        BY <2>1, <2>2, <4>2 DEF NamedTrue
    <3>2. CASE s \in Sections(n, carried)
      <4>1. \A i \in WordsOf(n, s.lo, s.hi) : PathAt(s.path, n, i)
        BY <1>3, <3>2, SectionPath
      <4>2. words \subseteq WordsOf(n, s.lo, s.hi)
        <5>1. w.lo .. w.hi \subseteq s.lo .. s.hi
          BY <1>4, <1>5
        <5> HIDE DEF words
        <5> QED
          BY <2>3, <5>1 DEF WordsOf
      <4> HIDE DEF words
      <4>3. \A i \in words : Range(s.path) = Enclosing(n, i)
        BY <4>1, <4>2, PathNames
      <4>4. Range(s.path) \subseteq Places
        BY <2>4, <4>3, EnclosingIs DEF Sofar
      <4> QED
        BY <2>1, <2>4, <4>3, <4>4
    <3>3. s.hi - s.lo < Budget \/ s \in Sections(n, carried)
      BY <1>7, SpansHold
    <3> QED
      BY <3>1, <3>2, <3>3
  <2>5. cut.strategy # "fixed"
    BY <1>7
  <2> QED
    BY <1>2, <2>4, <2>5 DEF Encloses
<1>8. cut.strategy \in {"section", "fixed"}
  BY DEF BookOK
<1> QED
  BY <1>6, <1>7, <1>8

\* What the cutting of a book keeps: the path carried is the one at the turn of
\* the page, and no chunk is of a page to come.
ChunkInv ==
    /\ BookOK /\ page \in 0 .. Len(book) /\ carried \in Seq(Nat \X Nat)
    /\ OutlineOpensAtTop /\ (cut.prefix \/ cut.strategy = "section") => PathAt(carried, page + 1, 0)
    /\ \A c \in pieces : c.page \in 1 .. page
    /\ ChunksCover /\ PathsTrue

\* ChunksCover, page by page.
LEMMA CoverIs == ChunksCover <=> \A n \in 1 .. page : PageCovered(n, {c \in pieces : c.page = n})
  BY DEF ChunksCover, PageCovered

\* PathsEnclose, chunk by chunk.
LEMMA EncloseIs == PathsEnclose <=> \A c \in pieces : Encloses(c)
  BY DEF PathsEnclose, Encloses

\* It starts so,
LEMMA ChunkingStarts == ChunkingInit => ChunkInv
<1> SUFFICES ASSUME ChunkingInit PROVE ChunkInv
  OBVIOUS
<1>1. book \in Books /\ cut \in Cuts /\ page = 0 /\ carried = <<>> /\ pieces = {}
  BY DEF ChunkingInit
<1>2. BookOK
  BY <1>1, ChunkingInputs DEF BookOK
<1>3. page \in 0 .. Len(book)
  BY <1>1, <1>2 DEF BookOK
<1>4. carried \in Seq(Nat \X Nat)
  BY <1>1
<1>5. PathAt(<<>>, 1, 0)
  <2>1. ASSUME NEW h \in Places PROVE ~ (Before(h, <<1, 0>>) \/ h = <<1, 0>>)
    <3>1. h = <<h[1], h[2]>> /\ h[1] \in 1 .. Len(book) /\ h[2] \in Nat \ {0}
      BY <1>2, PlacesAre
    <3>2. <<1, 0>>[1] = 1 /\ <<1, 0>>[2] = 0
      OBVIOUS
    <3> QED
      BY <3>1, <3>2 DEF Before
  <2>2. Sofar(1, 0) = {}
    BY <2>1 DEF Sofar
  <2>3. Enclosing(1, 0) = {}
    BY <2>2, EnclosingIs
  <2>4. <<>> \in Seq(Places) /\ Len(<<>>) = 0
    OBVIOUS
  <2> QED
    BY <2>2, <2>3, <2>4 DEF PathAt
<1>6. PathAt(carried, page + 1, 0)
  BY <1>1, <1>5
<1>7. ChunksCover /\ PathsTrue
  BY <1>1 DEF ChunksCover, PathsTrue, PathsEnclose
<1> QED
  BY <1>1, <1>2, <1>3, <1>4, <1>6, <1>7 DEF ChunkInv

\* What is said of the same book stays true,
LEMMA SameBook ==
    ASSUME book' = book, cut' = cut
    PROVE  /\ BookOK' <=> BookOK
           /\ OutlineOpensAtTop' <=> OutlineOpensAtTop
           /\ \A n, C : PageCovered(n, C)' <=> PageCovered(n, C)
           /\ \A c : Encloses(c)' <=> Encloses(c)
           /\ PathAt(carried, page + 1, 0)' <=> PathAt(carried', page' + 1, 0)
<1>1. BookOK' <=> BookOK
  BY DEF BookOK
<1>2. Places' = Places
  BY DEF Places
<1>3. \A h : Level(h)' = Level(h)
  BY DEF Level
<1>4. OutlineOpensAtTop' <=> OutlineOpensAtTop
  BY <1>2, <1>3 DEF OutlineOpensAtTop
<1>5. \A n, C : PageCovered(n, C)' <=> PageCovered(n, C)
  BY DEF PageCovered, Budget
<1>6. \A n, i : Enclosing(n, i)' = Enclosing(n, i)
  BY <1>2, <1>3 DEF Enclosing
<1>7. \A c : Encloses(c)' <=> Encloses(c)
  BY <1>2, <1>6 DEF Encloses
<1>8. \A n, i : Sofar(n, i)' = Sofar(n, i)
  BY <1>2 DEF Sofar
<1>9. \A s, n : PathAt(s, n, 0)' <=> PathAt(s, n, 0)
  BY <1>2, <1>3, <1>6, <1>8 DEF PathAt
<1>10. \A s, n : s = carried' /\ n = page' + 1 => (PathAt(carried, page + 1, 0)' <=> PathAt(s, n, 0)')
  BY DEF PathAt, Enclosing, Sofar, Level
<1> QED
  BY <1>1, <1>4, <1>5, <1>7, <1>9, <1>10

\* and so it goes on with every page.
LEMMA ChunkPageKeeps == ChunkInv /\ ChunkPage => ChunkInv'
<1> SUFFICES ASSUME ChunkInv, ChunkPage PROVE ChunkInv'
  OBVIOUS
<1> DEFINE n == page + 1
<1>1. page < Len(book) /\ page' = n /\ book' = book /\ cut' = cut
  BY DEF ChunkPage
<1>2. BookOK /\ page \in Nat /\ n \in 1 .. Len(book) /\ Len(book) \in Nat /\ page' \in 0 .. Len(book') /\ n \in Nat
  BY <1>1 DEF ChunkInv, BookOK
<1>3. BookOK' /\ (OutlineOpensAtTop' <=> OutlineOpensAtTop)
  BY <1>1, <1>2, SameBook
<1>4. carried \in Seq(Nat \X Nat) /\ \A c \in pieces : c.page \in 1 .. page
  BY DEF ChunkInv
<1>5. OutlineOpensAtTop /\ (cut.prefix \/ cut.strategy = "section") => PathAt(carried, n, 0)
  BY DEF ChunkInv
<1>6. /\ \A k \in 1 .. page : PageCovered(k, {c \in pieces : c.page = k})
      /\ OutlineOpensAtTop => \A c \in pieces : Encloses(c)
  BY CoverIs, EncloseIs DEF ChunkInv, PathsTrue
<1> DEFINE m == Len(book[n])
<1>7. m \in Nat /\ DOMAIN book[n] = 1 .. m /\ book[n] \in Seq(Nat)
  BY <1>2 DEF BookOK
<1>8. /\ book[n] = <<>> => carried' = carried /\ pieces' = pieces
      /\ book[n] # <<>> =>
            /\ pieces' = pieces \cup PageChunks(n)
            /\ carried' = IF cut.prefix \/ cut.strategy = "section" THEN Paths(n, carried)[m] ELSE carried
  BY DEF ChunkPage, PageChunks, PageSpans, PutUnder
<1> HIDE DEF n
<1>9. carried' \in Seq(Nat \X Nat)
  <2>1. m \in 0 .. m
    BY <1>7
  <2> HIDE DEF m
  <2>2. Paths(n, carried)[m] \in Seq(Nat \X Nat)
    BY <1>2, <1>4, <2>1, PathsTyped DEF m
  <2> QED
    BY <1>4, <1>8, <2>2
<1>10. ASSUME OutlineOpensAtTop, cut.prefix \/ cut.strategy = "section" PROVE PathAt(carried', n + 1, 0)
  <2>1. PathAt(carried, n, 0)
    BY <1>5, <1>10
  <2>2. PathAt(carried', n, m)
    <3>1. CASE book[n] = <<>>
      <4>1. m = 0 /\ carried' = carried
        BY <1>8, <3>1
      <4> HIDE DEF m
      <4> QED
        BY <2>1, <4>1
    <3>2. CASE book[n] # <<>>
      <4>1. carried' = Paths(n, carried)[m] /\ m \in 0 .. m
        BY <1>7, <1>8, <1>10, <3>2
      <4> QED
        BY <1>2, <1>10, <2>1, <4>1, PathsTrack
    <3> QED
      BY <3>1, <3>2
  <2>3. Sofar(n, m) = Sofar(n + 1, 0) /\ Enclosing(n, m) = Enclosing(n + 1, 0)
    BY <1>2, PageKeepsPath
  <2> QED
    BY <2>2, <2>3 DEF PathAt
<1>11. OutlineOpensAtTop' /\ (cut'.prefix \/ cut'.strategy = "section") => PathAt(carried, page + 1, 0)'
  <2>1. PathAt(carried, page + 1, 0)' <=> PathAt(carried', n + 1, 0)
    BY <1>1, SameBook
  <2> QED
    BY <1>1, <1>3, <1>10, <2>1
<1>12. /\ \A c \in PageChunks(n) : c.page = n
       /\ book[n] # <<>> => PageCovered(n, PageChunks(n))
       /\ book[n] # <<>> /\ OutlineOpensAtTop => \A c \in PageChunks(n) : Encloses(c)
  <2>1. \A c \in PageChunks(n) : c.page = n
    BY PageChunksAre
  <2>2. book[n] # <<>> => PageCovered(n, PageChunks(n))
    BY <1>2, <1>4, PageIsCovered
  <2>3. book[n] # <<>> /\ OutlineOpensAtTop => \A c \in PageChunks(n) : Encloses(c)
    BY <1>2, <1>4, <1>5, PageIsNamed
  <2> QED
    BY <2>1, <2>2, <2>3
<1>13. \A c \in pieces' : c.page \in 1 .. page'
  <2>1. n \in 1 .. n /\ 1 .. page \subseteq 1 .. n
    BY <1>2 DEF n
  <2> QED
    BY <1>1, <1>4, <1>8, <1>12, <2>1
<1>14. ASSUME NEW k \in 1 .. n PROVE PageCovered(k, {c \in pieces' : c.page = k})
  <2>1. CASE k = n
    <3>1. \A c \in pieces : c.page # n
      BY <1>2, <1>4 DEF n
    <3>2. CASE book[n] = <<>>
      <4>1. DOMAIN book[n] = {} /\ Units(book[n]) = {}
        BY <3>2 DEF Units
      <4>2. {c \in pieces' : c.page = k} = {}
        BY <1>8, <2>1, <3>1, <3>2
      <4> QED
        BY <2>1, <4>1, <4>2 DEF PageCovered
    <3>3. CASE book[n] # <<>>
      <4>1. {c \in pieces' : c.page = k} = PageChunks(n)
        BY <1>8, <1>12, <2>1, <3>1, <3>3
      <4> QED
        BY <1>12, <2>1, <3>3, <4>1
    <3> QED
      BY <3>2, <3>3
  <2>2. CASE k # n
    <3>1. k \in 1 .. page
      BY <1>2, <2>2 DEF n
    <3>2. {c \in pieces' : c.page = k} = {c \in pieces : c.page = k}
      BY <1>8, <1>12, <2>2
    <3> QED
      BY <1>6, <3>1, <3>2
  <2> QED
    BY <2>1, <2>2
<1>15. ChunksCover'
  <2>1. \A k \in 1 .. page' : PageCovered(k, {c \in pieces' : c.page = k})
    BY <1>1, <1>14
  <2>2. ChunksCover' <=> \A k \in 1 .. page' : \A C : C = {c \in pieces' : c.page = k} => PageCovered(k, C)'
    BY DEF ChunksCover, PageCovered
  <2>3. \A k, C : PageCovered(k, C)' <=> PageCovered(k, C)
    BY <1>1, SameBook
  <2> QED
    BY <2>1, <2>2, <2>3
<1>16. PathsTrue'
  <2>1. OutlineOpensAtTop => \A c \in pieces' : Encloses(c)
    BY <1>6, <1>8, <1>12
  <2>2. PathsEnclose' <=> \A c \in pieces' : Encloses(c)'
    BY DEF PathsEnclose, Encloses
  <2>3. \A c : Encloses(c)' <=> Encloses(c)
    BY <1>1, SameBook
  <2> QED
    BY <1>3, <2>1, <2>2, <2>3 DEF PathsTrue
<1> QED
  BY <1>2, <1>3, <1>9, <1>11, <1>13, <1>15, <1>16 DEF ChunkInv

\* Every step of the cutting keeps the invariant.
LEMMA ChunkingKeeps == ChunkInv /\ [ChunkingNext]_cutting => ChunkInv'
<1> SUFFICES ASSUME ChunkInv, [ChunkingNext]_cutting PROVE ChunkInv'
  OBVIOUS
<1>1. CASE ChunkPage
  BY <1>1, ChunkPageKeeps
<1>2. CASE UNCHANGED cutting
  <2>1. book' = book /\ cut' = cut /\ page' = page /\ carried' = carried /\ pieces' = pieces
    BY <1>2 DEF cutting
  <2>2. ChunksCover' <=> ChunksCover
    BY <2>1 DEF ChunksCover, Budget
  <2>3. \A c : Encloses(c)' <=> Encloses(c)
    BY <2>1, SameBook
  <2>4. PathsEnclose' <=> \A c \in pieces' : Encloses(c)'
    BY DEF PathsEnclose, Encloses
  <2>5. PathsTrue' <=> PathsTrue
    BY <2>1, <2>3, <2>4, EncloseIs, SameBook DEF PathsTrue
  <2>6. PathAt(carried, page + 1, 0)' <=> PathAt(carried, page + 1, 0)
    BY <2>1, SameBook
  <2> QED
    BY <2>1, <2>2, <2>5, <2>6, SameBook DEF ChunkInv
<1> QED
  BY <1>1, <1>2 DEF ChunkingNext

\* The invariant of the cutting, in every state of the server.
LEMMA ChunkHoldsAlways == Spec => []ChunkInv
<1>1. Init => ChunkInv
  BY ChunkingStarts DEF Init
<1>2. ChunkInv /\ [Next]_serving => ChunkInv'
  <2> SUFFICES ASSUME ChunkInv, [Next]_serving PROVE ChunkInv'
    OBVIOUS
  <2>1. ChunkingNext \/ UNCHANGED cutting
    BY DEF Next, serving
  <2> QED
    BY <2>1, ChunkingKeeps
<1> QED
  BY <1>1, <1>2, PTL DEF Spec

\* A chunk holds what was written and where, for every document and every way
\* to cut it (chunk_pages): each word is in a chunk of its page, none is larger
\* than asked for, what stands under one heading and fits is in one chunk, and
\* the path put before a chunk names the headings that enclose all its words.
THEOREM ChunksStandWhole == Spec => []ChunksTrue
<1>1. ChunkInv => ChunksTrue
  BY DEF ChunkInv, ChunksTrue
<1> QED
  BY <1>1, ChunkHoldsAlways, PTL
=============================================================================
