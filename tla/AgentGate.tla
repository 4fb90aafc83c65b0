----------------------------- MODULE AgentGate -----------------------------
(***************************************************************************)
(* The MCP surface (app/mcp/): how the server comes up with the            *)
(* credentials it was configured for, whom a bearer token speaks for, which *)
(* tools its scopes show and open, and what the tools read and say.        *)
(*                                                                         *)
(* A call is followed through its awaits; sessions, accounts and documents *)
(* may go away at each of them.  Calls do not meet, except in a list of    *)
(* tools that a cache on the way kept, so that one is followed at a time.  *)
(* Quota, reservation and trace of a call are QueryPipeline's.             *)
(***************************************************************************)
EXTENDS Naturals, FiniteSets

CONSTANTS
    User, Nobody,
    Document, Owner, NameOf,  \* NameOf[d]: its file name; names may repeat
    Indexed,       \* the documents that are ready when the server comes up
    Configs,       \* the settings an operator may choose: [mode, blank, apart]
    Minted,        \* the tokens the identity provider may mint: see jwt
    Surfaces,      \* the variants a server may be built with: see Variants
    Needs,         \* Needs[t]: the scope tool t declares, or "undeclared"
    ExtraTools,    \* tools a test registers beside the surface
    MaxCalls, MaxChanges   \* calls and outside changes of a behaviour (bounds)

AllScopes == {"docs:search", "docs:write"}

\* A bearer is an account's session, the token ("jwt") or neither ("junk").
ASSUME AgentAssumption ==
    /\ {Nobody, "jwt", "junk"} \cap User = {} /\ Owner \in [Document -> User]
    /\ Minted \subseteq [flaw : {"none", "unverified"}, email : User \cup {Nobody},
                         scopes : SUBSET AllScopes, live : BOOLEAN]
    /\ MaxCalls \in Nat /\ MaxChanges \in Nat /\ ExtraTools \subseteq DOMAIN Needs

VARIABLES
    mode, blank, apart,  \* MCP_AUTH_MODE; the settings left blank; MCP_OAUTH_AUDIENCE is not the URL
    surface,             \* the variant the server was built with
    server,              \* "off", "refused" (OAuthConfigError), "up"
    users, session,      \* the accounts; session[u]: "live", "expired", "gone"
    jwt,                 \* the one token of the identity provider: [flaw, email, scopes, live]
    stored,              \* stored[d]: "processing", "ready", "gone"
    proxied,             \* tools/list kept by caches that callers share
    shown,               \* shown[b]: the tools last listed to b, for the scopes it has
    call, calls,         \* the call being followed, and how many there were
    changes              \* what went on around it so far

gate == <<mode, blank, apart, surface, server, users, session, jwt, stored, proxied, shown, call, calls, changes>>
config == <<mode, blank, apart, surface, server>>

\* A variant: the roles of its tools, and what its search or answer tool may be
\* narrowed to - document ids, nothing, or the names an enumeration lists.
Production == [tools |-> {"search"}, args |-> Document]
Decomposed == [tools |-> {"search", "fetch", "list"}, args |-> Document]
QueryOnly == [tools |-> {"search"}, args |-> {}]
CollectionEnum == [tools |-> {"search"}, args |-> {NameOf[d] : d \in Document}]
ServerAnswer == [tools |-> {"answer"}, args |-> Document]
Variants == {Production, Decomposed, QueryOnly, CollectionEnum, ServerAnswer}

ASSUME SurfaceAssumption == Surfaces \subseteq Variants

Modes == {"session", "oauth", "both"}
Tools == surface.tools \cup ExtraTools
RequiredScope(t) == IF t \in surface.tools THEN "docs:search" ELSE Needs[t]

NoCall == [pc |-> "idle", bearer |-> "junk", tool |-> "tools/list", of |-> "all", dead |-> FALSE,
           user |-> Nobody, held |-> {}, scope |-> "all", said |-> "nothing",
           cause |-> "none", read |-> {}, listed |-> {}]

GateInit ==
    /\ \E c \in Configs : mode = c.mode /\ blank = c.blank /\ apart = c.apart
    /\ surface \in Surfaces /\ server = "off"
    /\ users = User /\ session = [u \in User |-> "live"]
    /\ jwt \in Minted /\ stored = [d \in Document |-> IF d \in Indexed THEN "ready" ELSE "processing"]
    /\ proxied = {} /\ shown = [b \in User \cup {"jwt", "junk"} |-> {}]
    /\ call = NoCall /\ calls = 0 /\ changes = 0

-----------------------------------------------------------------------------
(***************************************************************************)
(* Start-up                                                                *)
(***************************************************************************)
Audience == IF apart THEN "other" ELSE IF "url" \in blank THEN "" ELSE "url"

Missing == (blank \cap {"issuer", "jwks", "url"}) \cup (IF Audience = "" THEN {"audience"} ELSE {})

ValidateSettingsWithoutUrl ==
    /\ mode \in Modes
    /\ mode = "session" \/ (Missing \ {"url", "audience"} = {} /\ "algorithms" \notin blank)

\* "There is no degraded mode": what cannot verify does not come up.
ValidateSettings ==
    /\ mode \in Modes
    /\ mode = "session" \/ (Missing = {} /\ "algorithms" \notin blank)

BuildServer ==
    /\ server = "off"
    /\ server' = IF ValidateSettings THEN "up" ELSE "refused"
    /\ UNCHANGED <<mode, blank, apart, surface, users, session, jwt, stored, proxied, shown, call, calls, changes>>

-----------------------------------------------------------------------------
(***************************************************************************)
(* Whom a bearer speaks for                                                *)
(***************************************************************************)
Moves(pc) == call' = [call EXCEPT !.pc = pc]
Says(what, cause) == call' = [call EXCEPT !.pc = "told", !.said = what, !.cause = cause]
Still == UNCHANGED <<config, users, session, jwt, stored, proxied, shown, calls, changes>>

Sound(token) == token.flaw = "none" /\ token.live
Dead(b) == IF b = "jwt" THEN ~Sound(jwt) \/ jwt.email \notin users
           ELSE b \notin User \/ session[b] # "live" \/ b \notin users

\* A POST reaches the transport; whether its credential is dead by now is kept
\* for the properties.
Present ==
    /\ server = "up" /\ call.pc \in {"idle", "401", "told", "answered"} /\ calls < MaxCalls
    /\ \E b \in User \cup {"jwt", "junk"}, t \in Tools \cup {"tools/list"} :
          \E of \in {"all"} \cup (IF t \in {"search", "answer"} THEN surface.args ELSE {}) :
             call' = [NoCall EXCEPT !.pc = "jwt", !.bearer = b, !.tool = t, !.of = of, !.dead = Dead(b)]
    /\ calls' = calls + 1
    /\ UNCHANGED <<config, users, session, jwt, stored, proxied, shown, changes>>

\* A session id has no dots, and without OAuth there is no such verifier.
SkipJwt ==
    /\ call.pc = "jwt" /\ (mode = "session" \/ call.bearer # "jwt")
    /\ Moves("session") /\ Still

\* The signing key is fetched, then the claims are checked against the settings.
VerifyJwt ==
    /\ call.pc = "jwt" /\ mode # "session" /\ call.bearer = "jwt"
    /\ \E keyFound \in BOOLEAN :
          /\ call' = [call EXCEPT !.pc = IF keyFound /\ Sound(jwt) THEN "account" ELSE "session",
                                 !.cause = IF keyFound THEN "none" ELSE "no-key"]
          /\ Still

\* Scopes are read from either spelling; no account is ever created.
FindAccount ==
    /\ call.pc = "account"
    /\ call' = IF jwt.email \in users
               THEN [call EXCEPT !.pc = "admit", !.user = jwt.email, !.held = jwt.scopes]
               ELSE [call EXCEPT !.pc = "session"]
    /\ Still

\* get_session_user deletes the row of an expired session.
VerifySession ==
    /\ call.pc = "session"
    /\ LET b == call.bearer
       IN  /\ IF mode \in {"session", "both"} /\ b \in User
              THEN /\ call' = IF session[b] = "live" /\ b \in users
                              THEN [call EXCEPT !.pc = "admit", !.user = b, !.held = AllScopes]
                              ELSE [call EXCEPT !.pc = "401"]
                   /\ session' = IF session[b] = "expired" THEN [session EXCEPT ![b] = "gone"] ELSE session
              ELSE Moves("401") /\ UNCHANGED session
    /\ UNCHANGED <<config, users, jwt, stored, proxied, shown, calls, changes>>

\* The SDK's middleware compares expires_at with the clock and, in pure oauth
\* mode, the token's resource with resource_server_url.
Admit ==
    /\ call.pc = "admit"
    /\ Moves(IF /\ call.bearer = "jwt" => jwt.live
                /\ mode = "oauth" => Audience = "url" /\ "url" \notin blank
             THEN "dispatch" ELSE "401")
    /\ Still

-----------------------------------------------------------------------------
(***************************************************************************)
(* What its scopes show and open                                           *)
(***************************************************************************)
CacheScope == "private"

Visible(held) == {t \in Tools : RequiredScope(t) \in held}

HeldNow(b) == IF b = "jwt" THEN jwt.scopes ELSE AllScopes

\* A shared cache may answer with what it kept, and may keep what is public.
ListTools ==
    /\ call.pc = "dispatch" /\ call.tool = "tools/list"
    /\ \E list \in {Visible(call.held)} \cup proxied :
          /\ call' = [call EXCEPT !.pc = "answered", !.listed = list]
          /\ shown' = [shown EXCEPT ![call.bearer] = IF call.held = HeldNow(call.bearer) THEN list ELSE @]
          /\ proxied' = IF CacheScope = "public" THEN {list} ELSE proxied
    /\ UNCHANGED <<config, users, session, jwt, stored, calls, changes>>

Guarded(t, held) == RequiredScope(t) = "undeclared" \/ RequiredScope(t) \in held

EnterTool ==
    /\ call.pc = "dispatch" /\ call.tool # "tools/list"
    /\ IF ~Guarded(call.tool, call.held) THEN Says("needs-scope", "scope")
       ELSE IF call.tool \in ExtraTools THEN Moves("answered")
       ELSE IF call.of \in {NameOf[d] : d \in Document} THEN Moves("name")
       ELSE call' = [call EXCEPT !.pc = IF call.tool \in {"search", "answer"} THEN "user" ELSE call.tool,
                                 !.scope = call.of]
    /\ Still

-----------------------------------------------------------------------------
(***************************************************************************)
(* What the tools read and say                                             *)
(***************************************************************************)
Here(d) == stored[d] \in {"processing", "ready"}
Documents(u) == {d \in Document : Owner[d] = u /\ Here(d)}
ReadableAnyones(u, scope) == {d \in Document : stored[d] = "ready" /\ scope \in {"all", d}}
Readable(u, scope) == {d \in Documents(u) : stored[d] = "ready" /\ scope \in {"all", d}}

Named(u, name) == {d \in Documents(u) : NameOf[d] = name}

\* What a failure of the pipeline is raised as; an exception that is no
\* HTTPException (500) reaches the agent without its reason.
StatusOf(cause) ==
    CASE cause \in {"rate-limit", "query-quota", "model-quota"} -> 429
      [] cause = "not-verified" -> 403
      [] cause = "no-document" -> 404
      [] cause \in {"embedding-down", "reranker-down", "model-down"} -> 503
      [] OTHER -> 500

ToToolError(cause) ==
    CASE StatusOf(cause) = 429 -> "search-limit"
      [] StatusOf(cause) = 403 -> "confirm-address"
      [] StatusOf(cause) = 404 -> "no-such-document"
      [] StatusOf(cause) = 503 -> "backend-down"
      [] OTHER -> "error"

\* The provider's refusals are told apart before that (_GENERATION_FAILURES).
ToAnswerToolError(cause) ==
    CASE cause = "model-quota" -> "model-out-of-quota"
      [] cause = "model-down" -> "model-unavailable"
      [] OTHER -> ToToolError(cause)

Fails(cause) == Says(IF call.tool = "answer" THEN ToAnswerToolError(cause) ELSE ToToolError(cause), cause)

\* Any document of that name, were there several; the enumeration may name one
\* that is gone.
ResolveCollection ==
    /\ call.pc = "name"
    /\ \/ /\ Named(call.user, call.of) = {}
          /\ Says("no-such-collection", "no-document")
       \/ \E d \in Named(call.user, call.of) :
             call' = [call EXCEPT !.pc = "user", !.scope = d]
    /\ Still

\* A second database session: the account may have gone since the token was
\* verified.
LoadUser ==
    /\ call.pc = "user"
    /\ IF call.user \in users THEN Moves("limits") ELSE Says("authentication-required", "no-account")
    /\ Still

\* enforce_limits, and what it refuses for.
EnforceLimits ==
    /\ call.pc = "limits"
    /\ \/ Moves("scope")
       \/ \E c \in {"rate-limit", "query-quota", "not-verified"} : Fails(c)
    /\ Still

ResolveScope ==
    /\ call.pc = "scope"
    /\ IF call.scope = "all" \/ call.scope \in Documents(call.user)
       THEN Moves("retrieve") ELSE Fails("no-document")
    /\ Still

\* Embedding, retrieval and reranking; a document may go in between, and then
\* nothing of it is found.
Retrieve ==
    /\ call.pc = "retrieve"
    /\ \/ call' = [call EXCEPT !.pc = IF call.tool = "answer" THEN "generate" ELSE "answered",
                               !.read = Readable(call.user, call.scope)]
       \/ \E c \in {"embedding-down", "reranker-down", "bug"} : Fails(c)
    /\ Still

Generate ==
    /\ call.pc = "generate"
    /\ \/ Moves("answered")
       \/ /\ call.read # {}
          /\ \E c \in {"model-quota", "model-down", "bug"} : Fails(c)
    /\ Still

\* One passage by id: through its document, and never another's.
Fetch ==
    /\ call.pc = "fetch"
    /\ \E d \in Document :
          IF d \in Readable(call.user, "all")
          THEN call' = [call EXCEPT !.pc = "answered", !.read = {d}]
          ELSE Says("no-such-passage", "no-document")
    /\ Still

ListCollections ==
    /\ call.pc = "list"
    /\ call' = [call EXCEPT !.pc = "answered", !.read = Readable(call.user, "all")]
    /\ Still

-----------------------------------------------------------------------------
(***************************************************************************)
(* Meanwhile                                                               *)
(***************************************************************************)
Changes == changes < MaxChanges /\ changes' = changes + 1

ExpireSession(u) ==
    /\ Changes
    /\ session[u] = "live" /\ session' = [session EXCEPT ![u] = "expired"]
    /\ UNCHANGED <<config, users, jwt, stored, proxied, shown, call, calls>>

Logout(u) ==
    /\ Changes
    /\ session[u] # "gone" /\ session' = [session EXCEPT ![u] = "gone"]
    /\ UNCHANGED <<config, users, jwt, stored, proxied, shown, call, calls>>

\* exp passes, or the agent comes back with another consent.
ExpireJwt ==
    /\ Changes
    /\ jwt.live /\ jwt' = [jwt EXCEPT !.live = FALSE]
    /\ UNCHANGED <<config, users, session, stored, proxied, shown, call, calls>>

Reauthorize ==
    /\ Changes
    /\ jwt.live /\ call.pc \in {"401", "told", "answered"}
    /\ \E held \in SUBSET AllScopes \ {jwt.scopes} : jwt' = [jwt EXCEPT !.scopes = held]
    /\ shown' = [shown EXCEPT !["jwt"] = {}]
    /\ UNCHANGED <<config, users, session, stored, proxied, call, calls>>

\* An operator removes an account: sessions and documents go with it.
RemoveUser(u) ==
    /\ Changes
    /\ u \in users /\ users' = users \ {u}
    /\ session' = [session EXCEPT ![u] = "gone"]
    /\ stored' = [d \in Document |-> IF Owner[d] = u /\ Here(d) THEN "gone" ELSE stored[d]]
    /\ UNCHANGED <<config, jwt, proxied, shown, call, calls>>

IndexDocument(d) ==
    /\ Changes
    /\ stored[d] = "processing" /\ stored' = [stored EXCEPT ![d] = "ready"]
    /\ UNCHANGED <<config, users, session, jwt, proxied, shown, call, calls>>

DeleteDocument(d) ==
    /\ Changes
    /\ Here(d) /\ stored' = [stored EXCEPT ![d] = "gone"]
    /\ UNCHANGED <<config, users, session, jwt, proxied, shown, call, calls>>

-----------------------------------------------------------------------------
GateNext ==
    \/ BuildServer \/ Present
    \/ SkipJwt \/ VerifyJwt \/ FindAccount \/ VerifySession \/ Admit
    \/ ListTools \/ EnterTool \/ ResolveCollection \/ LoadUser
    \/ EnforceLimits \/ ResolveScope \/ Retrieve \/ Generate \/ Fetch \/ ListCollections
    \/ \E u \in User : ExpireSession(u) \/ Logout(u) \/ RemoveUser(u)
    \/ \E d \in Document : IndexDocument(d) \/ DeleteDocument(d)
    \/ ExpireJwt \/ Reauthorize

-----------------------------------------------------------------------------
(***************************************************************************)
(* Properties                                                              *)
(***************************************************************************)
Entered == {"name", "user", "limits", "scope", "retrieve", "generate", "fetch", "list"}

GateTypeOK ==
    /\ server \in {"off", "refused", "up"} /\ users \subseteq User
    /\ session \in [User -> {"live", "expired", "gone"}]
    /\ stored \in [Document -> {"processing", "ready", "gone"}]
    /\ call.user \in User \cup {Nobody} /\ call.held \subseteq AllScopes
    /\ call.read \subseteq Document /\ call.listed \subseteq Tools
    /\ shown \in [User \cup {"jwt", "junk"} -> SUBSET Tools] /\ calls <= MaxCalls

\* Through every door a call reads documents of the account its bearer speaks
\* for, and of no other (_subject_id, _owned_chunks, _document_id_for, fetch).
Principal == IF call.bearer = "jwt" THEN jwt.email ELSE call.bearer
Tenancy ==
    /\ call.user # Nobody => call.user = Principal
    /\ \A d \in call.read : Owner[d] = Principal

\* A bearer that is expired, revoked, minted for others or without an account
\* when its call arrives gets nowhere; one that is good from then on is let in,
\* unless its signing key cannot be had (validate_settings, the verifiers, the
\* SDK's second look).  A server that is up can therefore tell them apart - but
\* for one configuration: see AudienceUsable.
CredentialsJudged ==
    /\ call.dead => call.pc \notin {"dispatch", "told", "answered"} \cup Entered
    /\ call.pc = "401" /\ ~Dead(call.bearer) =>
          \/ call.bearer = "jwt" /\ (mode = "session" \/ call.cause = "no-key" \/ (mode = "oauth" /\ apart))
          \/ call.bearer # "jwt" /\ mode = "oauth"

\* What was listed to a credential opens for it as long as its scopes are the
\* same, and a list is never another's (ScopeGate, scoped_tool, _cache_hints).
ListedOpens ==
    /\ call.said = "needs-scope" /\ call.held = HeldNow(call.bearer) => call.tool \notin shown[call.bearer]
    /\ call.pc = "answered" => \A t \in call.listed : RequiredScope(t) \in call.held
    /\ call.pc \in Entered => RequiredScope(call.tool) \in call.held

\* An agent passes on what it is told: a refusal names what really was in the
\* way (_to_tool_error, _to_answer_tool_error).
RefusalTrue ==
    call.pc = "told" =>
        /\ call.said = "confirm-address" => call.cause = "not-verified"
        /\ call.said = "search-limit" => call.cause \in {"rate-limit", "query-quota"}
        /\ call.said = "backend-down" => call.cause \in {"embedding-down", "reranker-down"}
        /\ call.said = "model-out-of-quota" => call.cause = "model-quota"
        /\ call.said = "model-unavailable" => call.cause = "model-down"
        /\ call.said = "authentication-required" => call.user \notin users
        /\ call.said = "no-such-document" => call.scope \notin Documents(call.user)
        /\ call.said = "no-such-collection" => Named(call.user, call.of) = {}

\* "Fail at startup, not at the first request, when auth cannot work"
\* (oauth.py): with MCP_OAUTH_AUDIENCE naming something else than the URL, pure
\* oauth mode comes up and turns every token away.
AudienceUsable ==
    call.pc = "401" /\ call.bearer = "jwt" /\ ~Dead("jwt") => mode = "session" \/ call.cause = "no-key"
=============================================================================
