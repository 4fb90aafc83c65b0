----------------------------- MODULE MCServing -----------------------------
(* Small instances of the five parts of the server. *)
EXTENDS Serving, TLC

CONSTANTS ann, bob, d1, d2

\* Two accounts with a document each, of the same file name.
MCOwner == d1 :> ann @@ d2 :> bob
MCName == d1 :> "x" @@ d2 :> "x"
MCSurfaces == {Decomposed, CollectionEnum, ServerAnswer}
MCNeeds == [erase |-> "docs:write", bare |-> "undeclared"]
MCMinted ==
    [flaw : {"none", "unverified"}, email : {ann}, scopes : {{"docs:search"}, {"docs:write"}}, live : {TRUE}]
    \cup {[flaw |-> "none", email |-> Nobody, scopes |-> {"docs:search"}, live |-> TRUE]}

Started(m, b, a) == [mode |-> m, blank |-> b, apart |-> a]
MCConfigs ==
    {Started("session", {"issuer", "jwks", "url"}, FALSE), Started("other", {}, FALSE),
     Started("oauth", {}, FALSE), Started("oauth", {}, TRUE), Started("both", {}, FALSE),
     Started("oauth", {"url"}, FALSE), Started("oauth", {"algorithms"}, FALSE), Started("both", {"url"}, TRUE)}

\* A first page of up to four tokens, and a second of up to two.
Pages(k) == UNION {[1 .. n -> 0 .. 3] : n \in 0 .. k}
MCBooks == {<<p, q>> : p \in Pages(4), q \in Pages(2)}
How(n, o, s, x) == [size |-> n, overlap |-> o, strategy |-> s, prefix |-> x]
MCCuts == {How(2, 1, "section", TRUE), How(4, 1, "section", TRUE), How(2, 2, "fixed", TRUE),
           How(3, 1, "fixed", FALSE), How(3, 0, "fixed", TRUE)}

MCRate == [query |-> 2, auth |-> 3]
Request(l, k, a) == [limiter |-> l, keys |-> k, all |-> a]
MCRequests == {Request("query", <<"ann", "ip">>, FALSE), Request("query", <<"bob", "ip">>, FALSE),
               Request("auth", <<"ip", "mail">>, TRUE), Request("auth", <<"ip">>, TRUE)}
=============================================================================
