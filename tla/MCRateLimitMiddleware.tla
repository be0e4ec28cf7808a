------------------------ MODULE MCRateLimitMiddleware ------------------------
(***************************************************************************)
(* RateLimitMiddleware for TLC: a few clients, behind a proxy and not,     *)
(* that spell their address, their path and their header in several ways.  *)
(***************************************************************************)
EXTENDS RateLimitMiddleware

V4(host) == [version |-> 4, net |-> "", host |-> host, mapped |-> {}]
V6(net, host) == [version |-> 6, net |-> net, host |-> host, mapped |-> {}]
MappedV4(host) == [version |-> 6, net |-> "::", host |-> "ffff", mapped |-> {host}]

Name(raw) == [folded |-> "x-api-key", raw |-> raw]
KeyHeader(raw, value) == <<[name |-> Name(raw), value |-> <<value>>]>>
Tenant(value) == <<[name |-> [folded |-> "x-tenant", raw |-> "X-Tenant"],
                    value |-> <<value>>]>>

MCIsValid == {<<"sk1">>, <<"sk2">>}

MCArrivals == {
    \* A client that comes straight, and through the proxy.
    [peer |-> {V4("a")}, forwarded |-> <<>>, identity |-> {<<"u1">>},
     headers |-> KeyHeader("X-Api-Key", "sk1"), path |-> <<"", "login">>],
    [peer |-> {V4("proxy")}, forwarded |-> <<V4("spoof"), MappedV4("a")>>,
     identity |-> {<<"u1">>}, headers |-> Tenant("t") \o KeyHeader("x-api-key", "sk1"),
     path |-> <<"", "x", ".", "..", "..", "login", "">>],
    \* Two addresses of one /64, and of another.
    [peer |-> {V6("net1", "h1")}, forwarded |-> <<V4("a")>>,
     identity |-> {<<"sk1">>}, headers |-> KeyHeader("X-API-KEY", "sk2"),
     path |-> <<"", "login", "x">>],
    [peer |-> {V6("net1", "h2")}, forwarded |-> <<>>, identity |-> {},
     headers |-> KeyHeader("X-Api-Key", "forged"), path |-> <<"", "login", "x">>],
    [peer |-> {V6("net2", "h1")}, forwarded |-> <<>>, identity |-> {},
     headers |-> KeyHeader("X-Api-Key", "sk1"), path |-> <<"", "login", "x", "..">>],
    \* No address, and a user id that spells one.
    [peer |-> {}, forwarded |-> <<>>, identity |-> {<<"net1", "/64">>},
     headers |-> Tenant("t"), path |-> <<"">>]}

Extractor(kind, header) == [kind |-> kind, header |-> header]

NoName == [folded |-> "", raw |-> ""]

ByTenant == Extractor("Header", [folded |-> "x-tenant", raw |-> "X-Tenant"])

MCExtractors ==
    {Extractor(kind, NoName) : kind \in {"Ip", "UserId", "IpAndPath", "UserIdAndPath"}}
    \cup {Extractor("ApiKey", Name("X-API-Key")), ByTenant}

MCChains ==
    LET chain == AndThen(AndThen(NewChain, Extractor("UserId", NoName)),
                         Extractor("ApiKey", Name("X-API-Key")))
    IN  {chain, NoIpFallback(AndThen(chain, ByTenant))}

MCAlgorithms ==
    {[kind |-> kind, limit |-> 1, ms |-> 2500] :
         kind \in AlgorithmKinds}
    \cup {[kind |-> "TokenBucket", limit |-> 1, ms |-> 0],
          [kind |-> "FixedWindow", limit |-> 0, ms |-> 2500]}

MCBypassKeys == {<<"sk1">>, <<"u1">>}

\* What these clients send is not what the code puts around it.
ASSUME PlainAssumption == NoColons /\ NoDigests /\ NoDigestsInChains
=============================================================================
