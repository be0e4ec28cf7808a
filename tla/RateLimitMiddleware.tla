------------------------- MODULE RateLimitMiddleware -------------------------
(***************************************************************************)
(* src/middleware.rs over src/config.rs, src/extractor.rs and src/lib.rs:  *)
(* a limiter is configured and built, and requests go through              *)
(* RateLimitMiddleware::handle to the next handler or to a 429.            *)
(*                                                                         *)
(* The store is what TokenBucketLimiter promises of a stretch in which no  *)
(* token is refilled and no window rolls.  MemoryStore answers without     *)
(* waiting; a Redis operation may be answered, fail, or time out, and its  *)
(* script may run after its caller has given up.                           *)
(*                                                                         *)
(* Requests are numbered in the order they come in.  A request is          *)
(*   [peer, forwarded, identity, headers, path]: the socket's address, the *)
(*   X-Forwarded-For hops from left to right, the subject of a             *)
(*   VerifiedIdentity, the header map and the routing path.                *)
(***************************************************************************)
EXTENDS KeyExtractor, RateLimiter

CONSTANTS
    Arrivals,      \* the requests clients send
    Extractors,    \* the extractors to choose from
    Chains,        \* [extractors, fallback_to_ip]: KeyExtractorBuilders
    Algorithms,    \* the algorithms to choose from, valid or not
    BypassKeys,    \* keys and API keys that may be configured to bypass
    Depths,        \* trusted_proxy_depth to choose from
    Limit,         \* limit of the valid algorithms
    Clocks,        \* the wall clock, which stands still for the stretch
    MaxRequests,   \* bound: requests
    MaxSettings    \* bound: settings that differ from their defaults

Option(S) == {o \in SUBSET S : \A x, y \in o : x = y}

Text == Seq(STRING)

Address == [version : {4, 6}, net : STRING, host : STRING, mapped : Option(STRING)]

Arrival == [peer : Option(Address), forwarded : Seq(Address),
            identity : Option(Text), path : Text,
            headers : Seq([name : [folded : STRING, raw : STRING], value : Text])]

ASSUME MiddlewareAssumption ==
    /\ Arrivals \subseteq Arrival
    /\ \A e \in Extractors : e.kind \in Kinds
    /\ \A a \in Algorithms : a.kind \in AlgorithmKinds /\ a.ms \in Nat
    /\ \A a \in Algorithms : a.limit \in {0, Limit}
    /\ BypassKeys \subseteq Text
    /\ Depths \subseteq Nat /\ Clocks \subseteq Nat
    /\ Limit \in Nat /\ MaxRequests \in Nat

ASSUME ChainsAssumption ==
    \A c \in Chains :
        c.extractors \in Seq([kind : Kinds, header : [folded : STRING, raw : STRING]])

VARIABLES
    stage,     \* of the configuration: building, built, failed, serving
    config,    \* the builder's fields, then the middleware's
    clock,     \* SystemTime::now()
    req,       \* the requests so far
    phase,     \* of each: checking, passed to next, answered, dropped
    key,       \* its rate limit key
    result,    \* the store's answer, if there is one
    reply,     \* [status, headers, retry_after]
    late,      \* operations given up whose script may still run
    skip_on_error_count, unkeyed_allow_count,
    level, answer   \* the store

settingVars == <<stage, config, clock>>
counters == <<skip_on_error_count, unkeyed_allow_count>>
storeVars == <<level, answer>>
vars == <<stage, config, clock, req, phase, key, result, reply, late,
          skip_on_error_count, unkeyed_allow_count, level, answer>>

-----------------------------------------------------------------------------
\* Outside the crate.

\* HttpRequest::client_address: the peer, or the Nth hop from the right.
ClientAddress(a, depth) ==
    IF depth = 0 THEN a.peer
    ELSE IF depth <= Len(a.forwarded)
         THEN {a.forwarded[Len(a.forwarded) + 1 - depth]} ELSE {}

-----------------------------------------------------------------------------
\* The key.

\* handle: the fields that the extractor may read.
InfoOf(a) ==
    LET wanted == RequiredHeader(config.extractor)
        values == UNION {GetHeader(a.headers, name) : name \in wanted}
    IN  [NewInfo(a.path) EXCEPT
            !.ip = ClientAddress(a, config.trusted_proxy_depth),
            !.user_id = a.identity,
            !.headers = IF values = {} THEN <<>>
                        ELSE <<[name |-> CHOOSE n \in wanted : TRUE,
                                value |-> CHOOSE v \in values : TRUE]>>]

\* extract_request_info: everything, and an API key from a common header.
ExtractRequestInfo(a) ==
    LET common == {i \in DOMAIN a.headers :
                       a.headers[i].name.folded \in {"x-api-key", "authorization"}}
    IN  [NewInfo(a.path) EXCEPT
            !.ip = ClientAddress(a, config.trusted_proxy_depth),
            !.user_id = a.identity,
            !.headers = a.headers,
            !.api_key = {a.headers[i].value :
                             i \in {j \in common : \A h \in common : j <= h}}]

KeyOf(a) == Extract(config.extractor, InfoOf(a))

\* A bypass list that is compared with the key alone.
BypassesByKey(k) == k \in config.bypass_keys

\* *b == key || api_key_bucket(b) == key
Bypasses(k) == \E b \in config.bypass_keys : b = k \/ ApiKeyBucket(b) = k

DefaultExtractor == [kind |-> "Ip", header |-> [folded |-> "", raw |-> ""]]

\* A key in the store is the Option that holds it.
StoreKeys ==
    {Extract(e, [NewInfo(a.path) EXCEPT !.ip = ClientAddress(a, d),
                     !.user_id = a.identity, !.headers = a.headers]) :
        e \in Extractors \cup {DefaultExtractor}, a \in Arrivals,
        d \in Depths \cup {0}} \ {{}}

Store == INSTANCE TokenBucketLimiter
             WITH Key <- StoreKeys, Capacity <- Limit, TicksPerToken <- 1

-----------------------------------------------------------------------------
Requests == DOMAIN req

NoReply == [status |-> 0, headers |-> {}, retry_after |-> {}]

UnkeyedRequestPolicies == {"Allow", "Deny"}

\* RateLimitMiddleware::new: what the limiter's configuration says, and the
\* defaults of KeyExtractor and UnkeyedRequestPolicy.
NewMiddleware(builder) ==
    [name \in DOMAIN builder \cup {"extractor", "unkeyed_policy"} |->
        CASE name = "extractor"      -> DefaultExtractor
          [] name = "unkeyed_policy" -> "Deny"
          [] OTHER                   -> builder[name]]

Init ==
    /\ stage = "building"
    /\ config = NewMiddleware(NewBuilder)
    /\ clock \in Clocks
    /\ req = <<>> /\ phase = <<>> /\ key = <<>> /\ result = <<>> /\ reply = <<>>
    /\ late = {}
    /\ skip_on_error_count = 0 /\ unkeyed_allow_count = 0
    /\ Store!Init

\* config differs from the defaults in MaxSettings fields at most.
Set(new) ==
    /\ config' = new
    /\ Cardinality({f \in DOMAIN new : new[f] # NewMiddleware(NewBuilder)[f]})
           <= MaxSettings
    /\ UNCHANGED <<stage, clock, req, phase, key, result, reply, late,
                   counters, storeVars>>

\* RateLimiterBuilder

\* token_bucket, sliding_window, fixed_window
SetAlgorithm(a) ==
    /\ stage = "building"
    /\ Set([config EXCEPT !.algorithm = {a}])

\* memory_store, redis_store
SetStore(store_type) ==
    /\ stage = "building"
    /\ Set([config EXCEPT !.store_type = store_type])

SetIncludeHeaders(include) ==
    /\ stage = "building"
    /\ Set([config EXCEPT !.include_headers = include])

SetSkipOnError(skip) ==
    /\ stage = "building"
    /\ Set([config EXCEPT !.skip_on_error = skip])

SetTrustedProxyDepth(depth) ==
    /\ stage = "building"
    /\ Set([config EXCEPT !.trusted_proxy_depth = depth])

AddBypassKey(b) ==
    /\ stage = "building"
    /\ Set([config EXCEPT !.bypass_keys = @ \cup {b}])

\* build, and RateLimitMiddleware::new over the limiter.  Connecting to Redis
\* may fail.  A limiter that RateLimiter::new makes without the builder is not
\* validated, and not meant here (lib.rs:229).
Build ==
    /\ stage = "building"
    /\ \/ Buildable(config) /\ stage' = "built"
       \/ ~Buildable(config) /\ stage' = "failed"
       \/ config.store_type = "Redis" /\ stage' = "failed"
    /\ UNCHANGED <<config, clock, req, phase, key, result, reply, late,
                   counters, storeVars>>

\* RateLimitMiddleware's own setters

WithExtractor(extractor) ==
    /\ stage = "built"
    /\ Set([config EXCEPT !.extractor = extractor])

WithUnkeyedPolicy(policy) ==
    /\ stage = "built"
    /\ Set([config EXCEPT !.unkeyed_policy = policy])

WithHeaders(include) ==
    /\ stage = "built"
    /\ Set([config EXCEPT !.include_headers = include])

WithTrustedProxyDepth(depth) ==
    /\ stage = "built"
    /\ Set([config EXCEPT !.trusted_proxy_depth = depth])

WithBypassKeys(b) ==
    /\ stage = "built"
    /\ Set([config EXCEPT !.bypass_keys = @ \cup {b}])

-----------------------------------------------------------------------------
\* Requests.  handle runs to its first await at once: to the store, or to the
\* next handler.

Through(r, headers) ==
    /\ phase' = [phase EXCEPT ![r] = "passed"]
    /\ reply' = [reply EXCEPT ![r].headers = headers]

\* The 429.
Limited(r, headers, retry_after) ==
    /\ phase' = [phase EXCEPT ![r] = "answered"]
    /\ reply' = [reply EXCEPT ![r] = [status |-> 429, headers |-> headers,
                                      retry_after |-> retry_after]]

\* A request comes in, and handle and check get to the store, or past it.
Handle(a) ==
    LET k == KeyOf(a)
        Begins(p, status) == /\ phase' = Append(phase, p)
                             /\ reply' = Append(reply, [NoReply EXCEPT
                                                            !.status = status])
    IN  /\ stage \in {"built", "serving"} /\ stage' = "serving"
        /\ Len(req) < MaxRequests
        /\ req' = Append(req, a)
        /\ key' = Append(key, k)
        /\ result' = Append(result, {})
        /\ \/ /\ k = {} /\ config.unkeyed_policy = "Allow"
              /\ unkeyed_allow_count' = unkeyed_allow_count + 1
              /\ Begins("passed", 0)
           \/ /\ k = {} /\ config.unkeyed_policy = "Deny"
              /\ Begins("answered", 429)
              /\ UNCHANGED unkeyed_allow_count
           \/ /\ k # {}
              /\ IF \A x \in k : Bypasses(x) THEN Begins("passed", 0)
                                             ELSE Begins("checking", 0)
              /\ UNCHANGED unkeyed_allow_count
        /\ UNCHANGED <<config, clock, late, skip_on_error_count, storeVars>>

\* check, once the store has answered.
Decided(r, ans) ==
    \E a \in config.algorithm :
        LET res == CheckResult(a, ans, clock)
            Given(h) == IF config.include_headers THEN {h} ELSE {}
        IN  \/ /\ res.allowed
               /\ Through(r, Given(HeadersAllowed(res.limit, res.remaining,
                                                  res.reset_at)))
            \/ /\ ~res.allowed
               /\ \E d \in res.retry_after :
                      Limited(r, Given(HeadersDenied(res.limit, res.reset_at,
                                                     Secs(d))), {Secs(d)})

\* A store error that lets the request through and does not count it.
ErredUncounted(r) ==
    /\ IF config.skip_on_error THEN Through(r, {}) ELSE Limited(r, {}, {})
    /\ UNCHANGED skip_on_error_count

\* check, once the store has failed.
Erred(r) ==
    IF config.skip_on_error
    THEN /\ skip_on_error_count' = skip_on_error_count + 1
         /\ Through(r, {})
    ELSE /\ Limited(r, {}, {})
         /\ UNCHANGED skip_on_error_count

Checking(r) == phase[r] = "checking" /\ result[r] = {}

\* The store's part of an operation.
Runs(r) ==
    /\ Store!Ask(key[r])
    /\ result' = [result EXCEPT ![r] = {answer'}]

\* MemoryStore answers at once.
MemoryChecks(r) ==
    /\ config.store_type = "Memory" /\ Checking(r)
    /\ Runs(r)
    /\ Decided(r, answer')
    /\ UNCHANGED <<settingVars, req, key, late, counters>>

RedisRuns(r) ==
    /\ config.store_type = "Redis" /\ Checking(r)
    /\ Runs(r)
    /\ UNCHANGED <<settingVars, req, phase, key, reply, late, counters>>

RedisReplies(r) ==
    /\ phase[r] = "checking" /\ result[r] # {}
    /\ \E ans \in result[r] : Decided(r, ans)
    /\ UNCHANGED <<settingVars, req, key, result, late, counters, storeVars>>

\* An operation that is given up, whether or not its script has been sent;
\* an answer on its way is lost.
GivenUp(r) ==
    /\ IF result[r] = {} THEN late' \in {late, late \cup {r}} ELSE UNCHANGED late
    /\ result' = [result EXCEPT ![r] = {}]

\* An operation nothing bounds: Redis fails it, or it never ends.
FailsByRedisOnly(r) ==
    /\ phase[r] = "checking" /\ result[r] # {}
    /\ config.store_type = "Redis"
    /\ Erred(r) /\ GivenUp(r)
    /\ UNCHANGED <<settingVars, req, key, unkeyed_allow_count, storeVars>>

\* with_op_timeout: the operation fails, or operation_timeout is over.
StoreFails(r) ==
    /\ phase[r] = "checking"
    /\ config.store_type = "Redis"
    /\ Erred(r) /\ GivenUp(r)
    /\ UNCHANGED <<settingVars, req, key, unkeyed_allow_count, storeVars>>

\* The script of an operation that was given up.
LateRuns(r) ==
    /\ r \in late
    /\ late' = late \ {r}
    /\ Store!Ask(key[r])
    /\ UNCHANGED <<settingVars, req, phase, key, result, reply, counters>>

\* next(req).await: the response, to which the headers are added, or an error,
\* which ? hands on without them.
HandlerReturns(r) ==
    /\ phase[r] = "passed"
    /\ phase' = [phase EXCEPT ![r] = "answered"]
    /\ \/ reply' = [reply EXCEPT ![r].status = 200]
       \/ reply' = [reply EXCEPT ![r] = [NoReply EXCEPT !.status = 500]]
    /\ UNCHANGED <<settingVars, req, key, result, late, counters, storeVars>>

\* The client is gone: the future is dropped where it waits.
Drop(r) ==
    /\ \/ phase[r] = "passed" /\ UNCHANGED <<late, result>>
       \/ /\ phase[r] = "checking" /\ config.store_type = "Redis"
          /\ GivenUp(r)
    /\ phase' = [phase EXCEPT ![r] = IF @ = "passed" THEN "abandoned"
                                                     ELSE "dropped"]
    /\ UNCHANGED <<settingVars, req, key, reply, counters, storeVars>>

-----------------------------------------------------------------------------
Configure ==
    \/ \E a \in Algorithms : SetAlgorithm(a)
    \/ \E s \in StoreTypes : SetStore(s)
    \/ \E b \in BOOLEAN : \/ SetIncludeHeaders(b) \/ SetSkipOnError(b)
                          \/ WithHeaders(b)
    \/ \E d \in Depths : SetTrustedProxyDepth(d) \/ WithTrustedProxyDepth(d)
    \/ \E b \in BypassKeys : AddBypassKey(b) \/ WithBypassKeys(b)
    \/ \E e \in Extractors : WithExtractor(e)
    \/ \E p \in UnkeyedRequestPolicies : WithUnkeyedPolicy(p)
    \/ Build

Next ==
    \/ Configure
    \/ \E a \in Arrivals : Handle(a)
    \/ \E r \in Requests : \/ MemoryChecks(r) \/ RedisRuns(r)
                           \/ RedisReplies(r) \/ StoreFails(r)
                           \/ LateRuns(r) \/ HandlerReturns(r) \/ Drop(r)

\* A check of MemoryStore's does not wait, and operation_timeout runs out.
\* Nothing is asked of Redis, or of the next handler.
Fairness ==
    \A r \in 1..MaxRequests :
        /\ WF_vars(r \in Requests /\ MemoryChecks(r))
        /\ WF_vars(r \in Requests /\ StoreFails(r))

Spec == Init /\ [][Next]_vars /\ Fairness


-----------------------------------------------------------------------------
\* Who an extractor has a request come from, as its documentation says: a
\* subscriber or a user, at an endpoint, or the value of a header.
CallerBy(extractor, a) ==
    LET who == {Subscriber(ip) : ip \in ClientAddress(a, config.trusted_proxy_depth)}
        named == GetHeader(a.headers, extractor.header)
    IN  CASE extractor.kind = "Ip"            -> who
          [] extractor.kind = "UserId"        -> a.identity
          [] extractor.kind = "ApiKey"        -> named \cap (IsValid \ {<<>>})
          [] extractor.kind = "Header"        -> named
          [] extractor.kind = "IpAndPath"     -> who \X {Endpoint(a.path)}
          [] extractor.kind = "UserIdAndPath" -> a.identity \X {Endpoint(a.path)}

Caller(a) == CallerBy(config.extractor, a)

\* The API key a chain knows a request by, if all before that extractor know
\* nobody.
KnownApiKey(chain, a) ==
    LET links == chain.extractors
        first == {i \in DOMAIN links : \A h \in 1..i - 1 : CallerBy(links[h], a) = {}}
    IN  UNION {CallerBy(links[i], a) : i \in {j \in first : links[j].kind = "ApiKey"}}

\* The next handler has had it.
IsThrough(r) == phase[r] \in {"passed", "abandoned"} \/ reply[r].status \in {200, 500}

Admitted(r) == IsThrough(r) /\ \E ans \in result[r] : ans.allowed

\* Listed by its key, or by the API key it carries.
IsListed(r) ==
    \E b \in config.bypass_keys :
        \/ b \in key[r]
        \/ config.extractor.kind = "ApiKey" /\ b \in Caller(req[r])

\* Type invariant.  No limiter that the builder made serves with parameters
\* that divide by zero or admit nothing (config.rs:11).
TypeOK ==
    /\ stage \in {"building", "built", "failed", "serving"}
    /\ stage \in {"built", "serving"} =>
           \E a \in config.algorithm : a.limit > 0 /\ a.ms > 0
    /\ \A a \in config.algorithm : a.kind \in AlgorithmKinds
    /\ config.extractor.kind \in Kinds
    /\ config.store_type \in StoreTypes
    /\ config.unkeyed_policy \in UnkeyedRequestPolicies
    /\ Len(req) <= MaxRequests
    /\ Requests = DOMAIN phase /\ Requests = DOMAIN key
    /\ Requests = DOMAIN result /\ Requests = DOMAIN reply
    /\ \A r \in Requests :
           /\ phase[r] \in {"checking", "passed", "answered", "dropped",
                            "abandoned"}
           /\ key[r] = {} \/ key[r] \in DOMAIN level
           /\ reply[r].status \in {0, 200, 429, 500}
           /\ Cardinality(key[r]) <= 1 /\ Cardinality(result[r]) <= 1
    /\ late \subseteq Requests
    /\ \A k \in DOMAIN level : level[k] \in 0..Limit

\* What a client could say with one text where the code joins several parts,
\* and does not: a user id with a ':' in it, which joins the path unescaped,
\* and a key taken from a user id or a header that starts as the bucket of an
\* API key does.
NoColons ==
    (\E e \in Extractors : e.kind = "UserIdAndPath") =>
        \A a \in Arrivals : \A uid \in a.identity : ":" \notin ToSet(uid)

NoDigestsFrom(e, a) ==
    LET texts == CASE e.kind = "Header" -> GetHeader(a.headers, e.header)
                   [] e.kind \in {"UserId", "UserIdAndPath"} -> a.identity
                   [] OTHER -> {}
    IN  \A text \in texts : text = <<>> \/ text[1] # "apikey:"

NoDigests == \A e \in Extractors, a \in Arrivals : NoDigestsFrom(e, a)

NoDigestsInChains ==
    \A c \in Chains, a \in Arrivals :
        \A i \in DOMAIN c.extractors : NoDigestsFrom(c.extractors[i], a)

\* middleware.rs:296 and 309, "Number of store errors observed .. that were
\* let through", "Number of requests .. let through unchecked because no key
\* could be extracted": whoever reaches the next handler without the store's
\* consent, and is not in the bypass list, is in exactly one of the counts,
\* whatever answers, timeouts and disconnections come together, and only if
\* the configuration lets it.
PassesAccounted ==
    LET unchecked == {r \in Requests :
                          IsThrough(r) /\ ~Admitted(r) /\ ~IsListed(r)}
        unkeyed == {r \in unchecked : Caller(req[r]) = {}}
    IN  /\ unkeyed_allow_count = Cardinality(unkeyed)
        /\ skip_on_error_count = Cardinality(unchecked \ unkeyed)
        /\ unkeyed_allow_count > 0 => config.unkeyed_policy = "Allow"
        /\ skip_on_error_count > 0 => config.skip_on_error

\* handle copies the one header that required_header names: the extractor
\* finds in it all that it would find in the full request.
RequiredHeaderSuffices ==
    \A r \in Requests :
        key[r] = Extract(config.extractor, ExtractRequestInfo(req[r]))

\* extractor.rs:113 and 133: requests share a key exactly if they share their
\* caller, however the address or the path is spelt, wherever the client puts
\* forwarding hops, and though the extractor sees one header of the request.
KeysSeparate ==
    /\ RequiredHeaderSuffices
    /\ \A r, s \in Requests :
           /\ key[r] = {} <=> Caller(req[r]) = {}
           /\ key[r] = key[s] <=> Caller(req[r]) = Caller(req[s])

\* extractor.rs:107 and 374: a request that a chain knows by an API key shares
\* its bucket with the requests known by that API key and with no other: not
\* with a user of the same name, nor with an address, whatever else the client
\* sends.  Provided NoDigestsInChains.  Of the rest of a chain there is no such
\* promise: a user id that spells an address shares the bucket of its fallback.
ChainedApiKeys ==
    \A chain \in Chains, r, s \in Requests :
        KnownApiKey(chain, req[r]) # {} =>
            (BuiltExtract(chain, ExtractRequestInfo(req[r]))
                     = BuiltExtract(chain, ExtractRequestInfo(req[s]))
                 <=> KnownApiKey(chain, req[r]) = KnownApiKey(chain, req[s]))

\* The promise of the whole path: in a stretch without refills no caller gets
\* more than limit requests through the store, whatever operations are given
\* up and run late; and none is denied by the store unless limit others of
\* its own requests have gone there.
LimitPerCaller ==
    \A r \in Requests :
        LET own == {s \in Requests : Caller(req[s]) = Caller(req[r])}
        IN  /\ key[r] # {} => Cardinality({s \in own : Admitted(s)}) <= Limit
            /\ (\E ans \in result[r] : ~ans.allowed) =>
                   Cardinality({s \in own \ {r} : ~IsListed(s)}) >= Limit

\* config.rs:80, "Bypass keys (these keys will never be rate limited)": not
\* by the limit, nor by a failing store.
BypassNeverLimited ==
    \A r \in Requests : (key[r] # {} /\ IsListed(r)) => reply[r].status # 429

\* A client that does as it is told is told no nonsense.  The headers are
\* those of the store's own answer, and a response has them exactly if there
\* is one and the configuration wants them.  Who waits for Retry-After is not
\* sent past X-RateLimit-Reset; a 429 without Retry-After is one no waiting
\* helps: there was no key, or no answer.
HeadersTell ==
    \A r \in Requests :
        LET told == reply[r].status \in {200, 429}
        IN  /\ told => (reply[r].headers # {} <=>
                            config.include_headers /\ result[r] # {})
            /\ \A h \in reply[r].headers :
                   /\ h.limit = Limit
                   /\ h.remaining < Limit
                   /\ \A s \in reply[r].retry_after : Secs(clock) + s <= h.reset
            /\ (reply[r].status = 429 /\ reply[r].retry_after = {}) =>
                   \/ key[r] = {} /\ config.unkeyed_policy = "Deny"
                   \/ config.store_type = "Redis" /\ ~config.skip_on_error

\* error.rs:30, "instead of blocking the request path indefinitely": a request
\* never waits on the store forever, whatever Redis does.
CheckDecides ==
    \A r \in 1..MaxRequests :
        LET Waits == r \in Requests /\ phase[r] = "checking"
        IN  Waits ~> ~Waits
=============================================================================
