---------------------------- MODULE KeyExtractor ----------------------------
(***************************************************************************)
(* src/extractor.rs: from a request to the key it is limited by.           *)
(*                                                                         *)
(* Text is a sequence of tokens, so that what format! glues together may   *)
(* come out the same for different parts.  An Option is a set of at most   *)
(* one element.  A digest is SHA-256's: different texts differ in it.      *)
(*                                                                         *)
(*   path       what split('/') yields, empty segments included, with      *)
(*              what follows '?' or '#' already dropped                    *)
(*   address    [version, net, host, mapped]: of IPv6 the two halves, and  *)
(*              the IPv4 address it carries, if it is mapped               *)
(*   header     [name, value]: a name is [folded, raw], its lower case and *)
(*              its spelling                                               *)
(*   extractor  [kind, header]                                             *)
(***************************************************************************)
EXTENDS Integers, FiniteSets, SequencesExt

CONSTANT
    IsValid   \* the API keys ApiKeyValidator accepts

Kinds ==
    {"Ip", "UserId", "ApiKey", "Header", "IpAndPath", "UserIdAndPath"}

\* RequestInfo::new
NewInfo(path) ==
    [ip |-> {}, path |-> path, user_id |-> {}, api_key |-> {},
     headers |-> <<>>]

SameName(a, b) == a.folded = b.folded

\* The first header of the name, in any case.
GetHeader(headers, name) ==
    LET hits == {i \in DOMAIN headers : SameName(headers[i].name, name)}
    IN  {headers[i].value : i \in {j \in hits : \A h \in hits : j <= h}}

-----------------------------------------------------------------------------
KeyDigest(text) == <<"sha256(">> \o text \o <<")">>

\* A bucket named by the key itself.
ApiKeyBucketRaw(api_key) == api_key

ApiKeyBucket(api_key) == <<"apikey:">> \o KeyDigest(api_key)

\* A bucket for every address of a subscriber.
IpBucketWhole(ip) ==
    IF ip.version = 4 THEN <<ip.host>>
    ELSE IF ip.mapped # {} THEN <<CHOOSE v4 \in ip.mapped : TRUE>>
    ELSE <<ip.net, ip.host>>

\* The IPv4 address, or the first half of an IPv6 one: u128 & (!0 << 64).
IpBucket(ip) ==
    IF ip.version = 4 THEN <<ip.host>>
    ELSE IF ip.mapped # {} THEN <<CHOOSE v4 \in ip.mapped : TRUE>>
    ELSE <<ip.net, "/64">>

\* What a segment does to those before it.
Stacked(segments, s) ==
    CASE s \in {"", "."} -> segments
      [] s = ".."        -> IF segments = <<>> THEN <<>> ELSE Front(segments)
      [] OTHER           -> Append(segments, s)

\* What is left of a path's first n segments, for every n.
Stacks(path) ==
    LET stack[n \in 0..Len(path)] ==
            IF n = 0 THEN <<>> ELSE Stacked(stack[n - 1], path[n])
    IN  stack

\* "/" and the segments, joined by "/".
Joined(segments) ==
    IF segments = <<>> THEN <<"/">>
    ELSE [i \in 1..2 * Len(segments) |-> IF i % 2 = 1 THEN "/"
                                         ELSE segments[i \div 2]]

\* A path whose ".." is a segment like any other.
NormalizePathKeepingDots(path) == Joined(path)

NormalizePath(path) == Joined(Stacks(path)[Len(path)])

-----------------------------------------------------------------------------
\* KeyExtractor::extract
Extract(extractor, info) ==
    CASE extractor.kind = "Ip" ->
             {IpBucket(ip) : ip \in info.ip}
      [] extractor.kind = "UserId" ->
             info.user_id
      [] extractor.kind = "ApiKey" ->
             {ApiKeyBucket(key) :
                 key \in {v \in GetHeader(info.headers, extractor.header) :
                              v # <<>> /\ v \in IsValid}}
      [] extractor.kind = "Header" ->
             GetHeader(info.headers, extractor.header)
      [] extractor.kind = "IpAndPath" ->
             {IpBucket(ip) \o <<":">> \o NormalizePath(info.path) :
                 ip \in info.ip}
      [] extractor.kind = "UserIdAndPath" ->
             {uid \o <<":">> \o NormalizePath(info.path) :
                 uid \in info.user_id}

\* A middleware that copies a header for one of its two readers only.
RequiredHeaderOfApiKey(extractor) ==
    IF extractor.kind = "ApiKey" THEN {extractor.header} ELSE {}

RequiredHeader(extractor) ==
    IF extractor.kind \in {"ApiKey", "Header"} THEN {extractor.header} ELSE {}

\* KeyExtractorBuilder

NewChain == [extractors |-> <<>>, fallback_to_ip |-> TRUE]

\* with_extractor, prefer_user_id, prefer_api_key
AndThen(chain, extractor) ==
    [chain EXCEPT !.extractors = Append(@, extractor)]

NoIpFallback(chain) == [chain EXCEPT !.fallback_to_ip = FALSE]

\* KeyExtractorBuilder::build: the first extractor that yields a key, or the
\* address.
BuiltExtract(chain, info) ==
    LET hits == {i \in DOMAIN chain.extractors : Extract(chain.extractors[i], info) # {}}
    IN  IF hits # {}
        THEN Extract(chain.extractors[CHOOSE i \in hits : \A h \in hits : i <= h],
                     info)
        ELSE IF chain.fallback_to_ip THEN {IpBucket(ip) : ip \in info.ip} ELSE {}

-----------------------------------------------------------------------------
\* What a key is to tell apart, defined without the code.

\* A subscriber: an IPv4 address, however it arrives, or an IPv6 /64.
Subscriber(ip) ==
    IF ip.version = 4 \/ ip.mapped # {}
    THEN [v4 |-> IF ip.version = 4 THEN {ip.host} ELSE ip.mapped]
    ELSE [net |-> ip.net]

\* An endpoint: the names of a path no ".." takes back.  The ith is taken back
\* if up to some later segment there are more ".." after it than names.
Endpoint(path) ==
    LET p == path
        Names(i, j) == Cardinality({n \in i..j : p[n] \notin {"", ".", ".."}})
        Dots(i, j) == Cardinality({n \in i..j : p[n] = ".."})
        Stays(i) == /\ p[i] \notin {"", ".", ".."}
                    /\ \A j \in i + 1..Len(p) : Dots(i + 1, j) <= Names(i + 1, j)
        stay == {i \in DOMAIN p : Stays(i)}
    IN  {<<Cardinality({h \in stay : h <= i}), p[i]>> : i \in stay}
=============================================================================
