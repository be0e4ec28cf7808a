----------------------------- MODULE RateLimiter -----------------------------
(***************************************************************************)
(* src/config.rs and the checks of src/lib.rs: what a RateLimiterBuilder   *)
(* builds, and what RateLimiter::check makes of the store's answer.        *)
(*                                                                         *)
(* Durations and the wall clock are in milliseconds.  An algorithm is      *)
(* [kind, limit, ms]: capacity and 1 / refill_rate, or max_requests and    *)
(* window; a rate that is not finite and positive has ms = 0.  An Option   *)
(* is a set of at most one element.                                        *)
(***************************************************************************)
EXTENDS Integers

\* u64::MAX seconds: never.
CONSTANT Never

ASSUME NeverAssumption == Never \in Nat

AlgorithmKinds == {"TokenBucket", "SlidingWindowLog", "FixedWindow"}

StoreTypes == {"Memory", "Redis"}

\* as_secs, and a number of seconds cast to u64.
Secs(ms) == ms \div 1000

-----------------------------------------------------------------------------
\* A validation that looks at the counts alone.
ValidateLimitOnly(a) == a.limit > 0

\* validate_algorithm
ValidateAlgorithm(a) ==
    CASE a.kind = "TokenBucket" -> a.limit > 0 /\ a.ms > 0
      [] a.kind \in {"SlidingWindowLog", "FixedWindow"} ->
             a.limit > 0 /\ a.ms > 0

\* RateLimiterBuilder::new.  key_prefix, error_message and operation_timeout
\* are passed on and never looked at.
NewBuilder ==
    [algorithm |-> {}, store_type |-> "Memory", include_headers |-> TRUE,
     skip_on_error |-> TRUE, bypass_keys |-> {}, trusted_proxy_depth |-> 0]

\* RateLimiterBuilder::build.  A Redis that cannot be reached fails it too.
Buildable(builder) ==
    /\ builder.algorithm # {}
    /\ \A a \in builder.algorithm : ValidateAlgorithm(a)

-----------------------------------------------------------------------------
\* RateLimitCheckResult
Allowed(remaining, limit, reset_at) ==
    [allowed |-> TRUE, remaining |-> remaining, limit |-> limit,
     reset_at |-> reset_at, retry_after |-> {}]

Denied(limit, reset_at, retry_after) ==
    [allowed |-> FALSE, remaining |-> 0, limit |-> limit,
     reset_at |-> reset_at, retry_after |-> {retry_after}]

\* check_token_bucket, after the store has answered [allowed, remaining].
TokenBucketResult(a, answer, now) ==
    LET reset_at == IF a.ms > 0 THEN Secs(now) + Secs(a.limit * a.ms)
                                ELSE Never
    IN  IF answer.allowed
        THEN Allowed(answer.remaining, a.limit, reset_at)
        ELSE Denied(a.limit, reset_at, IF a.ms > 0 THEN a.ms ELSE Never * 1000)

\* check_sliding_window
SlidingWindowResult(a, answer, now) ==
    LET reset_at == Secs(now) + Secs(a.ms)
    IN  IF answer.allowed
        THEN Allowed(answer.remaining, a.limit, reset_at)
        ELSE Denied(a.limit, reset_at, a.ms)

\* The next multiple of the window.
NextBoundary(a, now) == (now \div a.ms + 1) * a.ms

\* A delay that is rounded up to a second.
FixedWindowResultRoundedUp(a, answer, now) ==
    LET reset_at == Secs(NextBoundary(a, now))
    IN  IF answer.allowed
        THEN Allowed(answer.remaining, a.limit, reset_at)
        ELSE Denied(a.limit, reset_at,
                    1000 * (Secs(NextBoundary(a, now) - now) + 1))

\* check_fixed_window
FixedWindowResult(a, answer, now) ==
    LET reset_at == Secs(NextBoundary(a, now))
    IN  IF answer.allowed
        THEN Allowed(answer.remaining, a.limit, reset_at)
        ELSE Denied(a.limit, reset_at, NextBoundary(a, now) - now)

\* RateLimiter::check
CheckResult(a, answer, now) ==
    CASE a.kind = "TokenBucket"      -> TokenBucketResult(a, answer, now)
      [] a.kind = "SlidingWindowLog" -> SlidingWindowResult(a, answer, now)
      [] a.kind = "FixedWindow"      -> FixedWindowResult(a, answer, now)

-----------------------------------------------------------------------------
\* RateLimitHeaders

HeadersAllowed(limit, remaining, reset) ==
    [limit |-> limit, remaining |-> remaining, reset |-> reset,
     retry_after |-> {}]

HeadersDenied(limit, reset, retry_after) ==
    [limit |-> limit, remaining |-> 0, reset |-> reset,
     retry_after |-> {retry_after}]
=============================================================================
