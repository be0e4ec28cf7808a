-------------------------- MODULE RedisTokenBucket --------------------------
(***************************************************************************)
(* RedisStore::token_bucket_check, called by the instances of a deployment *)
(* on one Redis, and reset.                                                *)
(*                                                                         *)
(* An instance reads its own wall clock, which may be ahead of Redis's or  *)
(* behind it, and sends the reading with the script.  The script runs      *)
(* atomically, some time later, or is lost; its caller may have given up   *)
(* with Timeout by then, which Redis knows nothing of: the token is taken  *)
(* all the same.  Redis drops a bucket when its EXPIRE is over.            *)
(*                                                                         *)
(* Units and ticks are those of MemoryTokenBucket.  Readings may be below  *)
(* zero, and so may tokens: the script lets elapsed be negative.           *)
(***************************************************************************)
EXTENDS Integers

CONSTANTS
    Key,             \* the rate-limit keys
    Caller,          \* requests in flight at one time
    Capacity,        \* RateLimitAlgorithm::TokenBucket.capacity
    TicksPerToken,   \* 1 / refill_rate
    Slack,           \* the 10 s of ttl beyond the time a bucket fills in
    MaxSkew,         \* how far an instance's clock is from Redis's, at most
    MaxDelay,        \* longest time from a reading to the script's run
    MaxClock         \* bound: the last tick

ASSUME RedisAssumption ==
    /\ Capacity \in Nat \ {0}
    /\ TicksPerToken \in Nat \ {0}
    /\ Slack \in Nat
    /\ MaxSkew \in Nat
    /\ MaxDelay \in Nat
    /\ MaxClock \in Nat

VARIABLES
    clock,     \* Redis's clock
    hashes,    \* tb:<digest of key>: the hash, and when it expires
    sent,      \* the callers' scripts on their way to Redis
    ledger     \* history: what each key has been granted

vars == <<clock, hashes, sent, ledger>>

Full == Capacity * TicksPerToken

\* math.ceil(capacity / refill_rate) + 10
TTL == Full + Slack

\* The most two readings can be apart that reach Redis at one instant.
Spread == 2 * MaxSkew + MaxDelay

-----------------------------------------------------------------------------
\* History of a key since its last reset: `debt` is the units granted that
\* time, one unit a tick of Redis's clock, had not paid back as of `mark`.

Forgiven == [debt |-> 0, mark |-> clock]

DebtAt(k, at) ==
    LET due == ledger[k].debt - (at - ledger[k].mark)
    IN  IF due >= 0 THEN due ELSE 0

Debt(k) == DebtAt(k, clock)

-----------------------------------------------------------------------------
Init ==
    /\ clock = 0
    /\ hashes = [k \in {} |-> {}]
    /\ sent = [c \in {} |-> {}]
    /\ ledger = [k \in Key |-> Forgiven]

Tick ==
    /\ clock < MaxClock
    /\ \A c \in DOMAIN sent : clock - sent[c].at < MaxDelay
    /\ clock' = clock + 1
    /\ UNCHANGED <<hashes, sent, ledger>>

\* SystemTime::now() on some instance, and the script is on its way.
Send(c, k, now) ==
    /\ c \notin DOMAIN sent
    /\ sent' = [x \in DOMAIN sent \cup {c} |->
                    IF x = c THEN [key |-> k, now |-> now, at |-> clock]
                             ELSE sent[x]]
    /\ UNCHANGED <<clock, hashes, ledger>>

Arrived(c) == sent' = [x \in DOMAIN sent \ {c} |-> sent[x]]

\* The connection fails, or the caller's timeout drops it before it is sent.
Lose(c) ==
    /\ c \in DOMAIN sent
    /\ Arrived(c)
    /\ UNCHANGED <<clock, hashes, ledger>>

-----------------------------------------------------------------------------
\* The script

Exists(k) == k \in DOMAIN hashes /\ clock < hashes[k].expires

\* A bucket that is born empty.
HashFromZero(k, now) == IF Exists(k) THEN hashes[k]
                                     ELSE [tokens |-> 0, last_refill |-> now]

\* data[1] or capacity, data[2] or now
Hash(k, now) == IF Exists(k) THEN hashes[k]
                             ELSE [tokens |-> Full, last_refill |-> now]

Least(a, b) == IF a <= b THEN a ELSE b

\* A refill that takes a negative elapsed for none, as MemoryStore does.
RefilledForward(hash, now) ==
    Least(Full, hash.tokens + (IF now >= hash.last_refill
                               THEN now - hash.last_refill ELSE 0))

\* A refill without the min.
RefilledUncapped(hash, now) == hash.tokens + (now - hash.last_refill)

\* math.min(capacity, tokens + elapsed * refill_rate)
Refilled(hash, now) == Least(Full, hash.tokens + (now - hash.last_refill))

Tokens(c) == Refilled(Hash(sent[c].key, sent[c].now), sent[c].now)

\* HMSET key tokens .. last_refill now; EXPIRE key ttl
Stored(k, tokens, now) ==
    hashes' = [x \in DOMAIN hashes \cup {k} |->
                  IF x = k THEN [tokens |-> tokens, last_refill |-> now,
                                 expires |-> clock + TTL]
                           ELSE hashes[x]]

Grant(c) ==
    /\ c \in DOMAIN sent
    /\ Tokens(c) >= TicksPerToken
    /\ Stored(sent[c].key, Tokens(c) - TicksPerToken, sent[c].now)
    /\ ledger' = [ledger EXCEPT ![sent[c].key] =
                      [debt |-> Debt(sent[c].key) + TicksPerToken,
                       mark |-> clock]]
    /\ Arrived(c)
    /\ UNCHANGED clock

Deny(c) ==
    /\ c \in DOMAIN sent
    /\ Tokens(c) < TicksPerToken
    /\ Stored(sent[c].key, Tokens(c), sent[c].now)
    /\ Arrived(c)
    /\ UNCHANGED <<clock, ledger>>

\* reset: UNLINK tb:<digest of key>
Reset(k) ==
    /\ Exists(k)
    /\ hashes' = [x \in DOMAIN hashes \ {k} |-> hashes[x]]
    /\ ledger' = [ledger EXCEPT ![k] = Forgiven]
    /\ UNCHANGED <<clock, sent>>

-----------------------------------------------------------------------------
Next ==
    \/ Tick
    \/ \E c \in Caller, k \in Key, now \in clock - MaxSkew .. clock + MaxSkew :
           Send(c, k, now)
    \/ \E c \in Caller : Lose(c) \/ Grant(c) \/ Deny(c)
    \/ \E k \in Key : Reset(k)

Spec == Init /\ [][Next]_vars

-----------------------------------------------------------------------------
\* Type invariant.  However slow the clocks that reach it, a bucket owes at
\* most the spread of their readings.
TypeOK ==
    /\ clock \in Nat
    /\ \E K \in SUBSET Key :
          hashes \in [K -> [tokens : -Spread .. Full, last_refill : Int,
                            expires : Nat]]
    /\ \E C \in SUBSET Caller :
          sent \in [C -> [key : Key, now : Int, at : Nat]]
    /\ ledger \in [Key -> [debt : Nat, mark : Nat]]

\* redis.rs:17, "Supports distributed rate limiting across multiple application
\* instances": whatever clocks the instances send, in whatever order, over no
\* stretch of time is a key granted more than a full bucket, one unit a tick
\* and the spread of the readings, once.  What a slow clock takes from the
\* bucket, the next clock gives back, so nothing is credited twice.  The 10 s
\* of ttl must cover the spread.
LedgerBound ==
    Slack >= Spread => \A k \in Key : Debt(k) <= Full + Spread

\* A slow clock empties the bucket by no more than the spread: when a request
\* is denied, the key's grants leave it less than a token and the spread.
DenialJustified ==
    [][\A c \in DOMAIN sent :
          Deny(c) => Full - Debt(sent[c].key) < TicksPerToken + Spread]_vars
=============================================================================
