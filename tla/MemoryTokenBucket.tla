------------------------- MODULE MemoryTokenBucket -------------------------
(***************************************************************************)
(* The token buckets of MemoryStore: token_bucket_check called by several  *)
(* threads, reset, and the cleanup pass (CleanupPass) on the map           *)
(* token_buckets.                                                          *)
(*                                                                         *)
(* A check reads Instant::now() and only then locks the key's shard, so a  *)
(* thread can be descheduled in between and enter the shard with a reading *)
(* older than the entry's last_refill.  The critical section that follows  *)
(* is one step: it holds the shard's lock and awaits nothing.              *)
(*                                                                         *)
(* Time is counted in ticks and tokens in units, the fraction of a token   *)
(* refilled in a tick (refill_rate = 1/TicksPerToken per tick).  The       *)
(* rounding of f64 is abstracted away.                                     *)
(***************************************************************************)
EXTENDS CleanupPass

CONSTANTS
    Thread,          \* tasks of the runtime that run checks in parallel
    Capacity,        \* RateLimitAlgorithm::TokenBucket.capacity
    TicksPerToken,   \* 1 / refill_rate
    MaxClock,        \* bound: the last tick
    MaxStall         \* longest time from a check's clock reading to its lock

ASSUME BucketAssumption ==
    /\ Capacity \in Nat \ {0}
    /\ TicksPerToken \in Nat \ {0}
    /\ MaxClock \in Nat
    /\ MaxStall \in Nat

VARIABLES
    clock,     \* the monotonic clock behind Instant::now()
    buckets,   \* MemoryStore.token_buckets
    call,      \* checks that have read the clock and wait for the shard
    answer,    \* the last result returned by token_bucket_check
    ledger     \* history: what each key has been granted, and why

vars == <<cleaner, inserted, clock, buckets, call, answer, ledger>>

Full == Capacity * TicksPerToken

Bucket == [tokens : 0..Full, last_refill : Nat]

Call == [key : Key, now : Nat]

Ledger == [debt : Nat, mark : Nat, gift : Nat, refund : Nat]

NoAnswer == [key |-> {}, allowed |-> FALSE, remaining |-> 0]

-----------------------------------------------------------------------------
\* History of a key since it was last forgiven (reset, or evicted by the cap).
\* `debt` is what a leaky bucket holds: units granted and not yet paid back
\* by time, one unit a tick, as of `mark`, the latest clock reading a check
\* of the key has used.  The debt never exceeds D just when no stretch of
\* time has seen more units granted than D and one for each of its ticks.
\* `gift` sums the ticks by which late checks moved last_refill back, and
\* `refund` the units by which evictions of the idle refilled a bucket early.

Forgiven(now) == [debt |-> 0, mark |-> now, gift |-> 0, refund |-> 0]

PaidBack(acc, now) ==
    [acc EXCEPT !.debt = Since(acc.debt, Since(now, acc.mark)),
                !.mark = IF now >= acc.mark THEN now ELSE acc.mark]

Init ==
    /\ PassInit
    /\ clock = 0
    /\ buckets = [k \in {} |-> {}]
    /\ call = [t \in {} |-> {}]
    /\ answer = NoAnswer
    /\ ledger = [k \in Key |-> Forgiven(0)]

\* A call stays between its reading and its lock for at most MaxStall ticks.
Tick ==
    /\ clock < MaxClock
    /\ \A t \in DOMAIN call : clock - call[t].now < MaxStall
    /\ clock' = clock + 1
    /\ UNCHANGED <<cleaner, inserted, buckets, call, answer, ledger>>

-----------------------------------------------------------------------------
\* token_bucket_check

\* A check that takes its time from the pass instead of the clock.
CheckBeginCached(t, k) ==
    /\ t \notin DOMAIN call
    /\ call' = With(call, t, [key |-> k, now |-> cleaner.now])
    /\ UNCHANGED <<cleaner, inserted, clock, buckets, answer, ledger>>

\* let now = Instant::now()
CheckBegin(t, k) ==
    /\ t \notin DOMAIN call
    /\ call' = With(call, t, [key |-> k, now |-> clock])
    /\ UNCHANGED <<cleaner, inserted, clock, buckets, answer, ledger>>

\* self.token_buckets.entry(key).or_insert_with(..)
Entry(k, now) ==
    IF k \in DOMAIN buckets THEN buckets[k]
                            ELSE [tokens |-> Full, last_refill |-> now]

\* The refill without its min.
RefilledUncapped(entry, now) == entry.tokens + Since(now, entry.last_refill)

\* (entry.tokens + elapsed * refill_rate).min(capacity)
Refilled(entry, now) ==
    LET sum == entry.tokens + Since(now, entry.last_refill)
    IN  IF sum <= Full THEN sum ELSE Full

\* The reading up to which the key's refill has been paid out.
RefilledUpTo(k) == IF k \in DOMAIN buckets THEN buckets[k].last_refill
                                           ELSE ledger[k].mark

\* The key's ledger after a check that read `now` and granted `units`.
Charged(k, now, units) ==
    [PaidBack(ledger[k], now) EXCEPT
        !.debt = @ + units,
        !.gift = @ + Since(RefilledUpTo(k), now)]

\* A bucket that keeps its last_refill when it is refilled.
StoredUnmoved(entry, tokens, now) ==
    [tokens |-> tokens, last_refill |-> entry.last_refill]

\* entry.tokens = tokens; entry.last_refill = now
Stored(entry, tokens, now) == [tokens |-> tokens, last_refill |-> now]

CheckLocked(t) ==
    /\ t \in DOMAIN call
    /\ LET k       == call[t].key
           now     == call[t].now
           tokens  == Refilled(Entry(k, now), now)
           allowed == tokens >= TicksPerToken
           spent   == IF allowed THEN TicksPerToken ELSE 0
       IN  /\ buckets' = With(buckets, k,
                               Stored(Entry(k, now), tokens - spent, now))
           /\ answer' = [key |-> k, allowed |-> allowed,
                         remaining |-> IF allowed
                                       THEN (tokens - spent) \div TicksPerToken
                                       ELSE 0]
           /\ ledger' = [ledger EXCEPT ![k] = Charged(k, now, spent)]
           /\ Inserted(k \notin DOMAIN buckets)
    /\ call' = Without(call, t)
    /\ UNCHANGED <<cleaner, clock>>

-----------------------------------------------------------------------------
\* reset

Reset(k) ==
    /\ k \in DOMAIN buckets
    /\ buckets' = Without(buckets, k)
    /\ ledger' = [ledger EXCEPT ![k] = Forgiven(clock)]
    /\ UNCHANGED <<cleaner, inserted, clock, call, answer>>

-----------------------------------------------------------------------------
\* cleanup

BeginCleanup ==
    /\ CleanupBegin(clock)
    /\ UNCHANGED <<clock, buckets, call, answer, ledger>>

\* The key's ledger after an eviction, which leaves it a full bucket.
Refunded(k, now) ==
    [PaidBack(ledger[k], now) EXCEPT
        !.refund = @ + (Full - Refilled(buckets[k], now))]

\* retain's closure on one shard: the entry goes if it is idle.
IdleEvicted(k) ==
    /\ k \in DOMAIN buckets /\ IsIdle(buckets[k].last_refill)
    /\ buckets' = Without(buckets, k)
    /\ ledger' = [ledger EXCEPT ![k] = Refunded(k, cleaner.now)]

Kept(k) ==
    /\ ~ (k \in DOMAIN buckets /\ IsIdle(buckets[k].last_refill))
    /\ UNCHANGED <<buckets, ledger>>

RetainShard(k) ==
    /\ ShardRetained(k)
    /\ IdleEvicted(k) \/ Kept(k)
    /\ UNCHANGED <<inserted, clock, call, answer>>

BeginCap ==
    /\ CapBegin
    /\ UNCHANGED <<clock, buckets, call, answer, ledger>>

CountShard(k) ==
    /\ ShardCounted(k, k \in DOMAIN buckets)
    /\ UNCHANGED <<inserted, clock, buckets, call, answer, ledger>>

DecideCap ==
    /\ CapDecide
    /\ UNCHANGED <<clock, buckets, call, answer, ledger>>

ListShard(k) ==
    /\ k \in DOMAIN buckets => ShardListed(k, TRUE, buckets[k].last_refill)
    /\ k \notin DOMAIN buckets => ShardListed(k, FALSE, 0)
    /\ UNCHANGED <<inserted, clock, buckets, call, answer, ledger>>

SortStamps ==
    /\ CapSort
    /\ UNCHANGED <<clock, buckets, call, answer, ledger>>

\* self.token_buckets.remove(&key): of whatever entry the key has by now.
RemoveVictim(k) ==
    /\ VictimTaken(k)
    /\ buckets' = Without(buckets, k)
    /\ ledger' = IF k \in DOMAIN buckets
                  THEN [ledger EXCEPT ![k] = Forgiven(clock)]
                  ELSE ledger
    /\ UNCHANGED <<inserted, clock, call, answer>>

EndCleanup ==
    /\ CleanupEnd
    /\ UNCHANGED <<clock, buckets, call, answer, ledger>>

Cleanup ==
    \/ BeginCleanup
    \/ \E k \in Key : RetainShard(k)
    \/ BeginCap
    \/ \E k \in Key : CountShard(k)
    \/ DecideCap
    \/ \E k \in Key : ListShard(k)
    \/ SortStamps
    \/ \E k \in Key : RemoveVictim(k)
    \/ EndCleanup

-----------------------------------------------------------------------------
Next ==
    \/ Tick
    \/ \E t \in Thread, k \in Key : CheckBegin(t, k)
    \/ \E t \in Thread : CheckLocked(t)
    \/ \E k \in Key : Reset(k)
    \/ Cleanup

Spec == Init /\ [][Next]_vars

\* The prune task calls cleanup every prune interval, for ever, and the
\* runtime schedules it: a pass begins again and each of its steps is taken.
FairSpec == Spec /\ WF_vars(Cleanup)

-----------------------------------------------------------------------------
\* Type invariant.
TypeOK ==
    /\ PassTypeOK
    /\ clock \in Nat
    /\ IsPartialMap(buckets, Key, Bucket)
    /\ IsPartialMap(call, Thread, Call)
    /\ ledger \in [Key -> Ledger]

\* However checks, evictions and resets interleave, over no stretch of time
\* is a key granted more than a full bucket, one unit for each tick of it,
\* the ticks that late checks have moved its refill back (RewindBounded) and
\* the units that evictions of its idle bucket gave away (EvictionBounded).
LedgerBound ==
    \A k \in Key : ledger[k].debt <= Full + ledger[k].gift + ledger[k].refund

\* A check that got its lock late gives away at most the time it was late:
\* no step moves a key's refill back by more than MaxStall.
RewindBounded ==
    [][\A k \in Key : ledger'[k].gift <= ledger[k].gift + MaxStall]_vars

\* What the next check on k would find in the bucket, at this instant.
Level(k) == IF k \in DOMAIN buckets THEN Refilled(buckets[k], clock) ELSE Full

\* What the eviction of an idle bucket gives away: no more than the bucket
\* was short of after idle_ttl ticks of refilling, whatever checks met the
\* pass.  No other step of the store adds to what evictions gave.  It is thus
\* "behaviourally identical to keeping it" (memory.rs:16) if the bucket fills
\* within idle_ttl, and only then: the builder fixes idle_ttl, not the rate.
EvictionBounded ==
    [][\A k \in Key :
          /\ ledger'[k].refund <= ledger[k].refund + Since(Full, IdleTTL)
          /\ RetainShard(k) => Level(k)' <= Level(k) + Since(Full, IdleTTL)]_vars

\* lib.rs:44, "Tokens are added at a fixed rate and consumed on each request":
\* over no stretch of time is a key granted more than a full bucket and one
\* unit for each tick of it.
FixedRate == \A k \in Key : ledger[k].debt <= Full

\* cleanup keeps the map within max_keys, but for the entries inserted since
\* the cap of its last pass began (memory.rs:402).
CapRestored == WithinCap(DOMAIN buckets)

\* Idle entries do not stay: the fix for unbounded growth (memory.rs:384).
IdleEntriesLeave ==
    \A k \in Key :
        (k \in DOMAIN buckets /\ Since(clock, buckets[k].last_refill) >= IdleTTL)
            ~> (k \in DOMAIN buckets
                    => Since(clock, buckets[k].last_refill) < IdleTTL)

\* With no late checks the store is a token bucket limiter.
Limiter == INSTANCE TokenBucketLimiter
               WITH level <- [k \in Key |-> Level(k)]

IsTokenBucketLimiter == Limiter!Spec
=============================================================================
