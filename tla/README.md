# A specification of armature-ratelimit

TLA+ modules, TLC runs and TLAPS proofs for the rate limiter in `src/`. This
file says what the system is made of, what of it is modelled and how, what the
runs and the theorems show, and what is left.

## 1. Inventory

### The parts, their state, and how they meet

| part | code | state | operations |
|------|------|-------|------------|
| `RateLimitMiddleware` | `src/middleware.rs` | two counters of requests let through unchecked | `check`, `handle` |
| `KeyExtractor` | `src/extractor.rs` | none | `extract`, `ip_bucket`, `normalize_path` |
| `RateLimiter` | `src/lib.rs` | its configuration; owns the prune task | `check`, `reset` |
| `PruneTask` | `src/lib.rs:154-209` | a tokio task, its `Notify` and its `JoinHandle` | `spawn`, `drop` |
| `MemoryStore` | `src/stores/memory.rs` | three `DashMap`s: buckets, sliding logs, fixed windows | `*_check`, `reset`, `remaining`, `cleanup` |
| `RedisStore` | `src/stores/redis.rs` | keys in Redis, shared by instances | the same, as Lua scripts and commands |
| standalone algorithms | `src/algorithms/` | one `DashMap` each, with a hard cap | `try_acquire`, `reset`, `remaining` |
| configuration, builder | `src/config.rs` | none after `build` | `validate_algorithm`, `build` |
| errors, headers | `src/error.rs` | none | conversions |

A request reaches the middleware, which extracts a key, looks it up in the
bypass list and awaits `RateLimiter::check`. The limiter calls the store's check
for its one algorithm and turns the answer into `reset_at` and `retry_after`.
The limiter and its prune task share the store by `Arc`; the task calls
`cleanup` every minute until the limiter is dropped.

### What is hard, and what makes each part correct

* **MemoryStore.** Checks run in parallel on the runtime's threads. Each reads
  `Instant::now()` *before* it waits for the shard's lock, so readings reach an
  entry out of order. The cleanup pass reads the clock once and then takes the
  shards one at a time, and its cap reads a length, then a list, then removes:
  checks and resets run between any two of these. It is correct if no
  interleaving admits more than the algorithm allows (up to the lateness of the
  checks), nothing is denied without cause, the eviction of an idle entry gives
  away no more than its TTL leaves unpaid, idle entries leave, and the cap is
  restored.
* **PruneTask.** A drop can meet the task at any step; the notification reaches
  it only at the `select!`, the abort only between two polls. It is correct if
  the task always stops, soon, and until then no entry is kept for too long.
* **RedisStore.** Scripts are atomic, but instances send their own wall clocks,
  an operation that times out may still run, and `reset` and `remaining` take
  several round trips. It is correct if the limits hold up to the skew, no key
  is denied for a call that was lost or a reset that stopped half-way, and a
  reset that is through has forgotten what it found.
* **Standalone algorithms.** The cap is tested, then the key inserted, in
  steps other threads come between, and a batch is evicted from a list read
  earlier; a race that re-creates an entry, or `remaining`, inserts untested.
  Correct if each call leaves the room it owes but for what others inserted
  meanwhile, an eviction spares what was used last, and each limiter keeps its
  limit.
* **Middleware.** Store errors and unkeyed requests may be let through; each
  must be counted, and no other. A request may be answered, fail, be given up
  after a timeout while its script still runs, or lose its client. Correct if
  every caller has a limit of its own, no request waits for ever, and what the
  headers tell a client is consistent.
* **Extractor, configuration, errors.** Pure functions: equivalent addresses and
  paths share a bucket, different ones do not; what `validate_algorithm` accepts
  does not make a check panic.

`PROJECT.json` lists the hazards one by one, each at its line, with the
properties that cover it.

## 2. Plan

1. *(done)* `CleanupPass`, `TokenBucketLimiter` (abstract) and
   `MemoryTokenBucket`, which implements it; proofs of type correctness, the
   ledger and the refinement.
2. *(done)* `MemorySlidingWindow`, `MemoryFixedWindow` on the same pass.
3. *(done)* `PruneTask`, and `RedisTokenBucket` with its proofs.
4. *(done)* `BoundedKeyMap` and `StandaloneLimiter`: the standalone algorithms;
   cap overshoot, stale batch eviction, the insertion made by `remaining`;
   proofs of type correctness and of the cap.
5. *(done)* `RedisWindows`: the sliding window's members; the fixed window with
   its companions, `reset` and `remaining`; proofs of all its properties.
6. *(done)* `RateLimitMiddleware`, `RateLimiter`, `KeyExtractor`: the whole
   request path over a store that fails, times out or answers, with the pure
   functions checked against reference definitions (`Caller`, `Subscriber`,
   `Endpoint`).
7. *(done)* Proofs of `MemorySlidingWindow`, `MemoryFixedWindow` and `PruneTask`,
   of the cleanup pass's cap, and of `LimitKept`, `AnswersHold` and
   `ActiveSpared` of `StandaloneLimiter`.
8. *(done)* Proofs of the request path: of every invariant its run checks, for
   every set of clients and settings.
9. Left to model: that without skew or delay the token bucket in Redis
   implements `TokenBucketLimiter`; the reads of `remaining` on Redis as
   separate steps.

## 3. The modules

| module | models |
|--------|--------|
| `CleanupPass` | one pass of `cleanup` over one map: `retain`, then `cap_*` |
| `TokenBucketLimiter` | what a token bucket promises, without a store |
| `MemoryTokenBucket` | `token_bucket_check`, `reset`, `cleanup` on `token_buckets` |
| `MemorySlidingWindow` | `sliding_window_check`, `remaining`, `reset`, `cleanup` on `sliding_logs` |
| `MemoryFixedWindow` | `fixed_window_check`, `reset`, `cleanup` on `fixed_windows`; `retry_after` of `check_fixed_window` |
| `PruneTask` | the prune task and its drop |
| `RedisTokenBucket` | `RedisStore`'s token bucket script, its callers' clocks, and `reset` |
| `BoundedKeyMap` | making room for a new key in a map of `src/algorithms/`: `contains_key`, `len`, `evict_oldest_batch` |
| `StandaloneLimiter` | `TokenBucket`, `SlidingWindowLog` and `FixedWindow` of `src/algorithms/`: `try_acquire`, `reset`, `remaining`, `time_until_reset` |
| `RedisWindows` | `RedisStore`'s sliding and fixed window scripts, `reset` with its sweep, and `remaining` |
| `KeyExtractor` | `src/extractor.rs`: from a request to its key, as operators |
| `RateLimiter` | `validate_algorithm`, the builder, and what `RateLimiter::check` makes of a store's answer, as operators |
| `RateLimitMiddleware` | configuration, `handle` and `check` over a store, composed of the two above and `TokenBucketLimiter` |
| `MC*` | the symmetry of keys, threads and callers, and a few clients, for TLC |
| `*_proofs` | theorems and lemmas; `RateLimiter_proofs` those of the request path and of the prune task, the two parts a `RateLimiter` adds to its store |

### CleanupPass

`cleaner` is the pass: its phase and the local variables of the function it is
in (`now`, the list `stamps`, and `count`, which is `len` and then what is left
of `len - max`). The phases are `retain`, `len`, `scan` and `evict`. In each of
the first three, `unseen` holds the shards still to visit; every key is its own
shard, which allows every interleaving a coarser map has and more. The sort is
the rule that a victim is the oldest entry left on the list (`Oldest`); stamps
that tie go in any order, as the order of a hash map is arbitrary. `WithinCap`
is stated with the history variable `inserted`, which counts what was inserted
since the pass's cap began.

The pass knows the map's stamps only. A module that EXTENDS it owns the map and
conjoins to each step what it does to the entry. A limiter has one algorithm,
so the two maps it does not use are empty and are left out; several limiters of
different algorithms on one store would add nothing but passes in between.

### The three stores

A check is two steps: `CheckBegin` (the reading of the clock) and `CheckLocked`
(everything under the lock of the shard; it awaits nothing, so nothing of the
same shard runs inside it). `reset` is the removal of the key's entry.
`MaxStall` is how long a check may stay between its two steps: the clock's guard
keeps it, and every bound that depends on it names it.

* In `MemoryTokenBucket`, tokens are counted in units of one tick's refill, so
  that a token is `TicksPerToken` units and the arithmetic stays in integers.
  `Since` is `duration_since`, which saturates at zero. `ledger` is history: the
  units a key was granted and time has not paid back (a leaky bucket), the
  latest clock reading a check of the key used, the ticks by which late
  checks moved `last_refill` back (`gift`), and the units that evictions of its
  idle bucket were worth (`refund`). `IdleTTL` and `Full` are independent: a bucket may
  take longer to fill than an idle one is kept, as the TTL is 300 s (`config.rs:315`)
  and the rate any positive number. `EvictionBounded` bounds what that gives away.
* In `MemorySlidingWindow` and `MemoryFixedWindow`, `admitted` is history: the
  times of the key's admissions, as the clock stood when the lock was held, all
  of them; a property counts the recent ones (`Within`). A reset or the cap's eviction of a key forgets
  its history (both forgive the key by design); eviction of an *idle* key does
  not, since it is supposed to change nothing.

`None` for `max_keys` is a `MaxKeys` no smaller than the number of keys.

### PruneTask

The task runs in polls. `Poll` is a worker taking up a woken task; the steps
that follow need `polled`; an await that is not ready ends the poll (`Parked`)
and this is where an abort takes effect. `Told` is what `notify_waiters`
reaches: a task parked at the `select!` is told, one inside `cleanup` is not,
one being polled may be or not, as its `Notified` future may exist or not.
A late tick postpones the next (`MissedTickBehavior::Delay`). `awaits` is chosen
initially: `MemoryStore::cleanup` awaits nothing, the trait allows stores that
do, and such a store may never answer.

### RedisTokenBucket

`Send` is an instance reading its wall clock, which is within `MaxSkew` of
Redis's, and sending the script. `Grant` and `Deny` are the script's two
branches; `Lose` is a script that never reaches Redis. A caller's timeout is no
step: the script is lost, or it runs and takes a token although its caller has
gone. Expiry is no step either: `Exists` looks at the clock, as Redis does.
`elapsed` may be negative and `tokens` may fall below zero, as in the script.
`Spread = 2 * MaxSkew + MaxDelay` is how far apart two readings can be that
reach Redis at one instant, and every bound is in terms of it.

### BoundedKeyMap and StandaloneLimiter

A call of `try_acquire` that does not find its key is a *seeker*: it visits the
shards of `len()`, and if the map is full those of `iter()`, chooses the oldest
batch of what it listed (`IsOldestBatch`, any of those that tie), removes the
victims one at a time and then locks its key's shard (`CheckEntered`). Shards are
visited in the order of their index, as `DashMap` does. As in `CleanupPass` the
module holds the threads' locals only, and `StandaloneLimiter` owns the map.

`StandaloneLimiter` is chosen one of the three algorithms initially. A sliding
or fixed window reads the clock before it looks for room, a token bucket reads it
under the lock of its shard (`token_bucket.rs:103`). `SlidingWindowLog::remaining`
inserts an empty log for a key it does not know, without a look at the cap.

`admitted` is history as in the in-memory store, all of it. `Allows(n, d)` says what
`LimitKept` allows: a token bucket any stretch of `d` ticks, of a window a
stretch it covers, by which longer ones are bounded piece by piece.

Two fields of a seeker are history. `room` is the size its call would leave the map
at if nobody else inserted: `max_keys`, or if the map was beyond its cap, what
it was less a batch and with the new key (`RoomOwed`). `overtaken` counts the keys
that others have inserted since the call looked, by racing, by `reset` or by `remaining`.
`CallsMakeRoom` says that when a call is about to insert, the map with its key is
no larger than `room` and `overtaken`. Both start anew with each call: what
earlier races left in the map is in `room`, and excuses nothing. It is not the hard
cap that the code's comments promise, which the code breaks in three ways: section 4
lists them.

### RedisWindows

As in `RedisTokenBucket`, an instance sends a reading of its wall clock with a
script that runs atomically later, or never. Keys live as long as their EXPIRE,
and a `Tick` takes away what is over. A sorted set is a set of members
`[score, seq]`; the fixed window's counters are a partial function from window
numbers, with the pointer that `remaining` finds the live one by. `fwmax` is
written and removed with the pointer, so it is one variable with it.

`reset` is several steps: the `UNLINK` of the fixed names, then `SCAN` batches
(some of the counters, maybe none; with the last cursor all that were there
throughout), each unlinked. Each command may fail and end the call
(`ResetReturns`), and checks run in between. `admitted` is history, and a reset
takes from it what it takes from Redis.

### The request path

`RateLimitMiddleware` begins with the builder: `Configure` sets fields, `Build`
may fail, the middleware's own setters follow. A request is one step to the
first await (`Handle`: the key, the bypass list, the policy for requests without
a key). `MemoryStore` answers within that poll. A Redis operation runs, replies,
fails or is given up, and one that is given up may run late. `Decided` is what
`check` makes of the answer by `RateLimiter`'s operators, and `HandlerReturns` adds the
headers. A client that goes away drops the future where it waits.

The store is an instance of `TokenBucketLimiter` in which nothing is refilled, as
the runs below establish it of the stores: the stretch is one in which no
token comes back and no window rolls.

Texts are sequences of tokens, so that `format!` glues keys together as it does
in the code; an address has the parts that `ip_bucket` tells apart; SHA-256 is a
token around its text.

`Caller` says whom a request comes from, in terms of `Subscriber` and
`Endpoint`, which are defined without the code; `CallerBy` says it of any
extractor. `KeysSeparate` is about one extractor, `ChainedApiKeys` about the chains
of `KeyExtractorBuilder`: whoever a chain knows by an API key (`KnownApiKey`: it is
the first of the chain's extractors that knows anyone) shares a bucket with those known by
the same API key, through whichever header, and with nobody else. A chain promises
no more: it puts user ids, header values and addresses into one name space as they
are, so a user whose id spells an address shares the bucket of that address under
the default fallback, and a header value that is another's user id shares its bucket. One client of
the run is such a user. The code does not ensure these properties for every text a
client might send, and definitions name what it leaves to its surroundings:
`NoColons` (a user id that `UserIdAndPath` joins with the path has no `:` in it,
`extractor.rs:303`), and `NoDigests` and `NoDigestsInChains` (a user id or header
value that serves as a key does not start as the bucket of an API key does,
`apikey:`, or it might be waved through as one on the bypass list,
`middleware.rs:189`, or share that key's bucket). The clients of the run satisfy all three, which
`MCRateLimitMiddleware` assumes and TLC evaluates.

## 4. The runs

| run | expects | asks |
|-----|---------|------|
| `TokenBucketLedger` | pass | with late checks, resets and evictions, is every unit granted accounted for? |
| `TokenBucketPromise` | pass | without late checks, is the store a token bucket? what does an eviction give away, does the cap hold, do idle entries leave? |
| `TokenBucketFixedRate` | violation | is the rate kept with late checks? |
| `SlidingWindow` | pass | is the limit kept, is nothing denied or hidden without cause? |
| `FixedWindow` | pass | at most twice the limit in a window's time, nothing denied without cause? |
| `FixedWindowIdle` | violation | does an active key keep its window? |
| `FixedWindowRetryAfter` | violation | has the window rolled when `retry_after` is over? |
| `RedisTokenBucket` | pass | with skewed clocks and late scripts, is a key granted, or denied, too much? |
| `RedisWindows` | pass | with skewed clocks, lost scripts and half-done resets, do both windows keep their limit, deny with cause, and forget when told? |
| `StandaloneLimiter` | pass | whom does an eviction take, does a call make the room it owes, do the limits and the answers hold? |
| `RequestPath` | pass | from the configuration to the reply: is each caller limited alone, each unchecked request counted, each client told what is true? |
| `PruneTask` | pass | does the task stop, and in time; does it keep entries from ageing? |

What the violations show:

* **A late check is credited twice** (`memory.rs:248`). Thread A reads the clock
  at 0 and stalls; B checks at 1 and sets `last_refill` to 1; A stores 0 back; the
  next check is credited the tick from 0 to 1 again. `LedgerBound` and
  `RewindBounded` bound the damage: each late check gives back at most its own
  lateness. Storing the later of the two readings would close it.
* **A fixed window is evicted by its start** (`memory.rs:400`), against
  `memory.rs:15`. With a window longer than `idle_ttl` a client has a fresh
  quota in mid-window. The builder always uses the default TTL of 300 s.
* **`retry_after` of a fixed window** (`lib.rs:391`) is measured to a boundary of
  the wall clock; the in-memory window starts at the first request.
Where the code does less than a comment says and a passing property states how much
less, there is no violation run of its own:

* **An idle bucket need not be full** (`memory.rs:389`), against `memory.rs:16-18`,
  which call its eviction "behaviourally identical to keeping it". The builder's TTL
  is always 300 s, while `validate_algorithm` takes any positive rate and `config.rs:14-17`
  advises `f64::EPSILON` for a bucket that never refills: its exhausted bucket is evicted
  after five idle minutes, and the next one is full. Both token bucket runs have a bucket
  that takes longer than `IdleTTL` to fill, so that this happens in them; `EvictionBounded`
  bounds the gift of each eviction by what `idle_ttl` ticks of refilling leave a bucket
  short of, and `LedgerBound` counts it.
* **The hard cap of the standalone algorithms is none** (`token_bucket.rs:58`,
  `sliding_window.rs:58`, `fixed_window.rs:63`: "evict the oldest when a new key would exceed it").
  `TokenBucket::reset` inserts unknown keys untested (`token_bucket.rs:155`), and so does
  `SlidingWindowLog::remaining` (`sliding_window.rs:107`): one thread is enough for either,
  and each such call adds an entry. All three test and insert in two steps, so two
  threads with two new keys overshoot. Below 128 `max_keys` a batch is one entry, and later
  calls restore nothing; above, each takes a batch less one off. `CallsMakeRoom` says
  what is left of the cap: what each call owes, and what those that overtake it cost.

One more divergence shows in the definitions: a stamp exactly one window old is
dropped by `Remaining` (`memory.rs:370`, `<`) and kept by `Pruned` (`memory.rs:278`),
so for an instant `remaining` may promise what a check denies. `RemainingShows`
states the direction that holds.

### Bounds

Two threads are enough for one to be late and the other to overtake it, which is
all lateness can do to one entry; more of them repeat it. Keys are independent
but for the cap, so runs about limits have one key, and `MaxKeys = 0` there lets
the cap evict it at any time. `TokenBucketPromise` has two keys and room for
one, so that the cap chooses. `MaxClock` leaves room for a bucket to be spent, to fill and to
be spent again (ledger: 5 ticks, a token costs 2; `IdleTTL` is 1 and `Full` 2, so that an eviction gives
something away), and for three windows (sliding: 6
ticks, windows of 2; fixed: 7, windows of 3). `MaxInserted` caps the history
variable `inserted`; above it `WithinCap` claims nothing, and it is at least the
number of keys where `CapRestored` is checked. In `PruneTask` ages saturate one
above the bound claimed, and `late` at one above its bound. `RedisTokenBucket` runs for 14 ticks
so that a hash, which lives for 9 ticks after its last script, expires and is born
again; its bucket holds 6 units, one more than a token and the spread, or
`DenialJustified` would claim nothing. Its bounds are tight: with a spread less
by one, or a `Slack` less than the spread, TLC finds each of them violated.

`RedisWindows` has a limit of 2, so that a log holds some of it, windows of 4 ticks,
a skew of 1 and 11 ticks: from the first reading, two windows and the expiry of what
the first left. `MaxDelay` is 0: a late script is to Redis what a script of a slower
clock is, and only `Spread` enters the bounds; `Slack` equals it, the least
the bounds hold for. A counter stops at one past the limit.

`StandaloneLimiter` has two threads and two keys for a map of one, so that an
insertion needs an eviction and two can race; a limit of 1 with a token
in 2 ticks, windows of 2, stalls of 1 and 3 ticks let every algorithm admit, deny and
admit again. `MaxOvertaken` is where the history field `overtaken` saturates: with 1
`CallsMakeRoom` is claimed of the calls that nobody overtook, which is all that two keys can tell
apart. That a call overtaken costs no more than an entry each time, and that it shrinks a map
beyond its cap, is for the theorem `RoomMade`, which holds whatever `MaxOvertaken` is.

`RequestPath` has two requests, enough for one to use up the limit of another and for
one to run late, of six clients: an address straight and through a proxy that
was sent a forged hop, mapped into IPv6, two of one /64 and one of another, a user whose
id spells that /64; header
names in three cases, a path with `..` and doubled slashes. `MaxSettings = 3`
fields may differ from their defaults, which covers every pair of settings together with
an algorithm. The clock stands at 2.1 s, where seconds, cut, and a window of
2.5 s fall apart. A window of 0 and a limit of 0 are there to be refused.

### Fairness

`FairSpec` of `MemoryTokenBucket` asserts weak fairness of the steps of the
pass: the prune task calls `cleanup` for ever (`lib.rs:183-189`), the runtime
schedules it, and none of its steps waits for anything but a shard's lock, which
every holder releases. `PruneTask` asserts weak fairness of the task's steps:
tokio polls a woken task, and a poll runs on. `RateLimitMiddleware` asserts it
of `MemoryChecks`, as a check of the memory store waits for nothing but a shard,
and of `StoreFails`, as `operation_timeout` always runs out; nothing is asked of
Redis or of the next handler. Nothing is assumed of checks, of
drops, of the clock, or of a store's answer.

`PruneTask.cfg` and `RequestPath.cfg` do not check deadlock: the task may stop for
good, a build may fail, and the requests run out. The stores always have a
cleanup step or a check to take.

## 5. The proofs

For every finite or infinite set of keys and threads, every capacity, rate, TTL, cap and
stall (`BucketAssumption`, `CleanupAssumption`: naturals, the capacity and the
cost of a token not zero), `MemoryTokenBucket_proofs` establishes:

* `TypeCorrect`: `Spec => []TypeOK`.
* `LedgerCorrect`: `Spec => []LedgerBound`. `LedgerBound` is not inductive: it
  does not say what the *bucket* holds. The invariant `Covered` does: what the
  key owes, what its bucket holds and what the bucket has yet to be paid (the
  ticks from `last_refill` to the ledger's mark) are together at most
  `Full + gift + refund`; a key without a bucket owes at most its gift and refund, as
  its next bucket is full. A check keeps it because what it takes from the bucket it adds
  to the debt, and what a rewind adds to the bucket it adds to the gift;
  evicting an idle bucket keeps it because what the next bucket has more is the
  `refund`. No relation of the TTL to the rate is assumed.
* `RewindCorrect`: `Spec => RewindBounded`, by the invariant `TimeInv`: no entry, ledger or
  pass has a reading later than the clock, and no waiting call's reading is
  older than `MaxStall`.
* `CapCorrect`: `Spec => []CapRestored`. A pass works on a length and a list that
  are old by the time it removes. The invariant `CapInv` says what they are still
  worth: of the shards `len()` has visited, the map holds no more than it counted
  and what was inserted since; the map and the list together are no more than
  that, and all but the insertions since are on the list. Each removal
  then takes one off the list, off the map and off the count. An entry that
  leaves by itself may cost another its place, but never the cap.
* `EvictionIsBounded`: `Spec => EvictionBounded`. An idle bucket is at least `IdleTTL` ticks
  past its `last_refill`, so a refill would leave it short of `Full - IdleTTL` at most: of
  nothing, if a bucket fills within its TTL, and only then is the comment at `memory.rs:16` right.
* `StoreImplementsLimiter`: if `MaxStall = 0`, `Spec => IsTokenBucketLimiter`,
  under the mapping that gives a key the level its bucket would have if it
  were refilled now. A tick of the store is `Elapse`, a check's locked step is
  `Ask`, a reset or a capped eviction is `Forgive`, and every other step stutters.
  `MaxStall = 0` is needed: `TokenBucketFixedRate` is its counterexample.

`MemorySlidingWindow_proofs`, for every limit, window, TTL, cap and stall,
establishes all the run checks: `TypeCorrect`, `WindowCorrect`
(`WindowBound`), `DenialCorrect` and `RemainingCorrect`; and `CapCorrect`. The invariant `KeyInv`
relates a log to the key's whole history. `Matched`: the log's stamps belong to the
latest admissions, one each, in their order, and each was read no more than a
stall before its admission. `Expired`: the admissions the log has lost are older
than a window less a stall. A late check stamps out of order and prunes by an old
cutoff, and both facts survive: a stamp behind a younger one leaves later, and a
cutoff of the past takes less. The idle test takes a whole log only when its last
stamp is older than `IdleTTL`, hence the hypothesis `IdleTTL > Window` of
`WindowBound` (`memory.rs:23`: windows are seconds to minutes). A log in the map
is never empty, which is why the cap, which lists only logs with a last stamp,
misses none.

`MemoryFixedWindow_proofs`, likewise: `TypeCorrect`, `DoubledCorrect`
(`AtMostDoubled`), `DenialCorrect` and `CapCorrect`. A window's `count` are the latest
admissions, all since its start; those before came before the check that started
it got its lock (`Counts`); and all but `MaxRequests` of those are as old as a
window less a stall (`Expired`), since the window they were counted in had
rolled. Only the last part needs `IdleTTL >= Window`: with a shorter TTL the pass
evicts windows that still count.

`RateLimiter_proofs`, of the prune task, for every set of keys, TTL, interval and delay with
`MaxDelay < Interval` and `MaxDelay < IdleTTL` (a minute, five minutes, and the time a worker
takes to poll): `PruneTypeCorrect`, `RetentionCorrect` and `LateCorrect`. For the former, `AgesOK` says
in each phase how idle an entry may be: what the ticker has counted down since
the pass that spared it, then what the task is late by, and, inside a pass, what
the pass has taken. For the latter, `LateOK`: a cleanup that begins after the drop
runs in the poll the drop met; the abort takes effect when it ends, and
the ticker is not due again before, as `wait + lag >= Interval`.

For every set of keys and callers, every capacity, rate, skew, delay and slack,
`RedisTokenBucket_proofs` establishes `TypeCorrect` (a bucket owes at most the
spread), `LedgerCorrect` (`LedgerBound`) and `DenialCorrect` (`DenialJustified`).
The argument is that `tokens - last_refill` only falls, because a negative
`elapsed` takes from `tokens` what it takes from `last_refill`: readings cancel
but for the first and the last of a stretch. The invariant `IInv` states what
hash and debt come to as of the last script's run, from below (`Kept`) and from
above (`Capped`); the latter needs `Slack >= Spread`, the code's ten seconds
(`redis.rs:120`), or a hash could expire before its bucket is full. In
contrast to the in-memory store, where each late check is credited again, the
spread is paid once.

`StandaloneLimiter_proofs`, for every set of keys and threads, every cap, batch and
algorithm setting, establishes all its run checks: `TypeCorrect`, `RoomMade`
(`CallsMakeRoom`), `LimitCorrect` (`LimitKept`), `AnswersCorrect` (`AnswersHold`) and
`SparedCorrect` (`ActiveSpared`).
`CallsMakeRoom` is not inductive: what matters is what each call knows of the map while
it looks for room. `CapKept` says it of each seeker (`HasRoom`): of the shards it has
visited, the map holds no more than it has counted, and then nothing it has not
listed, but for the keys that have overtaken it; the map and its list together are no
more than it owes room for and a batch; and when no victim is left, the map with its key
is within `room` and `overtaken`. A removal by another thread only helps, an insertion
by another adds one to both sides.
The lemmas about `BoundedKeyMap`, one per step, are about an unspecified map.

`LimitCorrect` and `AnswersCorrect` rest on `EntriesKept`, which relates each entry to the
whole history of its key, whatever thread made it (a key without an entry has no
history, or an eviction would have been a gift unaccounted for). A bucket: for
every admission, the tokens granted from it on and those left are no more than a
full bucket and the ticks since. A log and a window: as in the in-memory store,
but with no TTL to assume, as nothing idle is ever evicted.

`SparedCorrect` rests on `ListsKept`. An entry is old, to a call that evicts, if it was
last used more than a stall before the call's reading. The activity an entry gets
from a check is at least as late as the clock less a stall, hence never old, so
while a call lists, selects and removes, entries only cease to be old. The
list therefore has every old entry of the shards it has seen as it still
is, and no old entry that was not chosen is older than a victim. What is left
older than a removed victim by two stalls is itself still to be removed.

`RedisWindows_proofs`, for every set of callers, every limit, window, slack, skew and
delay, establishes all that the run checks: `TypeCorrect`, `SlidingCorrect`,
`FixedCorrect`, `RemainingCorrect`, `ResetCorrect` and `DenialCorrect`. The invariant
relates Redis to history both ways. Every member of a log is an admitted
request's, or too old to count (so a denial is justified); every admitted
request has its member (`Held`), or is older than a window less the spread (so the
limit holds, and `remaining` hides nothing). For the latter `Slack >= Spread` is
needed: a log, or its sequence, would else expire under requests that count, and
numbers would be given twice. For fixed windows the same holds of a counter's
numbers `1..Limit`. A stretch that with the spread fits a window meets the readings
of two windows only, hence twice the limit; the pointer is never more than one
window behind, as the first request of a window writes it. `DenialCorrect` needs a
second invariant, `JustCounted`, to tell a denial from a step that changes no history.

`CleanupPass_proofs` holds the lemmas about partial maps, about the types of
the pass's steps and about `CapInv`, which the three in-memory stores share.

`RateLimiter_proofs`, of the request path, for every set of requests, extractors,
algorithms, bypass keys, proxy depths and clocks, any limit and any number of
requests (`MiddlewareAssumption` gives them their types and lets an algorithm
have one limit, or one that is refused):

* `RequestTypeCorrect`: `Spec => []TypeOK`, from `Typed`, which says also what
  the settings, answers, headers and replies are, and that the requests,
  phases, keys, results and replies are sequences of one length.
* `RequiredHeaderCorrect` (`RequiredHeaderSuffices`, a part of `KeysSeparate`), `BypassCorrect`
  (`BypassNeverLimited`) and `HeadersCorrect` (`HeadersTell`), without a
  hypothesis; and `PassesCorrect` (`PassesAccounted`), if `NoDigests`. The
  invariant is `RequestsFine`: of each request, its key is the extractor's
  (`KeyWith`); who waits for the store, or has been there, has a key that is not
  waved through (`FinePending`); what it was told agrees with what it was
  answered and with the configuration (`FineReply`); and it got through neither
  against the store's answer nor against the configuration (`FinePass`). It is
  stated over values, so that one lemma (`StepFine`) says that a step of one
  request leaves the others fine. It needs that the configuration does not
  change once a request has come. `PassesAccounted` needs `CountsRight`
  besides: the two counters are the cardinalities of those that got through
  without a key, and of those without an answer. Who is waved through is
  listed under `NoDigests`, as `ApiKeyBucket(b) = key` then comes from an API key.
* `ChainsCorrect` (`ChainedApiKeys`), if `NoDigestsInChains`: the bucket of an API key is
  longer than an address, differs from an address at a path in its second token, and
  from any other text in its first (`KeyIsNoBucket`); and the first extractor that
  knows the caller is the first that finds a key (`ChainIs`).
* `KeysCorrect` (`KeysSeparate`), if `NoColons`: the keys of two requests agree
  exactly if their callers do, whatever paths and addresses they spell. For
  the paths it rests on `NormalizePathIs`: two paths are normalised to the same text
  exactly if they name the same endpoint. `NormalizePath` is a recursion over
  segments; it is reasoned about by its least counterexample: that the stacks are
  a function is `StackingExists`, and `Resolves` says what the stack holds
  after `n` segments, among others that behind each segment that is left there
  are as many more names than dots as segments are left, which is what the
  next `..` needs. For the glue, the first `:` of a key ends the part before the
  path, hence `NoColons`.
* `LimitCorrect` (`LimitPerCaller`), if `NoColons`, from `LevelsCorrect`, the same
  promise for keys, which needs no hypothesis: what a key has left and the consents
  given to it are no more than the limit, and the limit is no more than what it
  has left and the requests that have been at the store or never will
  (`LevelsRight`); a denied request finds limit others of the latter
  (`DenialsRight`). An operation that is given up moves from waiting to `late`,
  spends without a consent when it runs, and may never run: hence two
  inequalities and no equation.

Only model-checked: liveness (`IdleEntriesLeave`, `StopsAfterDrop`,
`CheckDecides`), which is out of the prover's reach. In the `TokenBucketPromise` run
`IsTokenBucketLimiter` needs no assumption on `idle_ttl` because an eviction that gives something
away is the limiter's `Forgive`; how much it may give is `EvictionBounded`.

## 6. What is not modelled

* The rounding of `f64` tokens, and `Duration`s below a tick. Among it: a refill
  rate so small that `Duration::from_secs_f64` panics (`lib.rs:317`) or the hash's
  EXPIRE overflows (`redis.rs:120`), which `validate_algorithm` lets pass
  (`config.rs:16`).
* The token-bucket and fixed-window branches of `MemoryStore::remaining`, and the
  token-bucket branch of `RedisStore::remaining`: reads no property uses. The
  reads of `RedisStore::remaining` are taken together.
* Limiters with different limits for one key on one store: `limit` and `window`
  are then overwritten by the last check (`memory.rs:273`, 317).
* Two parts of a key that hold the separator: `user:path` glued by `:`
  (`extractor.rs:303`) is ambiguous for a user id with a `:` and a `/` in it.
* `RateLimitConfig::should_bypass` (`config.rs:136`), which compares keys without
  the API-key digest and which the middleware does not call.
* Chains that mix user ids, header values and addresses that spell one another: they
  share a bucket (`extractor.rs:374-393`), which nothing in the repository rules out and no
  property claims otherwise. `ChainedApiKeys` is about API keys.
* A limiter made by `RateLimiter::new` itself, which is public. It skips
  `validate_algorithm` (`lib.rs:229-260`), so `TypeOK` of the request path is about limiters
  that the builder made. And outside a Tokio runtime it has no prune task
  (`lib.rs:245-251`): its store is never pruned, and `RetentionBounded`
  says nothing of it. `PruneInit` is a limiter made within a runtime.
* `PruneTask::drop`'s `notify_waiters` and `abort` are one step: the instant
  between them, in which another thread could poll the task, is left out.
* An `UNLINK` of `RedisStore::reset` that is given up by its timeout and runs late
  (`redis.rs:356`, 380): a command runs within its step, or not at all.
* A panic of a store's `cleanup`, which would end the prune task unseen.
* `key_prefix`, `error_message`, log lines and the JSON body; the error type's
  conversions.
* A failover of Redis that loses writes, and a script run twice:
  the client does not resend a script that may have run.
* Several limits or refills within the request path: its store stands still.
* The DashMap, tokio and the clock themselves: a shard's lock is taken to be
  mutual exclusion, the runtime to poll woken tasks, `Instant` to be monotonic.
