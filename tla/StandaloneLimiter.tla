-------------------------- MODULE StandaloneLimiter --------------------------
(***************************************************************************)
(* The limiters of src/algorithms: TokenBucket, SlidingWindowLog and       *)
(* FixedWindow, each a map of its own shared by the threads that call      *)
(* check, reset and remaining, with the cap of BoundedKeyMap.              *)
(*                                                                         *)
(* The algorithm is chosen once.  SlidingWindowLog and FixedWindow read    *)
(* the clock when a call begins, TokenBucket when it holds the entry.      *)
(* Tokens are counted in units, the fraction of a token refilled in a tick.*)
(***************************************************************************)
EXTENDS BoundedKeyMap, Sequences

CONSTANTS
    Limit,           \* capacity, or max_requests
    TicksPerToken,   \* 1 / refill_rate
    Window,          \* window, in ticks
    MaxClock,        \* bound: the last tick
    MaxStall         \* longest time from a call's reading to its entry

ASSUME LimiterAssumption ==
    /\ Limit \in Nat \ {0}
    /\ TicksPerToken \in Nat \ {0}
    /\ Window \in Nat \ {0}
    /\ MaxClock \in Nat
    /\ MaxStall \in Nat

VARIABLES
    algorithm,   \* which of the three limiters this is
    clock,       \* the monotonic clock behind Instant::now()
    entries,     \* buckets, logs or windows: the map
    admitted     \* history: when each key's requests were admitted

vars == <<seekers, algorithm, clock, entries, admitted>>

Algorithms == {"token_bucket", "sliding_window", "fixed_window"}

Full == Limit * TicksPerToken

Since(later, earlier) == IF later >= earlier THEN later - earlier ELSE 0

Init ==
    /\ MapInit
    /\ algorithm \in Algorithms
    /\ clock = 0
    /\ entries = [k \in {} |-> {}]
    /\ admitted = [k \in Key |-> <<>>]

Tick ==
    /\ clock < MaxClock
    /\ \A t \in DOMAIN seekers : clock - seekers[t].now < MaxStall
    /\ clock' = clock + 1
    /\ UNCHANGED <<seekers, algorithm, entries, admitted>>

-----------------------------------------------------------------------------
\* For each algorithm: the entry or_insert_with makes, what try_acquire makes
\* of an entry e under the shard's lock, and the activity an eviction goes by.

\* TokenBucket

NewBucket(now) == [tokens |-> Full, last_refill |-> now]

\* A refill without its min.
RefilledUncapped(e, now) ==
    [tokens |-> e.tokens + Since(now, e.last_refill), last_refill |-> now]

\* refill: (tokens + elapsed * refill_rate).min(capacity)
Refilled(e, now) ==
    LET sum == e.tokens + Since(now, e.last_refill)
    IN  [tokens |-> IF sum <= Full THEN sum ELSE Full, last_refill |-> now]

BucketAcquired(e, now) ==
    LET r == Refilled(e, now)
    IN  IF r.tokens >= TicksPerToken
        THEN [allowed |-> TRUE,
              entry |-> [r EXCEPT !.tokens = @ - TicksPerToken]]
        ELSE [allowed |-> FALSE, entry |-> r]

BucketStamp(e) == e.last_refill

\* SlidingWindowLog

\* while front < cutoff { pop_front }
Pruned(log, cutoff) ==
    LET kept == {i \in 1..Len(log) : log[i] >= cutoff}
    IN  IF kept = {} THEN <<>>
        ELSE SubSeq(log, CHOOSE i \in kept : \A j \in kept : i <= j, Len(log))

LogAcquired(log, now) ==
    LET p == Pruned(log, now - Window)
    IN  IF Len(p) < Limit THEN [allowed |-> TRUE, entry |-> Append(p, now)]
                          ELSE [allowed |-> FALSE, entry |-> p]

LogStamp(log) == IF log = <<>> THEN None ELSE log[Len(log)]

\* FixedWindow

NewWindow(now) == [count |-> 0, window_start |-> now]

\* A roll that leaves the window's start where it was.
RolledKeepingStart(e, now) ==
    IF Since(now, e.window_start) >= Window THEN [e EXCEPT !.count = 0] ELSE e

\* if elapsed >= window { count = 0; window_start = now }
Rolled(e, now) ==
    IF Since(now, e.window_start) >= Window THEN NewWindow(now) ELSE e

WindowAcquired(e, now) ==
    LET r == Rolled(e, now)
    IN  IF r.count < Limit
        THEN [allowed |-> TRUE, entry |-> [r EXCEPT !.count = @ + 1]]
        ELSE [allowed |-> FALSE, entry |-> r]

WindowStamp(e) == e.window_start

\* The limiter's own.

Fresh(now) ==
    CASE algorithm = "token_bucket"   -> NewBucket(now)
      [] algorithm = "sliding_window" -> <<>>
      [] algorithm = "fixed_window"   -> NewWindow(now)

Acquired(e, now) ==
    CASE algorithm = "token_bucket"   -> BucketAcquired(e, now)
      [] algorithm = "sliding_window" -> LogAcquired(e, now)
      [] algorithm = "fixed_window"   -> WindowAcquired(e, now)

Stamp(e) ==
    CASE algorithm = "token_bucket"   -> BucketStamp(e)
      [] algorithm = "sliding_window" -> LogStamp(e)
      [] algorithm = "fixed_window"   -> WindowStamp(e)

Entry(k, now) == IF k \in DOMAIN entries THEN entries[k] ELSE Fresh(now)

-----------------------------------------------------------------------------
\* check (try_acquire)

\* let now = Instant::now(), of up to MaxStall ago, and contains_key
CheckBegin(t, k, now) ==
    /\ Look(t, k, now, DOMAIN entries)
    /\ UNCHANGED <<algorithm, clock, entries, admitted>>

CountShard(t, k) ==
    /\ ShardCounted(t, k, k \in DOMAIN entries)
    /\ UNCHANGED <<algorithm, clock, entries, admitted>>

DecideRoom(t) ==
    /\ Decide(t)
    /\ UNCHANGED <<algorithm, clock, entries, admitted>>

ListShard(t, k) ==
    /\ k \in DOMAIN entries => ShardListed(t, k, TRUE, Stamp(entries[k]))
    /\ k \notin DOMAIN entries => ShardListed(t, k, FALSE, None)
    /\ UNCHANGED <<algorithm, clock, entries, admitted>>

ChooseVictims(t, victims) ==
    /\ VictimsChosen(t, victims)
    /\ UNCHANGED <<algorithm, clock, entries, admitted>>

\* Of whatever entry the key has by now.
RemoveVictim(t, v) ==
    /\ VictimTaken(t, v)
    /\ entries' = Without(entries, v)
    /\ admitted' = [admitted EXCEPT ![v] = <<>>]
    /\ UNCHANGED <<algorithm, clock>>

EndEviction(t) ==
    /\ EvictionEnds(t)
    /\ UNCHANGED <<algorithm, clock, entries, admitted>>

\* TokenBucket's reading is taken under the entry's lock.
Reading(t) == IF algorithm = "token_bucket" THEN clock ELSE seekers[t].now

\* entry().or_insert_with(..) and what follows it, under the shard's lock.
CheckEntered(t) ==
    /\ t \in DOMAIN seekers
    /\ LET k == seekers[t].key
           got == Acquired(Entry(k, Reading(t)), Reading(t))
       IN  /\ Entered(t, k \notin DOMAIN entries)
           /\ entries' = With(entries, k, got.entry)
           /\ admitted' = IF got.allowed
                          THEN [admitted EXCEPT ![k] = Append(@, clock)]
                          ELSE admitted
    /\ UNCHANGED <<algorithm, clock>>

-----------------------------------------------------------------------------
\* reset: TokenBucket inserts a full bucket, the others remove the entry.

ResetBucket(k) ==
    /\ algorithm = "token_bucket"
    /\ EnteredUnasked(k \notin DOMAIN entries)
    /\ entries' = With(entries, k, NewBucket(clock))
    /\ admitted' = [admitted EXCEPT ![k] = <<>>]
    /\ UNCHANGED <<algorithm, clock>>

ResetRemoves(k) ==
    /\ algorithm # "token_bucket"
    /\ entries' = Without(entries, k)
    /\ admitted' = [admitted EXCEPT ![k] = <<>>]
    /\ UNCHANGED <<seekers, algorithm, clock>>

-----------------------------------------------------------------------------
\* remaining.  SlidingWindowLog's clean_and_count prunes the log, and makes
\* one for a key that has none; the others only read.

CleanAndCount(k, now) ==
    /\ algorithm = "sliding_window"
    /\ EnteredUnasked(k \notin DOMAIN entries)
    /\ entries' = With(entries, k, Pruned(Entry(k, now), now - Window))
    /\ UNCHANGED <<algorithm, clock, admitted>>

BucketRemaining(k) ==
    IF k \in DOMAIN entries THEN entries[k].tokens \div TicksPerToken ELSE Limit

\* An answer that leaves out the stamp exactly one window old, which the
\* check does not prune.
LogRemainingPastEdge(k) ==
    Since(Limit, Len(Pruned(Entry(k, clock), clock - Window + 1)))

\* The answer of a remaining that gets to the entry in no time.
LogRemaining(k) == Since(Limit, Len(Pruned(Entry(k, clock), clock - Window)))

WindowRemaining(k) ==
    IF k \notin DOMAIN entries
       \/ Since(clock, entries[k].window_start) >= Window
    THEN Limit ELSE Since(Limit, entries[k].count)

Remaining(k) ==
    CASE algorithm = "token_bucket"   -> BucketRemaining(k)
      [] algorithm = "sliding_window" -> LogRemaining(k)
      [] algorithm = "fixed_window"   -> WindowRemaining(k)

\* FixedWindow::time_until_reset
TimeUntilReset(k) ==
    IF k \in DOMAIN entries /\ Since(clock, entries[k].window_start) < Window
    THEN Window - Since(clock, entries[k].window_start) ELSE Window

-----------------------------------------------------------------------------
\* Readings a call may hold that took the clock before it got here.
Readings == {now \in 0..clock : clock - now <= MaxStall}

Next ==
    \/ Tick
    \/ \E t \in Thread, k \in Key, now \in Readings : CheckBegin(t, k, now)
    \/ \E t \in Thread, k \in Key : CountShard(t, k) \/ ListShard(t, k)
    \/ \E t \in Thread : DecideRoom(t) \/ EndEviction(t) \/ CheckEntered(t)
    \/ \E t \in Thread, victims \in SUBSET Key : ChooseVictims(t, victims)
    \/ \E t \in Thread, v \in Key : RemoveVictim(t, v)
    \/ \E k \in Key : ResetBucket(k) \/ ResetRemoves(k)
    \/ \E k \in Key, now \in Readings : CleanAndCount(k, now)

Spec == Init /\ [][Next]_vars

-----------------------------------------------------------------------------
\* Type invariant; a log is never over the limit, nor is a count or a bucket.
IsEntry(e) ==
    CASE algorithm = "token_bucket" ->
             e \in [tokens : 0..Full, last_refill : Nat]
      [] algorithm = "sliding_window" ->
             e \in Seq(Nat) /\ Len(e) <= Limit
      [] algorithm = "fixed_window" ->
             e \in [count : 0..Limit, window_start : Nat]

TypeOK ==
    /\ MapTypeOK
    /\ algorithm \in Algorithms
    /\ clock \in Nat
    /\ DOMAIN entries \subseteq Key
    /\ \A k \in DOMAIN entries : IsEntry(entries[k])
    /\ admitted \in [Key -> Seq(Nat)]

\* token_bucket.rs:112, "if this is a new key that would push us over the
\* cap, evict the oldest entry first", as far as it goes: a call that nobody
\* overtakes leaves the map within max_keys, or smaller by a batch less one
\* than it found it; each key that others insert between its look and its
\* entry can cost one entry more.  It is no "Hard cap on retained keys"
\* (token_bucket.rs:58): a race, a reset of an unknown key and a remaining
\* each take the map over it, and only later calls bring it back.
CallsMakeRoom == MakesRoom(DOMAIN entries)

\* May n requests of a key be admitted in a stretch of d ticks?  A TokenBucket
\* keeps its rate over any stretch.  The windows bound a short one, and by it
\* the short ones that a longer one is made of; readings that come late to
\* the entry shorten it by a stall.
Allows(n, d) ==
    CASE algorithm = "token_bucket"   -> n <= (Full + d) \div TicksPerToken
      [] algorithm = "sliding_window" -> d <= Window - MaxStall => n <= Limit
      [] algorithm = "fixed_window"   -> d < Window - MaxStall => n <= 2 * Limit

\* Between a key's evictions and resets, no stretch of time sees more of its
\* requests admitted than the algorithm allows, whatever threads race for
\* the entry.  A TokenBucket, which reads the clock under the lock, keeps
\* its rate exactly: MemoryStore's does not.
LimitKept ==
    \A k \in Key : \A i, j \in 1..Len(admitted[k]) :
        i <= j => Allows(j - i + 1, admitted[k][j] - admitted[k][i])

\* mod.rs:36, "Evict the batch least-recently-active entries": although the
\* list is old by the time an entry is removed, fewer than a batch of the
\* entries left have been idle for longer, by more than two stalls, than the
\* victim, unless it was used since it was listed.
ActiveSpared ==
    [][\A t \in DOMAIN seekers, v \in DOMAIN entries :
          (RemoveVictim(t, v)
              /\ Stamp(entries[v]) = seekers[t].stamps[v]) =>
          Cardinality({k \in DOMAIN entries' :
              /\ Stamp(entries[k]) # None
              /\ Stamp(entries[k]) < Stamp(entries[v]) - 2 * MaxStall})
                  < BatchSize]_vars

\* remaining promises nothing that is not there: what it reports above zero,
\* a check at the same instant admits.  And who waits out time_until_reset is
\* admitted, unless others came first.
AnswersHold ==
    \A k \in DOMAIN entries :
        /\ Remaining(k) > 0 => Acquired(entries[k], clock).allowed
        /\ algorithm = "fixed_window" =>
               Acquired(entries[k], clock + TimeUntilReset(k)).allowed
=============================================================================
