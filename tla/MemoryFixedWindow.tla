------------------------- MODULE MemoryFixedWindow -------------------------
(***************************************************************************)
(* The fixed windows of MemoryStore, and the answer RateLimiter gives from *)
(* them: fixed_window_check called by several threads, reset, the cleanup  *)
(* pass on the map fixed_windows, and check_fixed_window's retry_after.    *)
(*                                                                         *)
(* A key's window starts at the first check that finds none, not at a      *)
(* multiple of its length; RateLimiter computes the time of the roll-over  *)
(* from the wall clock, as if it did.                                      *)
(***************************************************************************)
EXTENDS CleanupPass, Sequences

CONSTANTS
    Thread,        \* tasks of the runtime that run checks in parallel
    MaxRequests,   \* RateLimitAlgorithm::FixedWindow.max_requests
    Window,        \* its window, in ticks
    WallOffset,    \* SystemTime::now() when the monotonic clock shows 0
    MaxClock,      \* bound: the last tick
    MaxStall       \* longest time from a check's clock reading to its lock

ASSUME FixedAssumption ==
    /\ MaxRequests \in Nat \ {0}
    /\ Window \in Nat \ {0}
    /\ WallOffset \in Nat
    /\ MaxClock \in Nat
    /\ MaxStall \in Nat

VARIABLES
    clock,      \* the monotonic clock behind Instant::now()
    windows,    \* MemoryStore.fixed_windows
    call,       \* checks that have read the clock and wait for the shard
    retryAt,    \* when the client of a key was last told to come back
    admitted    \* history: when each key's requests were admitted, since
                \* it was last reset or evicted by the cap

vars == <<cleaner, inserted, clock, windows, call, retryAt, admitted>>

Call == [key : Key, now : Nat]

FixedWindow == [count : 0..MaxRequests, window_start : Nat]

\* No denial is outstanding for the key.
NotTold == 0

\* The number of admissions no more than `age` ticks old.
Within(times, age, at) ==
    Cardinality({i \in DOMAIN times : at - times[i] <= age})

Init ==
    /\ PassInit
    /\ clock = 0
    /\ windows = [k \in {} |-> {}]
    /\ call = [t \in {} |-> {}]
    /\ retryAt = [k \in Key |-> NotTold]
    /\ admitted = [k \in Key |-> <<>>]

Tick ==
    /\ clock < MaxClock
    /\ \A t \in DOMAIN call : clock - call[t].now < MaxStall
    /\ clock' = clock + 1
    /\ UNCHANGED <<cleaner, inserted, windows, call, retryAt, admitted>>

-----------------------------------------------------------------------------
\* fixed_window_check, and check_fixed_window around it

\* let now = Instant::now()
CheckBegin(t, k) ==
    /\ t \notin DOMAIN call
    /\ call' = With(call, t, [key |-> k, now |-> clock])
    /\ UNCHANGED <<cleaner, inserted, clock, windows, retryAt, admitted>>

\* self.fixed_windows.entry(key).or_insert_with(..)
Entry(k, now) ==
    IF k \in DOMAIN windows THEN windows[k]
                            ELSE [count |-> 0, window_start |-> now]

\* The roll-over with one of its two assignments missing.
RolledKeepingStart(entry, now) ==
    IF Since(now, entry.window_start) >= Window
    THEN [entry EXCEPT !.count = 0]
    ELSE entry

RolledKeepingCount(entry, now) ==
    IF Since(now, entry.window_start) >= Window
    THEN [entry EXCEPT !.window_start = now]
    ELSE entry

\* if elapsed >= window { entry.count = 0; entry.window_start = now }
Rolled(entry, now) ==
    IF Since(now, entry.window_start) >= Window
    THEN [count |-> 0, window_start |-> now]
    ELSE entry

\* reset_at - now: time to the next multiple of the window, by the wall clock
RetryAfter(at) ==
    LET now == at + WallOffset
    IN  ((now \div Window) + 1) * Window - now

\* The comparison off by one.
AdmitsOneMore(entry) == entry.count <= MaxRequests

\* entry.count < max_requests
Admits(entry) == entry.count < MaxRequests

CheckLocked(t) ==
    /\ t \in DOMAIN call
    /\ LET k     == call[t].key
           entry == Rolled(Entry(k, call[t].now), call[t].now)
       IN  /\ IF Admits(entry)
              THEN /\ windows' = With(windows, k, [entry EXCEPT !.count = @ + 1])
                   /\ admitted' = [admitted EXCEPT ![k] = Append(@, clock)]
                   /\ retryAt' = [retryAt EXCEPT ![k] = NotTold]
              ELSE /\ windows' = With(windows, k, entry)
                   /\ retryAt' = [retryAt EXCEPT ![k] = clock + RetryAfter(clock)]
                   /\ UNCHANGED admitted
           /\ Inserted(k \notin DOMAIN windows)
    /\ call' = Without(call, t)
    /\ UNCHANGED <<cleaner, clock>>

-----------------------------------------------------------------------------
\* reset

Forgotten(k) ==
    /\ windows' = Without(windows, k)
    /\ admitted' = [admitted EXCEPT ![k] = <<>>]
    /\ retryAt' = [retryAt EXCEPT ![k] = NotTold]

Reset(k) ==
    /\ k \in DOMAIN windows
    /\ Forgotten(k)
    /\ UNCHANGED <<cleaner, inserted, clock, call>>

-----------------------------------------------------------------------------
\* cleanup

BeginCleanup ==
    /\ CleanupBegin(clock)
    /\ UNCHANGED <<clock, windows, call, retryAt, admitted>>

\* is_idle(state.window_start)
Doomed(k) == k \in DOMAIN windows /\ IsIdle(windows[k].window_start)

RetainShard(k) ==
    /\ ShardRetained(k)
    /\ windows' = IF Doomed(k) THEN Without(windows, k) ELSE windows
    /\ UNCHANGED <<inserted, clock, call, retryAt, admitted>>

BeginCap ==
    /\ CapBegin
    /\ UNCHANGED <<clock, windows, call, retryAt, admitted>>

CountShard(k) ==
    /\ ShardCounted(k, k \in DOMAIN windows)
    /\ UNCHANGED <<inserted, clock, windows, call, retryAt, admitted>>

DecideCap ==
    /\ CapDecide
    /\ UNCHANGED <<clock, windows, call, retryAt, admitted>>

ListShard(k) ==
    /\ IF k \in DOMAIN windows THEN ShardListed(k, TRUE, windows[k].window_start)
                               ELSE ShardListed(k, FALSE, 0)
    /\ UNCHANGED <<inserted, clock, windows, call, retryAt, admitted>>

SortStamps ==
    /\ CapSort
    /\ UNCHANGED <<clock, windows, call, retryAt, admitted>>

RemoveVictim(k) ==
    /\ VictimTaken(k)
    /\ IF k \in DOMAIN windows THEN Forgotten(k)
                               ELSE UNCHANGED <<windows, retryAt, admitted>>
    /\ UNCHANGED <<inserted, clock, call>>

EndCleanup ==
    /\ CleanupEnd
    /\ UNCHANGED <<clock, windows, call, retryAt, admitted>>

Cleanup ==
    \/ BeginCleanup
    \/ \E k \in Key : RetainShard(k)
    \/ BeginCap
    \/ \E k \in Key : CountShard(k)
    \/ DecideCap
    \/ \E k \in Key : ListShard(k)
    \/ SortStamps
    \/ \E k \in Key : RemoveVictim(k)
    \/ EndCleanup

-----------------------------------------------------------------------------
Next ==
    \/ Tick
    \/ \E t \in Thread, k \in Key : CheckBegin(t, k)
    \/ \E t \in Thread : CheckLocked(t)
    \/ \E k \in Key : Reset(k)
    \/ Cleanup

Spec == Init /\ [][Next]_vars

-----------------------------------------------------------------------------
\* Type invariant.
TypeOK ==
    /\ PassTypeOK
    /\ clock \in 0..MaxClock
    /\ IsPartialMap(windows, Key, FixedWindow)
    /\ IsPartialMap(call, Thread, Call)
    /\ admitted \in [Key -> Seq(Nat)]
    /\ retryAt \in [Key -> Nat]

\* fixed_window.rs:17, "effectively doubling their rate": doubling at the
\* boundary of two windows, and no more.  No stretch of time that is shorter
\* than the window less the longest stall meets three windows, whatever was
\* reordered on the way to the lock and whatever retain evicted, if
\* idle_ttl is at least the window.
AtMostDoubled ==
    IdleTTL >= Window =>
        \A k \in Key :
            Within(admitted[k], Window - MaxStall - 1, clock) <= 2 * MaxRequests

\* A window admits max_requests requests and never more: the requests that
\* the current window counts are exactly those admitted since it started,
\* late ones excepted, and a request is denied only when they are all used.
DenialJustified ==
    [][\A t \in DOMAIN call :
          CheckLocked(t) /\ UNCHANGED admitted =>
              Within(admitted[call[t].key], Window + MaxStall, clock)
                  >= MaxRequests]_vars

\* memory.rs:15, "Entries whose most recent activity is older than this are
\* dropped": a key whose request was admitted within idle_ttl of the pass's
\* reading is not idle, and keeps its window.
ActiveKeyKept ==
    [][\A k \in Key :
          RetainShard(k) /\ k \in DOMAIN windows /\ k \notin DOMAIN windows' =>
              \A i \in 1..Len(admitted[k]) :
                  Since(cleaner.now, admitted[k][i]) >= IdleTTL]_vars

\* lib.rs:403, "Time until the current window rolls over": when the time a
\* denied client was told to wait is over, its window has rolled.
RetryAfterRolls ==
    \A k \in DOMAIN windows :
        retryAt[k] # NotTold => windows[k].window_start + Window <= retryAt[k]

\* cleanup keeps the map within max_keys, but for the entries inserted since
\* the cap of its last pass began (memory.rs:402).
CapRestored == WithinCap(DOMAIN windows)
=============================================================================
