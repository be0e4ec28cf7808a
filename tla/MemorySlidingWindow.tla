------------------------ MODULE MemorySlidingWindow ------------------------
(***************************************************************************)
(* The sliding window logs of MemoryStore: sliding_window_check called by  *)
(* several threads, reset, remaining, and the cleanup pass on the map      *)
(* sliding_logs.                                                           *)
(*                                                                         *)
(* As for token buckets, a check reads Instant::now() before it locks the  *)
(* key's shard, so a log is not always sorted; the check drops time stamps *)
(* from the front of the log only, and only while they are older than the  *)
(* window.                                                                 *)
(***************************************************************************)
EXTENDS CleanupPass, Sequences

CONSTANTS
    Thread,        \* tasks of the runtime that run checks in parallel
    MaxRequests,   \* RateLimitAlgorithm::SlidingWindowLog.max_requests
    Window,        \* its window, in ticks
    MaxClock,      \* bound: the last tick
    MaxStall       \* longest time from a check's clock reading to its lock

ASSUME SlidingAssumption ==
    /\ MaxRequests \in Nat \ {0}
    /\ Window \in Nat \ {0}
    /\ MaxClock \in Nat
    /\ MaxStall \in Nat

VARIABLES
    clock,      \* the monotonic clock behind Instant::now()
    logs,       \* MemoryStore.sliding_logs: each key's log of time stamps
    call,       \* checks that have read the clock and wait for the shard
    admitted    \* history: when each key's requests were admitted, since
                \* it was last reset or evicted by the cap

vars == <<cleaner, inserted, clock, logs, call, admitted>>

Call == [key : Key, now : Nat]

Init ==
    /\ PassInit
    /\ clock = 0
    /\ logs = [k \in {} |-> <<>>]
    /\ call = [t \in {} |-> {}]
    /\ admitted = [k \in Key |-> <<>>]

\* The number of admissions no more than `age` ticks old.
Within(times, age, at) ==
    Cardinality({i \in DOMAIN times : at - times[i] <= age})

Tick ==
    /\ clock < MaxClock
    /\ \A t \in DOMAIN call : clock - call[t].now < MaxStall
    /\ clock' = clock + 1
    /\ UNCHANGED <<cleaner, inserted, logs, call, admitted>>

-----------------------------------------------------------------------------
\* sliding_window_check

\* let now = Instant::now()
CheckBegin(t, k) ==
    /\ t \notin DOMAIN call
    /\ call' = With(call, t, [key |-> k, now |-> clock])
    /\ UNCHANGED <<cleaner, inserted, clock, logs, admitted>>

\* self.sliding_logs.entry(key).or_default()
Log(k) == IF k \in DOMAIN logs THEN logs[k] ELSE <<>>

\* The log with its old time stamps left in.
Unpruned(log, cutoff) == log

\* while front < cutoff { pop_front }: everything before the first stamp
\* that is not older than the cutoff goes, and nothing after it.
Pruned(log, cutoff) ==
    LET kept == {i \in 1..Len(log) : log[i] >= cutoff}
    IN  IF kept = {} THEN <<>>
        ELSE SubSeq(log, CHOOSE i \in kept : \A j \in kept : i <= j, Len(log))

\* The log a check on k that read `now` finds once it has pruned it.
LiveLog(k, now) == Pruned(Log(k), now - Window)

\* The comparison off by one.
AdmitsOneMore(k, now) == Len(LiveLog(k, now)) <= MaxRequests

\* current_count < max_requests
Admits(k, now) == Len(LiveLog(k, now)) < MaxRequests

CheckLocked(t) ==
    /\ t \in DOMAIN call
    /\ LET k   == call[t].key
           now == call[t].now
           log == LiveLog(k, now)
       IN  /\ IF Admits(k, now)
              THEN /\ logs' = With(logs, k, Append(log, now))
                   /\ admitted' = [admitted EXCEPT ![k] = Append(@, clock)]
              ELSE /\ logs' = With(logs, k, log)
                   /\ UNCHANGED admitted
           /\ Inserted(k \notin DOMAIN logs)
    /\ call' = Without(call, t)
    /\ UNCHANGED <<cleaner, clock>>

\* The answer without its filter: expired stamps count as well.
RemainingUnfiltered(k) ==
    IF k \notin DOMAIN logs THEN 0 ELSE Since(MaxRequests, Len(Log(k)))

\* remaining: max_requests less the stamps inside the window.  The clock is
\* read under the shard's lock.
Remaining(k) ==
    LET live == {i \in 1..Len(Log(k)) : Since(clock, Log(k)[i]) < Window}
    IN  IF k \notin DOMAIN logs THEN 0
        ELSE Since(MaxRequests, Cardinality(live))

-----------------------------------------------------------------------------
\* reset

Reset(k) ==
    /\ k \in DOMAIN logs
    /\ logs' = Without(logs, k)
    /\ admitted' = [admitted EXCEPT ![k] = <<>>]
    /\ UNCHANGED <<cleaner, inserted, clock, call>>

-----------------------------------------------------------------------------
\* cleanup

BeginCleanup ==
    /\ CleanupBegin(clock)
    /\ UNCHANGED <<clock, logs, call, admitted>>

\* log.front(), the oldest stamp
FirstStamp(k) == logs[k][1]

\* The stamp the pass goes by: log.back()
LastStamp(k) == logs[k][Len(logs[k])]

\* Some(last) if idle, or None for an empty log
Doomed(k) == k \in DOMAIN logs /\ (logs[k] = <<>> \/ IsIdle(LastStamp(k)))

RetainShard(k) ==
    /\ ShardRetained(k)
    /\ logs' = IF Doomed(k) THEN Without(logs, k) ELSE logs
    /\ UNCHANGED <<inserted, clock, call, admitted>>

BeginCap ==
    /\ CapBegin
    /\ UNCHANGED <<clock, logs, call, admitted>>

CountShard(k) ==
    /\ ShardCounted(k, k \in DOMAIN logs)
    /\ UNCHANGED <<inserted, clock, logs, call, admitted>>

DecideCap ==
    /\ CapDecide
    /\ UNCHANGED <<clock, logs, call, admitted>>

\* filter_map(.. log.back() ..): an empty log is not listed.
ListShard(k) ==
    /\ IF Log(k) # <<>> THEN ShardListed(k, TRUE, LastStamp(k))
                        ELSE ShardListed(k, FALSE, 0)
    /\ UNCHANGED <<inserted, clock, logs, call, admitted>>

SortStamps ==
    /\ CapSort
    /\ UNCHANGED <<clock, logs, call, admitted>>

RemoveVictim(k) ==
    /\ VictimTaken(k)
    /\ logs' = Without(logs, k)
    /\ admitted' = IF k \in DOMAIN logs THEN [admitted EXCEPT ![k] = <<>>]
                                        ELSE admitted
    /\ UNCHANGED <<inserted, clock, call>>

EndCleanup ==
    /\ CleanupEnd
    /\ UNCHANGED <<clock, logs, call, admitted>>

Cleanup ==
    \/ BeginCleanup
    \/ \E k \in Key : RetainShard(k)
    \/ BeginCap
    \/ \E k \in Key : CountShard(k)
    \/ DecideCap
    \/ \E k \in Key : ListShard(k)
    \/ SortStamps
    \/ \E k \in Key : RemoveVictim(k)
    \/ EndCleanup

-----------------------------------------------------------------------------
Next ==
    \/ Tick
    \/ \E t \in Thread, k \in Key : CheckBegin(t, k)
    \/ \E t \in Thread : CheckLocked(t)
    \/ \E k \in Key : Reset(k)
    \/ Cleanup

Spec == Init /\ [][Next]_vars

-----------------------------------------------------------------------------
\* Type invariant; a log in the map is never empty and never over the limit.
TypeOK ==
    /\ PassTypeOK
    /\ clock \in 0..MaxClock
    /\ IsPartialMap(logs, Key, Seq(Nat))
    /\ \A k \in DOMAIN logs : /\ Len(logs[k]) \in 1..MaxRequests
                              /\ \A i \in 1..Len(logs[k]) :
                                     logs[k][i] <= clock
    /\ IsPartialMap(call, Thread, Call)
    /\ admitted \in [Key -> Seq(Nat)]

\* lib.rs:59, "Best for strict rate limiting": in no stretch of time of the
\* window's length, less the longest stall, are more than max_requests
\* requests of a key admitted, whatever was reordered on the way to the
\* lock and whatever retain evicted, if idle_ttl is longer than the window.
WindowBound ==
    IdleTTL > Window =>
        \A k \in Key :
            Within(admitted[k], Window - MaxStall, clock) <= MaxRequests

\* No request is denied for nothing: when one is, max_requests requests of
\* the key have been admitted within the window and the longest stall.
DenialJustified ==
    [][\A t \in DOMAIN call :
          CheckLocked(t) /\ UNCHANGED admitted =>
              Within(admitted[call[t].key], Window + MaxStall, clock)
                  >= MaxRequests]_vars

\* remaining never hides a request a known key could make now: what the
\* next check would admit, `remaining` shows as at least one.
RemainingShows ==
    \A k \in DOMAIN logs : Admits(k, clock) => Remaining(k) > 0

\* cleanup keeps the map within max_keys, but for the entries inserted since
\* the cap of its last pass began (memory.rs:402).
CapRestored == WithinCap(DOMAIN logs)
=============================================================================
