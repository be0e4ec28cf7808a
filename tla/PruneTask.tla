----------------------------- MODULE PruneTask -----------------------------
(***************************************************************************)
(* The background task of a RateLimiter that calls store.cleanup() every   *)
(* prune interval, and the drop of its handle, which notifies the task and *)
(* then aborts it.                                                         *)
(*                                                                         *)
(* The task runs in polls: a worker of the runtime polls it when it has    *)
(* been woken, and user code runs until an await parks it.  Two facts of   *)
(* the runtime decide what a drop does.  notify_waiters reaches only the   *)
(* Notified future of a select! that is waiting: none exists while the     *)
(* handler of the other branch runs cleanup.  And an abort takes effect    *)
(* when no worker is polling the task: at the end of the poll under way,   *)
(* or in place of the next one.                                            *)
(*                                                                         *)
(* MemoryStore::cleanup awaits nothing, so it runs in one poll; another    *)
(* RateLimitStore may park in it, for as long as it likes.  The store is   *)
(* represented by how long each of its entries has been idle.              *)
(***************************************************************************)
EXTENDS Integers

CONSTANTS
    Key,        \* the rate-limit keys
    IdleTTL,    \* MemoryStore.idle_ttl, in ticks
    Interval,   \* DEFAULT_PRUNE_INTERVAL, in ticks
    MaxDelay    \* longest a woken task takes to be polled and to park again

ASSUME PruneAssumption ==
    /\ IdleTTL \in Nat \ {0}
    /\ Interval \in Nat \ {0}
    /\ MaxDelay \in Nat
    /\ MaxDelay < Interval   \* the interval is a minute
    /\ MaxDelay < IdleTTL

VARIABLES
    limiter,       \* the owner of the handle
    awaits,        \* does this store's cleanup await?
    task,          \* the task: its phase and what the runtime keeps about it
    idle,          \* the store: ticks since each key's entry was last used
    lateCleanups   \* history: cleanups begun since the handle was dropped

pruneVars == <<limiter, awaits, task, idle, lateCleanups>>

\* Ages saturate here, one above what RetentionBounded allows.
MaxIdle == IdleTTL + Interval + MaxDelay

NoEntries == [k \in {} |-> 0]

Spawned == [phase |-> "spawned", polled |-> FALSE, wait |-> 0, lag |-> 0,
            notified |-> FALSE, aborted |-> FALSE, unswept |-> {}, read |-> 0]

\* A limiter made within a runtime, as build makes it.  One that new makes
\* outside has no task, and its store is never pruned (lib.rs:245).
PruneInit ==
    /\ limiter = "alive"
    /\ awaits \in BOOLEAN
    /\ task = Spawned
    /\ idle = NoEntries
    /\ lateCleanups = 0

-----------------------------------------------------------------------------
\* Time

AtSelect == task.phase = "selecting"

\* The task has been woken: it is new, its ticker is due, it was notified or
\* aborted, or what its store awaits is there (which can be at any time).
Woken ==
    \/ task.phase = "spawned"
    \/ AtSelect /\ (task.wait = 0 \/ task.notified)
    \/ task.aborted
    \/ task.phase = "cleaning" /\ awaits

\* A worker is on the task, or owes it a poll.  What a store that awaits takes
\* is its own time.
Owed == task.polled \/ (Woken /\ task.phase # "cleaning")

Countdown(n) == IF n > 0 THEN n - 1 ELSE 0

Tick ==
    /\ task.phase # "stopped"
    /\ Owed => task.lag < MaxDelay
    /\ task' = [task EXCEPT !.wait = Countdown(@),
                            !.lag = IF Owed THEN @ + 1 ELSE 0,
                            !.read = IF task.phase = "cleaning" /\ @ < MaxIdle
                                     THEN @ + 1 ELSE @]
    /\ idle' = [k \in DOMAIN idle |-> IF idle[k] < MaxIdle THEN idle[k] + 1
                                                           ELSE MaxIdle]
    /\ UNCHANGED <<limiter, awaits, lateCleanups>>

\* A check on the key, by any request the limiter serves.
Use(k) ==
    /\ limiter = "alive"
    /\ idle' = [x \in DOMAIN idle \cup {k} |-> IF x = k THEN 0 ELSE idle[x]]
    /\ UNCHANGED <<limiter, awaits, task, lateCleanups>>

-----------------------------------------------------------------------------
\* The task

\* A worker takes the woken task up: an aborted one is cancelled instead.
Poll ==
    /\ Woken /\ ~ task.polled /\ task.phase # "stopped"
    /\ task' = IF task.aborted
               THEN [task EXCEPT !.phase = "stopped"]
               ELSE [task EXCEPT !.polled = TRUE]
    /\ UNCHANGED <<limiter, awaits, idle, lateCleanups>>

\* An await that is not ready ends the poll, and an abort takes effect.
Parked ==
    [task EXCEPT !.polled = FALSE, !.lag = 0,
                 !.phase = IF task.aborted THEN "stopped" ELSE @]

\* interval(..); set_missed_tick_behavior(..); tick().await, which is ready
FirstTick ==
    /\ task.polled /\ task.phase = "spawned"
    /\ task' = [task EXCEPT !.phase = "selecting", !.wait = Interval]
    /\ UNCHANGED <<limiter, awaits, idle, lateCleanups>>

\* The interval counted from the end of the tick that fired.
NextTickLater == Interval + 1

\* The next tick when one fires: a late one delays those that follow.
NextTick == Interval

\* _ = ticker.tick(): the other branch's future is dropped, and with it any
\* notification it holds; cleanup reads the clock.
TickerFires ==
    /\ task.polled /\ AtSelect /\ task.wait = 0
    /\ task' = [task EXCEPT !.phase = "cleaning", !.wait = NextTick,
                            !.notified = FALSE, !.unswept = Key, !.read = 0]
    /\ lateCleanups' = IF limiter = "dropped" /\ lateCleanups < 2
                       THEN lateCleanups + 1 ELSE lateCleanups
    /\ UNCHANGED <<limiter, awaits, idle>>

\* _ = task_shutdown.notified() => break
NotifiedStops ==
    /\ task.polled /\ AtSelect /\ task.notified
    /\ task' = [task EXCEPT !.phase = "stopped", !.polled = FALSE]
    /\ UNCHANGED <<limiter, awaits, idle, lateCleanups>>

\* Neither branch of the select! is ready.
SelectParks ==
    /\ task.polled /\ AtSelect
    /\ task.wait > 0 /\ ~ task.notified
    /\ task' = Parked
    /\ UNCHANGED <<limiter, awaits, idle, lateCleanups>>

\* The idle test of a pass that spares the entries exactly at the TTL.
AgeReadLess(k) == idle[k] - task.read - 1

\* The entry's age when the pass read the clock.
AgeRead(k) == idle[k] - task.read

\* retain's closure on one entry.
Sweep(k) ==
    /\ task.polled /\ task.phase = "cleaning" /\ k \in task.unswept
    /\ idle' = IF k \in DOMAIN idle /\ AgeRead(k) >= IdleTTL
               THEN [x \in DOMAIN idle \ {k} |-> idle[x]]
               ELSE idle
    /\ task' = [task EXCEPT !.unswept = @ \ {k}]
    /\ UNCHANGED <<limiter, awaits, lateCleanups>>

CleanupParks ==
    /\ task.polled /\ task.phase = "cleaning" /\ awaits
    /\ task' = Parked
    /\ UNCHANGED <<limiter, awaits, idle, lateCleanups>>

\* cleanup has returned, or failed with a warning, and the loop goes round.  A
\* store that awaits may fail before its end.
CleanupReturns ==
    /\ task.polled /\ task.phase = "cleaning"
    /\ task.unswept = {} \/ awaits
    /\ task' = [task EXCEPT !.phase = "selecting", !.unswept = {}, !.read = 0]
    /\ UNCHANGED <<limiter, awaits, idle, lateCleanups>>

-----------------------------------------------------------------------------
\* Drop for PruneTask

\* self.shutdown.notify_waiters(): is the task told?  It is when it is parked
\* at the select!; one being polled may not have its Notified future yet.
Told == IF task.polled THEN {FALSE, AtSelect} ELSE {AtSelect}

\* The drop without its abort.
DropNotifies ==
    /\ limiter = "alive"
    /\ limiter' = "dropped"
    /\ \E told \in Told : task' = [task EXCEPT !.notified = told]
    /\ UNCHANGED <<awaits, idle, lateCleanups>>

\* notify_waiters() and abort(), with no await in between.
DropPruneTask ==
    /\ limiter = "alive"
    /\ limiter' = "dropped"
    /\ \E told \in Told :
          task' = [task EXCEPT !.notified = told,
                               !.aborted = task.phase # "stopped"]
    /\ UNCHANGED <<awaits, idle, lateCleanups>>

-----------------------------------------------------------------------------
TaskStep ==
    \/ Poll \/ FirstTick \/ TickerFires \/ NotifiedStops \/ SelectParks
    \/ CleanupParks \/ CleanupReturns
    \/ \E k \in Key : Sweep(k)

PruneNext == Tick \/ TaskStep \/ DropPruneTask \/ \E k \in Key : Use(k)

\* The runtime polls every woken task, and a poll runs on.
PruneSpec == PruneInit /\ [][PruneNext]_pruneVars /\ WF_pruneVars(TaskStep)

-----------------------------------------------------------------------------
\* Type invariant.
PruneTypeOK ==
    /\ limiter \in {"alive", "dropped"}
    /\ awaits \in BOOLEAN
    /\ task \in [phase : {"spawned", "selecting", "cleaning", "stopped"},
                 polled : BOOLEAN, wait : 0..Interval, lag : 0..MaxDelay,
                 notified : BOOLEAN, aborted : BOOLEAN,
                 unswept : SUBSET Key, read : 0..MaxIdle]
    /\ \E K \in SUBSET Key : idle \in [K -> 0..MaxIdle]
    /\ lateCleanups \in 0..2

\* lib.rs:149, "this task must run for the store to stay bounded": while the
\* limiter lives and its cleanup does not await, no entry outlives its last
\* use by more than the TTL, one interval and the scheduling delay.
RetentionBounded ==
    limiter = "alive" /\ ~ awaits =>
        \A k \in DOMAIN idle : idle[k] < IdleTTL + Interval + MaxDelay

\* lib.rs:160, "it never outlives the limiter": whichever step of the task
\* the drop meets, at most one cleanup begins after it.
AtMostOneLate == lateCleanups <= 1

\* lib.rs:204, "abort in case it is currently parked in store.cleanup() and
\* can't observe the notification": a dropped limiter's task stops, even
\* when its store never answers.
StopsAfterDrop == limiter = "dropped" ~> task.phase = "stopped"
=============================================================================
