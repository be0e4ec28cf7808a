---------------------------- MODULE CleanupPass ----------------------------
(***************************************************************************)
(* One pass of MemoryStore::cleanup over one of the store's DashMaps.      *)
(*                                                                         *)
(* The pass reads the clock once, `retain`s the entries that are not idle  *)
(* and then, in cap_token_buckets / cap_sliding_logs / cap_fixed_windows,  *)
(* reads the map's length, lists the entries with their time stamps, sorts *)
(* them and removes the oldest ones.  DashMap locks one shard at a time,   *)
(* so checks and resets run between any two of these reads and removals;   *)
(* here every key is a shard of its own, the finest grain a map can have,  *)
(* and shards are visited in any order (the order of the hashes).          *)
(*                                                                         *)
(* The module holds the state of the pass only.  A module that EXTENDS it  *)
(* owns the map: it conjoins each step below with what the step does to    *)
(* the map's entry of that key.                                            *)
(***************************************************************************)
EXTENDS Integers, FiniteSets

CONSTANTS
    Key,          \* the rate-limit keys
    IdleTTL,      \* MemoryStore.idle_ttl, in ticks
    MaxKeys,      \* MemoryStore.max_keys (None is any number >= |Key|)
    MaxInserted   \* bound: the history variable `inserted` saturates here

ASSUME CleanupAssumption ==
    /\ IdleTTL \in Nat
    /\ MaxKeys \in Nat
    /\ MaxInserted \in Nat

VARIABLES
    cleaner,      \* the pass: its phase and its local variables
    inserted      \* history: entries inserted since the last cap began

passVars == <<cleaner, inserted>>

-----------------------------------------------------------------------------
\* Partial maps: the DashMaps, and the list of stamps of a pass.

IsPartialMap(f, S, T) == \E D \in SUBSET S : f \in [D -> T]

With(f, k, v) == [x \in DOMAIN f \cup {k} |-> IF x = k THEN v ELSE f[x]]

Without(f, k) == [x \in DOMAIN f \ {k} |-> f[x]]

NoStamps == [k \in {} |-> 0]

\* Instant::saturating_duration_since, and Instant::duration_since of the
\* library versions this crate builds with, which saturates as well.
Since(later, earlier) == IF later >= earlier THEN later - earlier ELSE 0

-----------------------------------------------------------------------------
\* The phases: "retain" visits the shards of `retain`; "len" those of the
\* map's len(); "scan" those of iter(); "evict" removes count - MaxKeys of
\* the entries listed in stamps.

Resting == [phase |-> "off", now |-> 0, unseen |-> {}, count |-> 0,
            stamps |-> NoStamps]

PassInit ==
    /\ cleaner = Resting
    /\ inserted = 0

IsPass(c) ==
    /\ c \in [phase  : {"off", "retain", "len", "scan", "evict"},
              now    : Nat,
              unseen : SUBSET Key,
              count  : Nat,
              stamps : {c.stamps}]
    /\ IsPartialMap(c.stamps, Key, Nat)

PassTypeOK ==
    /\ IsPass(cleaner)
    /\ inserted \in 0..MaxInserted

\* let now = Instant::now()
CleanupBegin(now) ==
    /\ cleaner.phase = "off"
    /\ cleaner' = [Resting EXCEPT !.phase = "retain", !.now = now,
                                  !.unseen = Key]
    /\ UNCHANGED inserted

\* A pass that takes an entry one tick short of the TTL.
IsIdleEarly(last) == Since(cleaner.now, last) + 1 >= IdleTTL

\* A pass that finds nothing idle: buckets refill, and none is ever dropped.
IsIdleNever(last) == FALSE

\* |last| now.saturating_duration_since(last) >= self.idle_ttl
IsIdle(last) == Since(cleaner.now, last) >= IdleTTL

Visit(k, phase) == cleaner.phase = phase /\ k \in cleaner.unseen

ShardRetained(k) ==
    /\ Visit(k, "retain")
    /\ cleaner' = [cleaner EXCEPT !.unseen = @ \ {k}]

\* The map has been retained: `if let Some(max)`, and len() begins.
CapBegin ==
    /\ cleaner.phase = "retain" /\ cleaner.unseen = {}
    /\ cleaner' = [cleaner EXCEPT !.phase = "len", !.unseen = Key]
    /\ inserted' = 0

ShardCounted(k, present) ==
    /\ Visit(k, "len")
    /\ cleaner' = [cleaner EXCEPT !.unseen = @ \ {k},
                                  !.count = IF present THEN @ + 1 ELSE @]

\* A cap that lets one entry too many stay.
CapDecideOneMore ==
    /\ cleaner.phase = "len" /\ cleaner.unseen = {}
    /\ cleaner' = IF cleaner.count <= MaxKeys + 1
                  THEN Resting
                  ELSE [cleaner EXCEPT !.phase = "scan", !.unseen = Key]
    /\ UNCHANGED inserted

\* if len <= max { return; }
CapDecide ==
    /\ cleaner.phase = "len" /\ cleaner.unseen = {}
    /\ cleaner' = IF cleaner.count <= MaxKeys
                  THEN Resting
                  ELSE [cleaner EXCEPT !.phase = "scan", !.unseen = Key]
    /\ UNCHANGED inserted

ShardListed(k, listed, stamp) ==
    /\ Visit(k, "scan")
    /\ cleaner' = [cleaner EXCEPT
                      !.unseen = @ \ {k},
                      !.stamps = IF listed THEN With(@, k, stamp) ELSE @]

\* entries.sort_by_key(..): the list is complete, the removals begin.
CapSort ==
    /\ cleaner.phase = "scan" /\ cleaner.unseen = {}
    /\ cleaner' = [cleaner EXCEPT !.phase = "evict"]
    /\ UNCHANGED inserted

Oldest(k) ==
    /\ k \in DOMAIN cleaner.stamps
    /\ \A x \in DOMAIN cleaner.stamps : cleaner.stamps[k] <= cleaner.stamps[x]

\* for (key, _) in entries.into_iter().take(len - max): one removal, of the
\* oldest entry left in the list (of any of them when stamps tie).
VictimTaken(k) ==
    /\ cleaner.phase = "evict" /\ cleaner.count > MaxKeys
    /\ Oldest(k)
    /\ cleaner' = [cleaner EXCEPT !.count = @ - 1, !.stamps = Without(@, k)]

CleanupEnd ==
    /\ cleaner.phase = "evict"
    /\ cleaner.count <= MaxKeys \/ DOMAIN cleaner.stamps = {}
    /\ cleaner' = Resting
    /\ UNCHANGED inserted

\* The map's owner inserts an entry that was not there.
Inserted(isNew) ==
    inserted' = IF isNew /\ inserted < MaxInserted
                THEN inserted + 1 ELSE inserted

-----------------------------------------------------------------------------
\* What a pass promises of a map whose entries are `live`: outside its cap
\* the map holds no more than max_keys entries and those inserted since the
\* cap of the last pass began.
WithinCap(live) ==
    cleaner.phase \in {"off", "retain"} /\ inserted < MaxInserted
        => Cardinality(live) <= MaxKeys + inserted
=============================================================================
