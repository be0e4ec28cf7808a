---------------------------- MODULE BoundedKeyMap ----------------------------
(***************************************************************************)
(* The way a standalone algorithm (src/algorithms) makes room for a key it *)
(* does not know before it inserts it: try_acquire asks contains_key, then *)
(* len, and when the map is full evict_oldest_batch lists the map and      *)
(* removes the entries that have been idle longest.                        *)
(*                                                                         *)
(* A thread locks one shard of the DashMap at a time, so other threads run *)
(* between any two of these reads and removals.  Every key is a shard of   *)
(* its own, and shards are visited in the order of their index, as iter()  *)
(* and len() do; which key has which index is up to the hashes.            *)
(*                                                                         *)
(* The module holds the threads that are under way.  A module that EXTENDS *)
(* it owns the map: it conjoins each step below with what the step reads   *)
(* of the map and does to it.                                              *)
(***************************************************************************)
EXTENDS Integers, FiniteSets

CONSTANTS
    Key,           \* the rate-limit keys, each named by its shard's index
    Thread,        \* threads that call one limiter
    MaxKeys,       \* max_keys
    BatchDivisor,  \* EVICTION_BATCH_DIVISOR
    MaxOvertaken   \* bound: the history field `overtaken` saturates here

ASSUME MapAssumption ==
    /\ Key \subseteq Nat
    /\ MaxKeys \in Nat \ {0}
    /\ BatchDivisor \in Nat \ {0}
    /\ MaxOvertaken \in Nat

VARIABLE
    seekers      \* the calls of try_acquire under way, and their locals

-----------------------------------------------------------------------------
IsPartialMap(f, S, T) == \E D \in SUBSET S : f \in [D -> T]

With(f, k, v) == [x \in DOMAIN f \cup {k} |-> IF x = k THEN v ELSE f[x]]

Without(f, k) == [x \in DOMAIN f \ {k} |-> f[x]]

NoStamps == [k \in {} |-> 0]

\* An entry that yields no time stamp (`None` sorts before every `Some`).
None == -1

\* (max_keys / EVICTION_BATCH_DIVISOR).max(1)
BatchSize == IF MaxKeys \div BatchDivisor >= 1 THEN MaxKeys \div BatchDivisor
                                               ELSE 1

-----------------------------------------------------------------------------
\* The phases of a call: "len" visits the shards of len(), "scan" those of
\* iter(), "evict" removes the victims; "enter" has only entry() to go.  Two
\* fields are history: `overtaken` counts the keys that others have inserted
\* since this call began to look, and `room` is the size of the map that the
\* call would leave, its own key included, if nobody did.

Greater(a, b) == IF a >= b THEN a ELSE b

\* The room a call owes to a map of n entries that finds its key, or not: a
\* known key takes none; a new one keeps to the cap, or if the map is beyond
\* it already, makes it smaller by a batch less the one key.
RoomOwed(n, known) ==
    IF known THEN n ELSE Greater(MaxKeys, n + 1 - BatchSize)

Seeking(k, now, live) ==
    [key |-> k, now |-> now, phase |-> IF k \in live THEN "enter" ELSE "len",
     unseen |-> IF k \in live THEN {} ELSE Key, count |-> 0,
     stamps |-> NoStamps, victims |-> {},
     room |-> RoomOwed(Cardinality(live), k \in live), overtaken |-> 0]

MapInit == seekers = [t \in {} |-> {}]

IsSeeker(s) ==
    /\ s \in [key : Key, now : Nat, phase : {"len", "scan", "evict", "enter"},
              unseen : SUBSET Key, count : Nat, stamps : {s.stamps},
              victims : SUBSET Key, room : Nat, overtaken : 0..MaxOvertaken]
    /\ IsPartialMap(s.stamps, Key, Nat \cup {None})
    /\ s.victims \subseteq DOMAIN s.stamps

MapTypeOK ==
    /\ DOMAIN seekers \subseteq Thread
    /\ \A t \in DOMAIN seekers : IsSeeker(seekers[t])

\* if !contains_key(key) && ..: a known key needs no room.
Look(t, k, now, live) ==
    /\ t \notin DOMAIN seekers
    /\ seekers' = With(seekers, t, Seeking(k, now, live))

Visits(t, k, phase) ==
    /\ t \in DOMAIN seekers /\ seekers[t].phase = phase
    /\ k \in seekers[t].unseen
    /\ \A x \in seekers[t].unseen : k <= x

Visited(t, phase) ==
    /\ t \in DOMAIN seekers /\ seekers[t].phase = phase
    /\ seekers[t].unseen = {}

ShardCounted(t, k, present) ==
    /\ Visits(t, k, "len")
    /\ seekers' = [seekers EXCEPT
                      ![t].unseen = @ \ {k},
                      ![t].count = IF present THEN @ + 1 ELSE @]

\* A test that lets the map grow one past its cap.
DecideOneMore(t) ==
    /\ Visited(t, "len")
    /\ seekers' = [seekers EXCEPT
                      ![t].unseen = IF seekers[t].count > MaxKeys
                                    THEN Key ELSE {},
                      ![t].count = 0,
                      ![t].phase = IF seekers[t].count > MaxKeys
                                   THEN "scan" ELSE "enter"]

\* .. && self.len() >= self.max_keys
Decide(t) ==
    /\ Visited(t, "len")
    /\ seekers' = [seekers EXCEPT
                      ![t].unseen = IF seekers[t].count >= MaxKeys
                                    THEN Key ELSE {},
                      ![t].count = 0,
                      ![t].phase = IF seekers[t].count >= MaxKeys
                                   THEN "scan" ELSE "enter"]

ShardListed(t, k, present, stamp) ==
    /\ Visits(t, k, "scan")
    /\ seekers' = [seekers EXCEPT
                      ![t].unseen = @ \ {k},
                      ![t].stamps = IF present THEN With(@, k, stamp) ELSE @]

\* A selection from the wrong end.
IsNewestBatch(stamps, victims) ==
    /\ \/ Cardinality(victims) = BatchSize
       \/ Cardinality(victims) < BatchSize /\ victims = DOMAIN stamps
    /\ \A v \in victims, x \in DOMAIN stamps \ victims : stamps[v] >= stamps[x]

\* select_nth_unstable_by_key(batch - 1, ..), take(batch): all of a list no
\* longer than the batch; of a longer one as many as that, none of them
\* younger than an entry that is left.  Ties go either way.
IsOldestBatch(stamps, victims) ==
    /\ \/ Cardinality(victims) = BatchSize
       \/ Cardinality(victims) < BatchSize /\ victims = DOMAIN stamps
    /\ \A v \in victims, x \in DOMAIN stamps \ victims : stamps[v] <= stamps[x]

VictimsChosen(t, victims) ==
    /\ Visited(t, "scan")
    /\ victims \subseteq DOMAIN seekers[t].stamps
    /\ IsOldestBatch(seekers[t].stamps, victims)
    /\ seekers' = [seekers EXCEPT ![t].phase = "evict",
                                  ![t].victims = victims]

\* map.remove(&key), in the order selection left them.
VictimTaken(t, v) ==
    /\ t \in DOMAIN seekers /\ seekers[t].phase = "evict"
    /\ v \in seekers[t].victims
    /\ seekers' = [seekers EXCEPT ![t].victims = @ \ {v}]

EvictionEnds(t) ==
    /\ t \in DOMAIN seekers /\ seekers[t].phase = "evict"
    /\ seekers[t].victims = {}
    /\ seekers' = [seekers EXCEPT ![t].phase = "enter",
                                  ![t].stamps = NoStamps]

\* What the insertion of a key, if isNew, means to the calls in s that go on.
Overtaken(s, isNew) ==
    [t \in DOMAIN s |->
        [s[t] EXCEPT !.overtaken =
            IF isNew /\ @ < MaxOvertaken THEN @ + 1 ELSE @]]

Entered(t, isNew) ==
    /\ t \in DOMAIN seekers /\ seekers[t].phase = "enter"
    /\ seekers' = Overtaken(Without(seekers, t), isNew)

\* A key inserted by a call that does not look for room at all.
EnteredUnasked(isNew) == seekers' = Overtaken(seekers, isNew)

-----------------------------------------------------------------------------
\* What this promises of a map whose entries are `live`: whoever lists and
\* removes at the same time, every call leaves the room it owes, but for one
\* entry for each that others inserted while it looked.
MakesRoom(live) ==
    \A t \in DOMAIN seekers :
        LET s == seekers[t]
        IN  s.phase = "enter" /\ s.overtaken < MaxOvertaken =>
                Cardinality(live \cup {s.key}) <= s.room + s.overtaken
=============================================================================
