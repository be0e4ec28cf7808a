------------------------- MODULE CleanupPass_proofs -------------------------
(***************************************************************************)
(* Facts about partial maps, the type of a cleanup pass and the number of  *)
(* entries it leaves: what the proofs about the three maps of MemoryStore  *)
(* share.                                                                  *)
(***************************************************************************)
EXTENDS CleanupPass, FiniteSetTheorems, TLAPS

-----------------------------------------------------------------------------
\* Partial maps.

\* What IsPartialMap says.
LEMMA PartialMapFacts ==
    ASSUME NEW S, NEW T, NEW f, IsPartialMap(f, S, T)
    PROVE  /\ DOMAIN f \subseteq S
           /\ \A x \in DOMAIN f : f[x] \in T
<1>1. PICK D \in SUBSET S : f \in [D -> T]
  BY DEF IsPartialMap
<1>2. QED
  BY <1>1

\* An insertion changes the inserted key and no other.
LEMMA Put ==
    ASSUME NEW S, NEW T, NEW f, IsPartialMap(f, S, T), NEW k \in S, NEW v \in T
    PROVE  /\ IsPartialMap(With(f, k, v), S, T)
           /\ DOMAIN With(f, k, v) = DOMAIN f \cup {k}
           /\ With(f, k, v)[k] = v
           /\ \A x \in DOMAIN f \ {k} : With(f, k, v)[x] = f[x]
<1>1. DOMAIN f \subseteq S /\ \A x \in DOMAIN f : f[x] \in T
  BY PartialMapFacts
<1>2. With(f, k, v) \in [DOMAIN f \cup {k} -> T]
  BY <1>1 DEF With
<1>3. DOMAIN f \cup {k} \in SUBSET S
  BY <1>1
<1>4. QED
  BY <1>2, <1>3 DEF With, IsPartialMap

\* A removal takes the removed key away and changes no other.
LEMMA Removed ==
    ASSUME NEW S, NEW T, NEW f, IsPartialMap(f, S, T), NEW k
    PROVE  /\ IsPartialMap(Without(f, k), S, T)
           /\ DOMAIN Without(f, k) = DOMAIN f \ {k}
           /\ \A x \in DOMAIN f \ {k} : Without(f, k)[x] = f[x]
<1>1. DOMAIN f \subseteq S /\ \A x \in DOMAIN f : f[x] \in T
  BY PartialMapFacts
<1>2. Without(f, k) \in [DOMAIN f \ {k} -> T]
  BY <1>1 DEF Without
<1>3. DOMAIN f \ {k} \in SUBSET S
  BY <1>1
<1>4. QED
  BY <1>2, <1>3 DEF Without, IsPartialMap

-----------------------------------------------------------------------------
\* The pass.

LEMMA RestingType == IsPass(Resting)
<1>1. [k \in {} |-> 0] \in [{} -> Nat]
  OBVIOUS
<1>2. IsPartialMap(NoStamps, Key, Nat)
  BY <1>1 DEF NoStamps, IsPartialMap
<1>3. QED
  BY <1>2 DEF IsPass, Resting

\* A pass begins well typed.
LEMMA PassInitType == PassInit => PassTypeOK
BY RestingType, CleanupAssumption DEF PassInit, PassTypeOK

\* Every step of a pass keeps it well typed: those of the whole map,
LEMMA PassStepType ==
    ASSUME PassTypeOK,
           \/ \E now \in Nat : CleanupBegin(now)
           \/ CapBegin
           \/ CapDecide
           \/ CapSort
           \/ CleanupEnd
    PROVE  PassTypeOK'
<1> USE DEF PassTypeOK
<1>0. 0 \in 0..MaxInserted
  BY CleanupAssumption
<1>1. ASSUME NEW now \in Nat, CleanupBegin(now) PROVE PassTypeOK'
  BY <1>1, RestingType DEF CleanupBegin, IsPass
<1>2. CASE CapBegin
  BY <1>0, <1>2 DEF CapBegin, IsPass
<1>3. CASE CapDecide
  BY <1>3, RestingType DEF CapDecide, IsPass
<1>4. CASE CapSort
  BY <1>4 DEF CapSort, IsPass
<1>5. CASE CleanupEnd
  BY <1>5, RestingType DEF CleanupEnd, IsPass
<1>6. QED
  BY <1>1, <1>2, <1>3, <1>4, <1>5

\* the visit of a shard by retain,
LEMMA ShardRetainedType ==
    ASSUME PassTypeOK, NEW k \in Key, ShardRetained(k), UNCHANGED inserted
    PROVE  PassTypeOK'
BY DEF PassTypeOK, ShardRetained, IsPass

\* by len(),
LEMMA ShardCountedType ==
    ASSUME PassTypeOK, NEW k \in Key, NEW present \in BOOLEAN,
           ShardCounted(k, present), UNCHANGED inserted
    PROVE  PassTypeOK'
<1>1. cleaner.count \in Nat
  BY DEF PassTypeOK, IsPass
<1>2. (IF present THEN cleaner.count + 1 ELSE cleaner.count) \in Nat
  BY <1>1
<1>3. QED
  BY <1>2 DEF PassTypeOK, ShardCounted, IsPass

\* by iter(),
LEMMA ShardListedType ==
    ASSUME PassTypeOK, NEW k \in Key, NEW listed \in BOOLEAN, NEW stamp \in Nat,
           ShardListed(k, listed, stamp), UNCHANGED inserted
    PROVE  PassTypeOK'
<1>1. IsPartialMap(cleaner.stamps, Key, Nat)
  BY DEF PassTypeOK, IsPass
<1>2. IsPartialMap(With(cleaner.stamps, k, stamp), Key, Nat)
  BY <1>1, Put
<1>3. QED
  BY <1>2 DEF PassTypeOK, ShardListed, IsPass

\* and the removal of a victim.
LEMMA VictimTakenType ==
    ASSUME PassTypeOK, NEW k \in Key, VictimTaken(k), UNCHANGED inserted
    PROVE  PassTypeOK'
<1>1. IsPartialMap(cleaner.stamps, Key, Nat)
  BY DEF PassTypeOK, IsPass
<1>2. IsPartialMap(Without(cleaner.stamps, k), Key, Nat)
  BY <1>1, Removed
<1>3. cleaner.count - 1 \in Nat
  <2>1. cleaner.count \in Nat /\ MaxKeys \in Nat
    BY CleanupAssumption DEF PassTypeOK, IsPass
  <2>2. cleaner.count > MaxKeys
    BY DEF VictimTaken
  <2>3. QED
    BY <2>1, <2>2
<1>4. QED
  BY <1>2, <1>3 DEF PassTypeOK, VictimTaken, IsPass

\* So does an insertion into the map.
LEMMA InsertedType ==
    ASSUME PassTypeOK, NEW isNew, Inserted(isNew), UNCHANGED cleaner
    PROVE  PassTypeOK'
BY CleanupAssumption DEF PassTypeOK, Inserted

\* The pass reads the clock when it begins, and never runs ahead of it.
LEMMA PassTimely ==
    ASSUME PassTypeOK, NEW at \in Nat, cleaner.now <= at,
           \/ CleanupBegin(at) \/ CapBegin \/ CapDecide \/ CapSort \/ CleanupEnd
           \/ \E k \in Key : ShardRetained(k) \/ VictimTaken(k)
           \/ \E k, present : ShardCounted(k, present)
           \/ \E k, listed, stamp : ShardListed(k, listed, stamp)
    PROVE  cleaner'.now <= at
<1>1. CASE CleanupBegin(at)
  BY <1>1 DEF CleanupBegin, Resting
<1>2. CASE CapBegin \/ CapSort
  BY <1>2 DEF CapBegin, CapSort, PassTypeOK, IsPass
<1>3. CASE CapDecide \/ CleanupEnd
  <2>1. cleaner' = Resting \/ cleaner'.now = cleaner.now
    BY <1>3 DEF CapDecide, CleanupEnd, PassTypeOK, IsPass
  <2>2. QED
    BY <2>1 DEF Resting
<1>4. ASSUME NEW k \in Key, ShardRetained(k) \/ VictimTaken(k)
      PROVE  cleaner'.now <= at
  BY <1>4 DEF ShardRetained, VictimTaken, PassTypeOK, IsPass
<1>5. ASSUME NEW k, NEW present, ShardCounted(k, present)
      PROVE  cleaner'.now <= at
  BY <1>5 DEF ShardCounted, PassTypeOK, IsPass
<1>6. ASSUME NEW k, NEW listed, NEW stamp, ShardListed(k, listed, stamp)
      PROVE  cleaner'.now <= at
  BY <1>6 DEF ShardListed, PassTypeOK, IsPass
<1>7. QED
  BY <1>1, <1>2, <1>3, <1>4, <1>5, <1>6

-----------------------------------------------------------------------------
\* The number of entries a pass leaves.

\* Sizes of sets: of a part, and of a set with one element more.
LEMMA PartSmaller ==
    ASSUME NEW whole, IsFiniteSet(whole), NEW part, part \subseteq whole
    PROVE  /\ IsFiniteSet(part)
           /\ Cardinality(part) \in Nat
           /\ Cardinality(whole) \in Nat
           /\ Cardinality(part) <= Cardinality(whole)
BY FS_Subset, FS_CardinalityType

LEMMA OneMore ==
    ASSUME NEW old, IsFiniteSet(old), NEW new, NEW k, new \subseteq old \cup {k}
    PROVE  /\ IsFiniteSet(new)
           /\ Cardinality(new) \in Nat
           /\ Cardinality(old) \in Nat
           /\ Cardinality(new) <= Cardinality(old) + 1
<1>1. /\ IsFiniteSet(old \cup {k})
      /\ \/ Cardinality(old \cup {k}) = Cardinality(old)
         \/ Cardinality(old \cup {k}) = Cardinality(old) + 1
  BY FS_AddElement
<1>2. Cardinality(old) \in Nat
  BY FS_CardinalityType
<1>3. /\ IsFiniteSet(new) /\ Cardinality(new) \in Nat
      /\ Cardinality(new) <= Cardinality(old \cup {k})
  BY <1>1, PartSmaller
<1>4. QED
  BY <1>1, <1>2, <1>3

\* Of a set with one element less.
LEMMA OneLess ==
    ASSUME NEW old, IsFiniteSet(old), NEW k \in old
    PROVE  /\ IsFiniteSet(old \ {k})
           /\ Cardinality(old) \in Nat
           /\ Cardinality(old \ {k}) = Cardinality(old) - 1
BY FS_RemoveElement, FS_CardinalityType

\* What a pass c that n entries have been inserted behind knows of the map.
\* The keys seen by len() and still there are the ones counted and some
\* inserted since; iter() lists all of them but the ones inserted since; and
\* each removal takes one off the list, off the map and off the count.
Counted(c, n, live) ==
    LET listed == DOMAIN c.stamps
    IN  /\ c.phase \in {"off", "retain"} => Cardinality(live) <= MaxKeys + n
        /\ c.phase = "len" => Cardinality(live \ c.unseen) <= c.count + n
        /\ c.phase = "scan" =>
              /\ Cardinality(live \cup listed) <= c.count + n
              /\ Cardinality(live \ (c.unseen \cup listed)) <= n
        /\ c.phase = "evict" =>
              /\ Cardinality(live \cup listed) <= c.count + n
              /\ Cardinality(live \ listed) <= n

CapInv(c, n, live) ==
    /\ live \subseteq Key
    /\ IsFiniteSet(live)
    /\ IsFiniteSet(DOMAIN c.stamps)
    /\ c.phase \in {"off", "retain", "len"} => DOMAIN c.stamps = {}
    /\ n < MaxInserted => Counted(c, n, live)

\* The numbers behind CapInv.
LEMMA CountFacts ==
    ASSUME PassTypeOK
    PROVE  /\ cleaner.count \in Nat
           /\ cleaner.unseen \subseteq Key
           /\ cleaner.phase \in {"off", "retain", "len", "scan", "evict"}
           /\ inserted \in Nat
           /\ MaxInserted \in Nat
           /\ MaxKeys \in Nat
BY CleanupAssumption DEF PassTypeOK, IsPass

LEMMA RestingFacts ==
    /\ DOMAIN Resting.stamps = {}
    /\ IsFiniteSet(DOMAIN Resting.stamps)
    /\ Resting.phase = "off"
<1>1. DOMAIN Resting.stamps = {} /\ Resting.phase = "off"
  BY DEF Resting, NoStamps
<1>2. QED
  BY <1>1, FS_EmptySet

\* An empty map is within its cap.
LEMMA CapInit ==
    ASSUME PassInit
    PROVE  CapInv(cleaner, inserted, {})
<1>1. IsFiniteSet({}) /\ Cardinality({}) = 0
  BY FS_EmptySet
<1>2. cleaner = Resting /\ inserted = 0 /\ MaxKeys \in Nat
  BY CleanupAssumption DEF PassInit
<1>3. Counted(Resting, 0, {})
  BY <1>1, <1>2, RestingFacts DEF Counted
<1>4. QED
  BY <1>1, <1>2, <1>3, RestingFacts DEF CapInv

\* The cap speaks of what CapInv counts.
LEMMA CapInvSuffices ==
    ASSUME NEW live, CapInv(cleaner, inserted, live)
    PROVE  WithinCap(live)
BY DEF CapInv, Counted, WithinCap

\* An entry inserted is one inserted behind the pass.
LEMMA CapInserted ==
    ASSUME PassTypeOK, NEW live, CapInv(cleaner, inserted, live), NEW k \in Key,
           Inserted(k \notin live), UNCHANGED cleaner
    PROVE  CapInv(cleaner', inserted', live \cup {k})
<1> DEFINE listed == DOMAIN cleaner.stamps
<1>1. CASE k \in live
  BY <1>1 DEF Inserted
<1>2. CASE k \notin live
  <2>1. /\ live \subseteq Key /\ IsFiniteSet(live) /\ IsFiniteSet(listed)
        /\ cleaner.phase \in {"off", "retain", "len"} => listed = {}
    BY DEF CapInv
  <2>2. IsFiniteSet(live \cup {k})
    BY <2>1, OneMore
  <2>3. ASSUME inserted' < MaxInserted
        PROVE  Counted(cleaner, inserted', live \cup {k})
    <3>1. inserted' = inserted + 1 /\ inserted < MaxInserted
      BY <1>2, <2>3, CountFacts DEF Inserted
    <3>2. Counted(cleaner, inserted, live)
      BY <3>1 DEF CapInv
    <3>3. /\ Cardinality(live \cup {k}) \in Nat
          /\ Cardinality(live) \in Nat
          /\ Cardinality(live \cup {k}) <= Cardinality(live) + 1
      BY <2>1, OneMore
    <3>4. ASSUME NEW big, NEW small, IsFiniteSet(big),
                 small \subseteq big \cup {k}
          PROVE  /\ Cardinality(small) \in Nat
                 /\ Cardinality(big) \in Nat
                 /\ Cardinality(small) <= Cardinality(big) + 1
      BY <3>4, OneMore
    <3>5. ASSUME NEW out
          PROVE  /\ Cardinality((live \cup {k}) \ out) \in Nat
                 /\ Cardinality(live \ out) \in Nat
                 /\ Cardinality((live \cup {k}) \ out)
                      <= Cardinality(live \ out) + 1
      <4>1. IsFiniteSet(live \ out)
        BY <2>1, PartSmaller
      <4>2. (live \cup {k}) \ out \subseteq (live \ out) \cup {k}
        OBVIOUS
      <4>3. QED
        BY <3>4, <4>1, <4>2
    <3>6. /\ Cardinality((live \cup {k}) \cup listed) \in Nat
          /\ Cardinality(live \cup listed) \in Nat
          /\ Cardinality((live \cup {k}) \cup listed)
               <= Cardinality(live \cup listed) + 1
      <4>1. IsFiniteSet(live \cup listed)
        BY <2>1, FS_Union
      <4>2. (live \cup {k}) \cup listed \subseteq (live \cup listed) \cup {k}
        OBVIOUS
      <4>3. QED
        BY <3>4, <4>1, <4>2
    <3>7. CASE cleaner.phase \in {"off", "retain"}
      BY <3>1, <3>2, <3>3, <3>7, CountFacts DEF Counted
    <3>8. CASE cleaner.phase = "len"
      <4>1. Cardinality(live \ cleaner.unseen) <= cleaner.count + inserted
        BY <3>2, <3>8 DEF Counted
      <4>2. /\ Cardinality((live \cup {k}) \ cleaner.unseen) \in Nat
            /\ Cardinality(live \ cleaner.unseen) \in Nat
            /\ Cardinality((live \cup {k}) \ cleaner.unseen)
                 <= Cardinality(live \ cleaner.unseen) + 1
        BY <3>5, Zenon
      <4>3. Cardinality((live \cup {k}) \ cleaner.unseen)
                <= cleaner.count + inserted'
        BY <3>1, <4>1, <4>2, CountFacts
      <4>4. QED
        BY <3>8, <4>3 DEF Counted
    <3>9. ASSUME cleaner.phase \in {"scan", "evict"}
          PROVE  Cardinality((live \cup {k}) \cup listed)
                     <= cleaner.count + inserted'
      <4>1. Cardinality(live \cup listed) <= cleaner.count + inserted
        BY <3>2, <3>9 DEF Counted
      <4> HIDE DEF listed
      <4>2. QED
        BY <3>1, <3>6, <4>1, CountFacts
    <3>10. CASE cleaner.phase = "scan"
      <4>1. Cardinality(live \ (cleaner.unseen \cup listed)) <= inserted
        BY <3>2, <3>10 DEF Counted
      <4>2. /\ Cardinality((live \cup {k}) \ (cleaner.unseen \cup listed))
                \in Nat
            /\ Cardinality(live \ (cleaner.unseen \cup listed)) \in Nat
            /\ Cardinality((live \cup {k}) \ (cleaner.unseen \cup listed))
                 <= Cardinality(live \ (cleaner.unseen \cup listed)) + 1
        BY <3>5, Zenon
      <4>3. Cardinality((live \cup {k}) \ (cleaner.unseen \cup listed))
                <= inserted'
        BY <3>1, <4>1, <4>2, CountFacts
      <4>4. QED
        BY <3>9, <3>10, <4>3 DEF Counted
    <3>11. CASE cleaner.phase = "evict"
      <4>1. Cardinality(live \ listed) <= inserted
        BY <3>2, <3>11 DEF Counted
      <4>2. /\ Cardinality((live \cup {k}) \ listed) \in Nat
            /\ Cardinality(live \ listed) \in Nat
            /\ Cardinality((live \cup {k}) \ listed)
                 <= Cardinality(live \ listed) + 1
        BY <3>5, Zenon
      <4>3. Cardinality((live \cup {k}) \ listed) <= inserted'
        BY <3>1, <4>1, <4>2, CountFacts
      <4>4. QED
        BY <3>9, <3>11, <4>3 DEF Counted
    <3>12. QED
      BY <3>7, <3>8, <3>10, <3>11, CountFacts
  <2>4. QED
    BY <2>1, <2>2, <2>3 DEF CapInv
<1>3. QED
  BY <1>1, <1>2

\* A removal can only help.
LEMMA CapRemoved ==
    ASSUME PassTypeOK, NEW live, CapInv(cleaner, inserted, live), NEW k
    PROVE  CapInv(cleaner, inserted, live \ {k})
<1> DEFINE listed == DOMAIN cleaner.stamps
<1>1. /\ live \subseteq Key /\ IsFiniteSet(live) /\ IsFiniteSet(listed)
      /\ cleaner.phase \in {"off", "retain", "len"} => listed = {}
  BY DEF CapInv
<1>2. ASSUME NEW big, NEW small, IsFiniteSet(big), small \subseteq big
      PROVE  /\ Cardinality(small) \in Nat
             /\ Cardinality(big) \in Nat
             /\ Cardinality(small) <= Cardinality(big)
  BY <1>2, PartSmaller
<1>3. IsFiniteSet(live \ {k})
  BY <1>1, PartSmaller
<1>4. ASSUME inserted < MaxInserted
      PROVE  Counted(cleaner, inserted, live \ {k})
  <2>1. Counted(cleaner, inserted, live)
    BY <1>4 DEF CapInv
  <2>2. /\ Cardinality(live \ {k}) \in Nat /\ Cardinality(live) \in Nat
        /\ Cardinality(live \ {k}) <= Cardinality(live)
    BY <1>1, <1>2
  <2>3. ASSUME NEW out
        PROVE  /\ Cardinality((live \ {k}) \ out) \in Nat
               /\ Cardinality(live \ out) \in Nat
               /\ Cardinality((live \ {k}) \ out) <= Cardinality(live \ out)
    <3>1. IsFiniteSet(live \ out)
      BY <1>1, PartSmaller
    <3>2. (live \ {k}) \ out \subseteq live \ out
      OBVIOUS
    <3>3. QED
      BY <1>2, <3>1, <3>2
  <2>4. /\ Cardinality((live \ {k}) \cup listed) \in Nat
        /\ Cardinality(live \cup listed) \in Nat
        /\ Cardinality((live \ {k}) \cup listed)
             <= Cardinality(live \cup listed)
    <3>1. IsFiniteSet(live \cup listed)
      BY <1>1, FS_Union
    <3>2. (live \ {k}) \cup listed \subseteq live \cup listed
      OBVIOUS
    <3>3. QED
      BY <1>2, <3>1, <3>2
  <2>5. CASE cleaner.phase \in {"off", "retain"}
    BY <2>1, <2>2, <2>5, CountFacts DEF Counted
  <2>6. CASE cleaner.phase = "len"
    <3>1. Cardinality(live \ cleaner.unseen) <= cleaner.count + inserted
      BY <2>1, <2>6 DEF Counted
    <3>2. /\ Cardinality((live \ {k}) \ cleaner.unseen) \in Nat
          /\ Cardinality(live \ cleaner.unseen) \in Nat
          /\ Cardinality((live \ {k}) \ cleaner.unseen)
               <= Cardinality(live \ cleaner.unseen)
      BY <2>3, Zenon
    <3>3. Cardinality((live \ {k}) \ cleaner.unseen) <= cleaner.count + inserted
      BY <3>1, <3>2, CountFacts
    <3>4. QED
      BY <2>6, <3>3 DEF Counted
  <2>7. ASSUME cleaner.phase \in {"scan", "evict"}
        PROVE  Cardinality((live \ {k}) \cup listed) <= cleaner.count + inserted
    <3>1. Cardinality(live \cup listed) <= cleaner.count + inserted
      BY <2>1, <2>7 DEF Counted
    <3> HIDE DEF listed
    <3>2. QED
      BY <2>4, <3>1, CountFacts
  <2>8. CASE cleaner.phase = "scan"
    <3>1. Cardinality(live \ (cleaner.unseen \cup listed)) <= inserted
      BY <2>1, <2>8 DEF Counted
    <3>2. /\ Cardinality((live \ {k}) \ (cleaner.unseen \cup listed)) \in Nat
          /\ Cardinality(live \ (cleaner.unseen \cup listed)) \in Nat
          /\ Cardinality((live \ {k}) \ (cleaner.unseen \cup listed))
               <= Cardinality(live \ (cleaner.unseen \cup listed))
      BY <2>3, Zenon
    <3>3. Cardinality((live \ {k}) \ (cleaner.unseen \cup listed)) <= inserted
      BY <3>1, <3>2, CountFacts
    <3>4. QED
      BY <2>7, <2>8, <3>3 DEF Counted
  <2>9. CASE cleaner.phase = "evict"
    <3>1. Cardinality(live \ listed) <= inserted
      BY <2>1, <2>9 DEF Counted
    <3>2. /\ Cardinality((live \ {k}) \ listed) \in Nat
          /\ Cardinality(live \ listed) \in Nat
          /\ Cardinality((live \ {k}) \ listed) <= Cardinality(live \ listed)
      BY <2>3, Zenon
    <3>3. Cardinality((live \ {k}) \ listed) <= inserted
      BY <3>1, <3>2, CountFacts
    <3>4. QED
      BY <2>7, <2>9, <3>3 DEF Counted
  <2>10. QED
    BY <2>5, <2>6, <2>8, <2>9, CountFacts
<1>5. QED
  BY <1>1, <1>3, <1>4 DEF CapInv

\* The steps of the whole map: where one phase ends, what it has counted is
\* what the next one starts from.
LEMMA CapStep ==
    ASSUME PassTypeOK, NEW live, CapInv(cleaner, inserted, live),
           \/ \E now \in Nat : CleanupBegin(now)
           \/ CapBegin
           \/ CapDecide
           \/ CapSort
           \/ CleanupEnd
    PROVE  CapInv(cleaner', inserted', live)
<1> DEFINE listed == DOMAIN cleaner.stamps
<1>1. /\ live \subseteq Key /\ IsFiniteSet(live) /\ IsFiniteSet(listed)
      /\ cleaner.phase \in {"off", "retain", "len"} => listed = {}
      /\ inserted < MaxInserted => Counted(cleaner, inserted, live)
  BY DEF CapInv
<1>2. /\ Cardinality(live) \in Nat
      /\ IsFiniteSet(live \cup listed)
      /\ Cardinality(live \cup listed) \in Nat
      /\ Cardinality(live) <= Cardinality(live \cup listed)
      /\ live \ Key = {} /\ Cardinality({}) = 0
  BY <1>1, FS_Union, FS_CardinalityType, FS_EmptySet, PartSmaller
<1>3. ASSUME NEW now \in Nat, CleanupBegin(now)
      PROVE  CapInv(cleaner', inserted', live)
  <2>1. /\ cleaner.phase = "off" /\ inserted' = inserted
        /\ cleaner'.phase = "retain"
        /\ cleaner'.stamps = Resting.stamps
    BY <1>3 DEF CleanupBegin, Resting
  <2>2. QED
    BY <1>1, <2>1, RestingFacts DEF CapInv, Counted
<1>4. CASE CapBegin
  <2>1. /\ cleaner.phase = "retain" /\ inserted' = 0
        /\ cleaner'.phase = "len" /\ cleaner'.unseen = Key
        /\ cleaner'.stamps = cleaner.stamps
        /\ cleaner'.count = cleaner.count
    BY <1>4 DEF CapBegin, PassTypeOK, IsPass
  <2>2. QED
    BY <1>1, <1>2, <2>1, CountFacts DEF CapInv, Counted
<1>5. CASE CapDecide
  <2>1. /\ cleaner.phase = "len" /\ cleaner.unseen = {}
        /\ inserted' = inserted
    BY <1>5 DEF CapDecide
  <2>2. live \ cleaner.unseen = live
    BY <2>1
  <2>3. inserted < MaxInserted => Cardinality(live) <= cleaner.count + inserted
    BY <1>1, <2>1, <2>2 DEF Counted
  <2>4. CASE cleaner.count <= MaxKeys
    <3>1. cleaner' = Resting
      BY <1>5, <2>4 DEF CapDecide
    <3>2. inserted < MaxInserted => Cardinality(live) <= MaxKeys + inserted
      BY <1>2, <2>3, <2>4, CountFacts
    <3>3. QED
      BY <1>1, <2>1, <3>1, <3>2, RestingFacts DEF CapInv, Counted
  <2>5. CASE ~ (cleaner.count <= MaxKeys)
    <3>1. /\ cleaner'.phase = "scan" /\ cleaner'.unseen = Key
          /\ cleaner'.stamps = cleaner.stamps
          /\ cleaner'.count = cleaner.count
      BY <1>5, <2>5 DEF CapDecide, PassTypeOK, IsPass
    <3>2. /\ listed = {}
          /\ live \cup listed = live
          /\ live \ (Key \cup listed) = {}
      BY <1>1, <2>1
    <3>3. inserted < MaxInserted => Counted(cleaner', inserted, live)
      BY <1>2, <2>3, <3>1, <3>2, CountFacts DEF Counted
    <3>4. QED
      BY <1>1, <2>1, <3>1, <3>3 DEF CapInv
  <2>6. QED
    BY <2>4, <2>5
<1>6. CASE CapSort
  <2>1. /\ cleaner.phase = "scan" /\ cleaner.unseen = {}
        /\ inserted' = inserted
        /\ cleaner'.phase = "evict" /\ cleaner'.stamps = cleaner.stamps
        /\ cleaner'.count = cleaner.count
    BY <1>6 DEF CapSort, PassTypeOK, IsPass
  <2>2. live \ (cleaner.unseen \cup listed) = live \ listed
    BY <2>1
  <2>3. inserted < MaxInserted => Counted(cleaner', inserted, live)
    BY <1>1, <2>1, <2>2 DEF Counted
  <2>4. QED
    BY <1>1, <2>1, <2>3 DEF CapInv
<1>7. CASE CleanupEnd
  <2>1. /\ cleaner.phase = "evict" /\ inserted' = inserted
        /\ cleaner' = Resting
        /\ cleaner.count <= MaxKeys \/ listed = {}
    BY <1>7 DEF CleanupEnd
  <2>2. ASSUME inserted < MaxInserted
        PROVE  Cardinality(live) <= MaxKeys + inserted
    <3>1. /\ Cardinality(live \cup listed) <= cleaner.count + inserted
          /\ Cardinality(live \ listed) <= inserted
      BY <1>1, <2>1, <2>2 DEF Counted
    <3>2. CASE cleaner.count <= MaxKeys
      BY <1>2, <3>1, <3>2, CountFacts
    <3>3. CASE listed = {}
      <4>1. live \ listed = live
        BY <3>3
      <4>2. QED
        BY <1>2, <3>1, <4>1, CountFacts
    <3>4. QED
      BY <2>1, <3>2, <3>3
  <2>3. QED
    BY <1>1, <2>1, <2>2, RestingFacts DEF CapInv, Counted
<1>8. QED
  BY <1>3, <1>4, <1>5, <1>6, <1>7

\* The visits of one shard: by retain, which may drop the entry (CapRemoved),
LEMMA CapRetained ==
    ASSUME PassTypeOK, NEW live, CapInv(cleaner, inserted, live), NEW k,
           ShardRetained(k)
    PROVE  CapInv(cleaner', inserted, live)
<1>1. /\ cleaner.phase = "retain" /\ cleaner'.phase = "retain"
      /\ cleaner'.stamps = cleaner.stamps
  BY DEF ShardRetained, Visit, PassTypeOK, IsPass
<1>2. QED
  BY <1>1 DEF CapInv, Counted

\* by len(), which counts the entry if it is there,
LEMMA CapCounted ==
    ASSUME PassTypeOK, NEW live, CapInv(cleaner, inserted, live), NEW k,
           ShardCounted(k, k \in live)
    PROVE  CapInv(cleaner', inserted, live)
<1>1. /\ cleaner.phase = "len" /\ cleaner'.phase = "len"
      /\ cleaner'.unseen = cleaner.unseen \ {k}
      /\ cleaner'.stamps = cleaner.stamps
      /\ cleaner'.count = IF k \in live THEN cleaner.count + 1
                                       ELSE cleaner.count
  BY DEF ShardCounted, Visit, PassTypeOK, IsPass
<1>2. ASSUME inserted < MaxInserted
      PROVE  Cardinality(live \ (cleaner.unseen \ {k}))
                 <= cleaner'.count + inserted
  <2>1. Cardinality(live \ cleaner.unseen) <= cleaner.count + inserted
    BY <1>1, <1>2 DEF CapInv, Counted
  <2>2. IsFiniteSet(live \ cleaner.unseen)
    BY PartSmaller DEF CapInv
  <2>3. CASE k \in live
    <3>1. live \ (cleaner.unseen \ {k})
              \subseteq (live \ cleaner.unseen) \cup {k}
      OBVIOUS
    <3>2. /\ Cardinality(live \ (cleaner.unseen \ {k})) \in Nat
          /\ Cardinality(live \ cleaner.unseen) \in Nat
          /\ Cardinality(live \ (cleaner.unseen \ {k}))
               <= Cardinality(live \ cleaner.unseen) + 1
      BY <2>2, <3>1, OneMore
    <3>3. QED
      BY <1>1, <2>1, <2>3, <3>2, CountFacts
  <2>4. CASE k \notin live
    <3>1. live \ (cleaner.unseen \ {k}) = live \ cleaner.unseen
      BY <2>4
    <3>2. QED
      BY <1>1, <2>1, <2>4, <3>1
  <2>5. QED
    BY <2>3, <2>4
<1>3. QED
  BY <1>1, <1>2 DEF CapInv, Counted

\* by iter(), which lists it,
LEMMA CapListed ==
    ASSUME PassTypeOK, NEW live, CapInv(cleaner, inserted, live), NEW k,
           NEW stamp, ShardListed(k, k \in live, stamp)
    PROVE  CapInv(cleaner', inserted, live)
<1> DEFINE listed == DOMAIN cleaner.stamps
           after  == DOMAIN cleaner'.stamps
<1>1. /\ cleaner.phase = "scan" /\ cleaner'.phase = "scan"
      /\ k \in cleaner.unseen
      /\ cleaner'.unseen = cleaner.unseen \ {k}
      /\ cleaner'.count = cleaner.count
      /\ cleaner'.stamps = IF k \in live THEN With(cleaner.stamps, k, stamp)
                                        ELSE cleaner.stamps
  BY DEF ShardListed, Visit, PassTypeOK, IsPass
<1>2. after = IF k \in live THEN listed \cup {k} ELSE listed
  BY <1>1 DEF With
<1>3. /\ live \subseteq Key /\ IsFiniteSet(live) /\ IsFiniteSet(listed)
      /\ inserted < MaxInserted => Counted(cleaner, inserted, live)
  BY DEF CapInv
<1>4. IsFiniteSet(after)
  BY <1>2, <1>3, OneMore
<1>5. live \cup after = live \cup listed
  BY <1>2
<1>6. live \ ((cleaner.unseen \ {k}) \cup after)
          = live \ (cleaner.unseen \cup listed)
  BY <1>1, <1>2
<1>7. inserted < MaxInserted => Counted(cleaner', inserted, live)
  BY <1>1, <1>3, <1>5, <1>6 DEF Counted
<1>8. QED
  BY <1>1, <1>3, <1>4, <1>7 DEF CapInv

\* and by the removal of a victim, whatever entry its key has by now.
LEMMA CapVictim ==
    ASSUME PassTypeOK, NEW live, CapInv(cleaner, inserted, live), NEW k,
           VictimTaken(k)
    PROVE  CapInv(cleaner', inserted, live \ {k})
<1> DEFINE listed == DOMAIN cleaner.stamps
           after  == DOMAIN cleaner'.stamps
<1>1. /\ cleaner.phase = "evict" /\ cleaner'.phase = "evict"
      /\ cleaner'.count = cleaner.count - 1
      /\ cleaner'.stamps = Without(cleaner.stamps, k)
      /\ k \in listed
  BY DEF VictimTaken, Oldest, PassTypeOK, IsPass
<1>2. after = listed \ {k}
  BY <1>1 DEF Without
<1>3. /\ live \subseteq Key /\ IsFiniteSet(live) /\ IsFiniteSet(listed)
      /\ inserted < MaxInserted => Counted(cleaner, inserted, live)
  BY DEF CapInv
<1>4. IsFiniteSet(after) /\ IsFiniteSet(live \ {k})
  BY <1>2, <1>3, PartSmaller
<1>5. /\ (live \ {k}) \cup after = (live \cup listed) \ {k}
      /\ (live \ {k}) \ after = live \ listed
  BY <1>1, <1>2
<1>6. /\ Cardinality(live \cup listed) \in Nat
      /\ Cardinality((live \cup listed) \ {k})
           = Cardinality(live \cup listed) - 1
  BY <1>1, <1>3, FS_Union, OneLess
<1>7. ASSUME inserted < MaxInserted
      PROVE  Counted(cleaner', inserted, live \ {k})
  <2>1. /\ Cardinality(live \cup listed) <= cleaner.count + inserted
        /\ Cardinality(live \ listed) <= inserted
    BY <1>1, <1>3, <1>7 DEF Counted
  <2>2. Cardinality((live \ {k}) \cup after) <= cleaner'.count + inserted
    <3>1. /\ Cardinality((live \ {k}) \cup after)
                  = Cardinality(live \cup listed) - 1
          /\ cleaner'.count = cleaner.count - 1
      BY <1>1, <1>5, <1>6
    <3> HIDE DEF listed, after
    <3>2. QED
      BY <1>6, <2>1, <3>1, CountFacts
  <2>3. Cardinality((live \ {k}) \ after) <= inserted
    BY <1>5, <2>1
  <2>4. QED
    BY <1>1, <2>2, <2>3 DEF Counted
<1>8. QED
  BY <1>1, <1>3, <1>4, <1>7 DEF CapInv
=============================================================================
