---------------------- MODULE MemoryTokenBucket_proofs ----------------------
(***************************************************************************)
(* Proofs about MemoryTokenBucket, for every value of its constants.       *)
(***************************************************************************)
EXTENDS MemoryTokenBucket, CleanupPass_proofs

-----------------------------------------------------------------------------
\* A bucket holds a whole token at least.
LEMMA FullFacts ==
    /\ Full \in Nat
    /\ TicksPerToken \in Nat
    /\ 1 <= TicksPerToken
    /\ TicksPerToken <= Full
<1>1. /\ Capacity \in Nat /\ 1 <= Capacity
      /\ TicksPerToken \in Nat /\ 1 <= TicksPerToken
  BY BucketAssumption
<1>2. Full \in Nat
  BY <1>1 DEF Full
<1>3. (Capacity - 1) * TicksPerToken >= 0
  BY <1>1
<1>4. Capacity * TicksPerToken = (Capacity - 1) * TicksPerToken + TicksPerToken
  BY <1>1
<1>5. QED
  BY <1>1, <1>2, <1>3, <1>4 DEF Full

\* Since is the difference of two readings, or zero.
LEMMA SinceFacts ==
    ASSUME NEW a \in Nat, NEW b \in Nat
    PROVE  /\ Since(a, b) \in Nat
           /\ a >= b => Since(a, b) = a - b
           /\ a <= b => Since(a, b) = 0
BY DEF Since

-----------------------------------------------------------------------------
\* Type correctness.

\* The entry a check works on is a bucket, before and after its refill.
LEMMA EntryType ==
    ASSUME TypeOK, NEW k \in Key, NEW now \in Nat
    PROVE  /\ Entry(k, now) \in Bucket
           /\ Refilled(Entry(k, now), now) \in 0..Full
<1>1. Entry(k, now) \in Bucket
  <2>1. CASE k \in DOMAIN buckets
    BY <2>1, PartialMapFacts DEF TypeOK, Entry
  <2>2. CASE k \notin DOMAIN buckets
    BY <2>2, FullFacts DEF Entry, Bucket
  <2>3. QED
    BY <2>1, <2>2
<1>2. /\ Entry(k, now).tokens \in 0..Full
      /\ Entry(k, now).last_refill \in Nat
  BY <1>1 DEF Bucket
<1>3. Since(now, Entry(k, now).last_refill) \in Nat
  BY <1>2, SinceFacts
<1>4. Refilled(Entry(k, now), now) \in 0..Full
  BY <1>2, <1>3, FullFacts DEF Refilled
<1>5. QED
  BY <1>1, <1>4

\* Paying back keeps a ledger a ledger.
LEMMA PaidBackType ==
    ASSUME NEW acc \in Ledger, NEW now \in Nat
    PROVE  /\ PaidBack(acc, now) \in Ledger
           /\ PaidBack(acc, now).gift = acc.gift
           /\ PaidBack(acc, now).refund = acc.refund
           /\ PaidBack(acc, now).mark = IF now >= acc.mark THEN now ELSE acc.mark
           /\ PaidBack(acc, now).debt = Since(acc.debt, Since(now, acc.mark))
BY SinceFacts DEF PaidBack, Ledger

\* What a check does to the key's ledger.
LEMMA ChargedType ==
    ASSUME TypeOK, NEW k \in Key, NEW now \in Nat, NEW units \in Nat
    PROVE  /\ RefilledUpTo(k) \in Nat
           /\ Charged(k, now, units) \in Ledger
           /\ Charged(k, now, units).mark = PaidBack(ledger[k], now).mark
           /\ Charged(k, now, units).debt
                  = PaidBack(ledger[k], now).debt + units
           /\ Charged(k, now, units).gift
                  = ledger[k].gift + Since(RefilledUpTo(k), now)
           /\ Charged(k, now, units).refund = ledger[k].refund
<1>1. ledger[k] \in Ledger
  BY DEF TypeOK
<1>2. /\ PaidBack(ledger[k], now) \in Ledger
      /\ PaidBack(ledger[k], now).gift = ledger[k].gift
      /\ PaidBack(ledger[k], now).refund = ledger[k].refund
  BY <1>1, PaidBackType
<1>3. ASSUME k \in DOMAIN buckets PROVE buckets[k].last_refill \in Nat
  <2>1. buckets[k] \in Bucket
    BY <1>3, PartialMapFacts DEF TypeOK
  <2>2. QED
    BY <2>1 DEF Bucket
<1>4. RefilledUpTo(k) \in Nat
  BY <1>1, <1>3 DEF RefilledUpTo, Ledger
<1>5. Since(RefilledUpTo(k), now) \in Nat
  BY <1>4, SinceFacts
<1>6. /\ PaidBack(ledger[k], now).debt + units \in Nat
      /\ PaidBack(ledger[k], now).gift + Since(RefilledUpTo(k), now) \in Nat
  BY <1>2, <1>5 DEF Ledger
<1>7. QED
  BY <1>2, <1>4, <1>6 DEF Charged, Ledger

\* What the eviction of an idle bucket does to the key's ledger.
LEMMA RefundedType ==
    ASSUME TypeOK, NEW k \in Key, k \in DOMAIN buckets, NEW now \in Nat
    PROVE  /\ Refilled(buckets[k], now) \in 0..Full
           /\ Refunded(k, now) \in Ledger
           /\ Refunded(k, now).mark = PaidBack(ledger[k], now).mark
           /\ Refunded(k, now).debt = PaidBack(ledger[k], now).debt
           /\ Refunded(k, now).gift = ledger[k].gift
           /\ Refunded(k, now).refund
                  = ledger[k].refund + (Full - Refilled(buckets[k], now))
<1>1. ledger[k] \in Ledger
  BY DEF TypeOK
<1>2. /\ PaidBack(ledger[k], now) \in Ledger
      /\ PaidBack(ledger[k], now).gift = ledger[k].gift
      /\ PaidBack(ledger[k], now).refund = ledger[k].refund
  BY <1>1, PaidBackType
<1>3. Refilled(buckets[k], now) \in 0..Full
  BY EntryType DEF Entry
<1>4. PaidBack(ledger[k], now).refund + (Full - Refilled(buckets[k], now)) \in Nat
  BY <1>2, <1>3, FullFacts DEF Ledger
<1>5. QED
  BY <1>2, <1>3, <1>4 DEF Refunded, Ledger

\* The steps keep the types.
THEOREM TypeCorrect == Spec => []TypeOK
<1>1. Init => TypeOK
  <2> SUFFICES ASSUME Init PROVE TypeOK
    OBVIOUS
  <2>1. PassTypeOK
    BY PassInitType DEF Init
  <2>2. ASSUME NEW S, NEW T PROVE IsPartialMap([x \in {} |-> {}], S, T)
    <3>1. [x \in {} |-> {}] \in [{} -> T]
      OBVIOUS
    <3>2. QED
      BY <3>1 DEF IsPartialMap
  <2>3. ledger \in [Key -> Ledger]
    BY DEF Init, Forgiven, Ledger
  <2>4. QED
    BY <2>1, <2>2, <2>3 DEF Init, TypeOK
<1>2. TypeOK /\ [Next]_vars => TypeOK'
  <2> SUFFICES ASSUME TypeOK, [Next]_vars PROVE TypeOK'
    OBVIOUS
  <2>1. CASE Tick
    BY <2>1 DEF Tick, TypeOK, PassTypeOK
  <2>2. ASSUME NEW t \in Thread, NEW k \in Key, CheckBegin(t, k)
        PROVE  TypeOK'
    <3>1. [key |-> k, now |-> clock] \in Call
      BY DEF TypeOK, Call
    <3>2. IsPartialMap(call', Thread, Call)
      BY <2>2, <3>1, Put DEF CheckBegin, TypeOK
    <3>3. QED
      BY <2>2, <3>2 DEF CheckBegin, TypeOK, PassTypeOK
  <2>3. ASSUME NEW t \in Thread, CheckLocked(t)
        PROVE  TypeOK'
    <3> DEFINE k     == call[t].key
               now   == call[t].now
               tokens == Refilled(Entry(k, now), now)
               spent == IF tokens >= TicksPerToken THEN TicksPerToken ELSE 0
    <3>1. k \in Key /\ now \in Nat
      <4>1. call[t] \in Call
        BY <2>3, PartialMapFacts DEF CheckLocked, TypeOK
      <4>2. QED
        BY <4>1 DEF Call
    <3>2. tokens \in 0..Full
      BY <3>1, EntryType
    <3>3. spent \in Nat /\ tokens - spent \in 0..Full
      BY <3>2, FullFacts
    <3>4. [tokens |-> tokens - spent, last_refill |-> now] \in Bucket
      BY <3>1, <3>3 DEF Bucket
    <3>5. IsPartialMap(buckets', Key, Bucket)
      <4>1. buckets' = With(buckets, k, [tokens |-> tokens - spent,
                                         last_refill |-> now])
        BY <2>3 DEF CheckLocked, Stored
      <4>2. IsPartialMap(buckets, Key, Bucket)
        BY DEF TypeOK
      <4> HIDE DEF k, now, tokens, spent
      <4>3. QED
        BY <3>1, <3>4, <4>1, <4>2, Put
    <3>6. ledger' \in [Key -> Ledger]
      <4>1. Charged(k, now, spent) \in Ledger
        BY <3>1, <3>3, ChargedType
      <4>2. ledger' = [ledger EXCEPT ![k] = Charged(k, now, spent)]
        BY <2>3 DEF CheckLocked
      <4>3. QED
        BY <4>1, <4>2 DEF TypeOK
    <3>7. PassTypeOK'
      BY <2>3, InsertedType DEF CheckLocked, TypeOK
    <3>8. IsPartialMap(call', Thread, Call)
      BY <2>3, Removed DEF CheckLocked, TypeOK
    <3>9. QED
      BY <2>3, <3>5, <3>6, <3>7, <3>8 DEF CheckLocked, TypeOK
  <2>4. ASSUME NEW k \in Key, Reset(k)
        PROVE  TypeOK'
    <3>1. IsPartialMap(buckets', Key, Bucket)
      BY <2>4, Removed DEF Reset, TypeOK
    <3>2. ledger' \in [Key -> Ledger]
      BY <2>4 DEF Reset, TypeOK, Forgiven, Ledger
    <3>3. QED
      BY <2>4, <3>1, <3>2 DEF Reset, TypeOK, PassTypeOK
  <2>5. CASE Cleanup
    <3>1. CASE BeginCleanup \/ BeginCap \/ DecideCap \/ SortStamps \/ EndCleanup
      <4>1. PassTypeOK'
        BY <3>1, PassStepType
           DEF BeginCleanup, BeginCap, DecideCap, SortStamps, EndCleanup, TypeOK
      <4>2. UNCHANGED <<clock, buckets, call, ledger>>
        BY <3>1 DEF BeginCleanup, BeginCap, DecideCap, SortStamps, EndCleanup
      <4>3. QED
        BY <4>1, <4>2 DEF TypeOK
    <3>2. ASSUME NEW k \in Key, RetainShard(k)
          PROVE  TypeOK'
      <4>1. PassTypeOK'
        BY <3>2, ShardRetainedType DEF RetainShard, TypeOK
      <4>2. CASE Kept(k)
        BY <3>2, <4>1, <4>2 DEF RetainShard, Kept, TypeOK
      <4>3. CASE IdleEvicted(k)
        <5>1. IsPartialMap(buckets', Key, Bucket)
          BY <4>3, Removed DEF IdleEvicted, TypeOK
        <5>2. cleaner.now \in Nat
          BY DEF TypeOK, PassTypeOK, IsPass
        <5>3. Refunded(k, cleaner.now) \in Ledger
          BY <4>3, <5>2, RefundedType DEF IdleEvicted
        <5>4. ledger' \in [Key -> Ledger]
          BY <4>3, <5>3 DEF IdleEvicted, TypeOK
        <5>5. QED
          BY <3>2, <4>1, <5>1, <5>4 DEF RetainShard, TypeOK
      <4>4. QED
        BY <3>2, <4>2, <4>3 DEF RetainShard
    <3>3. ASSUME NEW k \in Key, CountShard(k)
          PROVE  TypeOK'
      <4>1. PassTypeOK'
        <5>1. (k \in DOMAIN buckets) \in BOOLEAN
          OBVIOUS
        <5>2. QED
          BY <3>3, <5>1, ShardCountedType DEF CountShard, TypeOK
      <4>2. QED
        BY <3>3, <4>1 DEF CountShard, TypeOK
    <3>4. ASSUME NEW k \in Key, ListShard(k)
          PROVE  TypeOK'
      <4>1. PassTypeOK /\ UNCHANGED inserted
        BY <3>4 DEF ListShard, TypeOK
      <4>2. CASE k \in DOMAIN buckets
        <5>1. buckets[k] \in Bucket
          BY <4>2, PartialMapFacts DEF TypeOK
        <5>2. buckets[k].last_refill \in Nat
          BY <5>1 DEF Bucket
        <5>3. ShardListed(k, TRUE, buckets[k].last_refill)
          BY <3>4, <4>2 DEF ListShard
        <5>4. QED
          BY <3>4, <4>1, <5>2, <5>3, ShardListedType DEF ListShard, TypeOK
      <4>3. CASE k \notin DOMAIN buckets
        <5>1. ShardListed(k, FALSE, 0)
          BY <3>4, <4>3 DEF ListShard
        <5>2. QED
          BY <3>4, <4>1, <5>1, ShardListedType DEF ListShard, TypeOK
      <4>4. QED
        BY <4>2, <4>3
    <3>5. ASSUME NEW k \in Key, RemoveVictim(k)
          PROVE  TypeOK'
      <4>1. PassTypeOK'
        BY <3>5, VictimTakenType DEF RemoveVictim, TypeOK
      <4>2. IsPartialMap(buckets', Key, Bucket)
        BY <3>5, Removed DEF RemoveVictim, TypeOK
      <4>3. ledger' \in [Key -> Ledger]
        BY <3>5 DEF RemoveVictim, TypeOK, Forgiven, Ledger
      <4>4. QED
        BY <3>5, <4>1, <4>2, <4>3 DEF RemoveVictim, TypeOK
    <3>6. QED
      BY <2>5, <3>1, <3>2, <3>3, <3>4, <3>5 DEF Cleanup
  <2>6. CASE UNCHANGED vars
    BY <2>6 DEF vars, TypeOK, PassTypeOK
  <2>7. QED
    BY <2>1, <2>2, <2>3, <2>4, <2>5, <2>6 DEF Next
<1>3. QED
  BY <1>1, <1>2, PTL DEF Spec

-----------------------------------------------------------------------------
\* The ledger bound.

\* What is left in a live bucket, what its key owes, and the time by which
\* last_refill is behind the latest reading used, are together no more than
\* a full bucket and what late checks and evictions gave away; a key with no
\* bucket, which the next check fills, owes no more than what they gave away.
Covered(k) ==
    IF k \in DOMAIN buckets
    THEN /\ buckets[k].last_refill <= ledger[k].mark
         /\ buckets[k].tokens + ledger[k].debt
                + (ledger[k].mark - buckets[k].last_refill)
              <= Full + ledger[k].gift + ledger[k].refund
    ELSE ledger[k].debt <= ledger[k].gift + ledger[k].refund

\* The numbers behind Covered, in one place.
LEMMA KeyType ==
    ASSUME TypeOK, NEW k \in Key
    PROVE  /\ ledger[k].debt \in Nat
           /\ ledger[k].mark \in Nat
           /\ ledger[k].gift \in Nat
           /\ ledger[k].refund \in Nat
           /\ k \in DOMAIN buckets => /\ buckets[k].tokens \in 0..Full
                                      /\ buckets[k].last_refill \in Nat
<1>1. ledger[k] \in Ledger
  BY DEF TypeOK
<1>2. k \in DOMAIN buckets => buckets[k] \in Bucket
  BY PartialMapFacts DEF TypeOK
<1>3. QED
  BY <1>1, <1>2 DEF Ledger, Bucket

\* A step that leaves a key's bucket and ledger alone keeps it covered.
LEMMA CoveredStable ==
    ASSUME NEW k, Covered(k),
           k \in DOMAIN buckets <=> k \in DOMAIN buckets',
           k \in DOMAIN buckets => buckets'[k] = buckets[k],
           ledger'[k] = ledger[k]
    PROVE  Covered(k)'
BY DEF Covered

\* A check keeps its key covered.
LEMMA CheckCovers ==
    ASSUME TypeOK, NEW t \in Thread, CheckLocked(t),
           NEW k, k = call[t].key, Covered(k)
    PROVE  Covered(k)'
<1>0. PICK now : now = call[t].now
  OBVIOUS
<1> DEFINE tokens == Refilled(Entry(k, now), now)
           spent  == IF tokens >= TicksPerToken THEN TicksPerToken ELSE 0
           acc    == Charged(k, now, spent)
<1>1. k \in Key /\ now \in Nat
  <2>1. call[t] \in Call
    BY PartialMapFacts DEF CheckLocked, TypeOK
  <2>2. QED
    BY <1>0, <2>1 DEF Call
<1>2. tokens \in 0..Full
  BY <1>1, EntryType
<1>3. spent \in Nat
  BY FullFacts
<1>4. /\ k \in DOMAIN buckets'
      /\ buckets'[k] = [tokens |-> tokens - spent, last_refill |-> now]
  <2>1. buckets' = With(buckets, k, [tokens |-> tokens - spent,
                                     last_refill |-> now])
    BY <1>0 DEF CheckLocked, Stored
  <2>2. QED
    BY <2>1 DEF With
<1>5. ledger'[k] = acc
  <2>1. ledger' = [ledger EXCEPT ![k] = acc]
    BY <1>0 DEF CheckLocked
  <2>2. QED
    BY <1>1, <2>1 DEF TypeOK
<1>6. /\ acc.mark = IF now >= ledger[k].mark THEN now ELSE ledger[k].mark
      /\ acc.debt = Since(ledger[k].debt, Since(now, ledger[k].mark)) + spent
      /\ acc.gift = ledger[k].gift + Since(RefilledUpTo(k), now)
      /\ acc.refund = ledger[k].refund
  <2>1. ledger[k] \in Ledger
    BY <1>1 DEF TypeOK
  <2> HIDE DEF spent
  <2>2. QED
    <3>1. /\ acc.mark = PaidBack(ledger[k], now).mark
          /\ acc.debt = PaidBack(ledger[k], now).debt + spent
          /\ acc.gift = ledger[k].gift + Since(RefilledUpTo(k), now)
          /\ acc.refund = ledger[k].refund
      BY <1>1, <1>3, ChargedType
    <3>2. /\ PaidBack(ledger[k], now).mark
               = IF now >= ledger[k].mark THEN now ELSE ledger[k].mark
          /\ PaidBack(ledger[k], now).debt
               = Since(ledger[k].debt, Since(now, ledger[k].mark))
      BY <1>1, <2>1, PaidBackType
    <3> HIDE DEF acc, tokens
    <3>3. QED
      BY <3>1, <3>2
<1>7. /\ ledger[k].debt \in Nat /\ ledger[k].mark \in Nat
      /\ ledger[k].gift \in Nat /\ ledger[k].refund \in Nat
  BY <1>1, KeyType
<1>8. /\ now <= acc.mark
      /\ tokens + Since(ledger[k].debt, Since(now, ledger[k].mark))
           + (acc.mark - now) <= Full + acc.gift + acc.refund
  <2>1. CASE k \in DOMAIN buckets
    <3>1. buckets[k] \in Bucket
      BY <2>1, PartialMapFacts DEF TypeOK
    <3>2. /\ buckets[k].tokens \in 0..Full /\ buckets[k].last_refill \in Nat
          /\ buckets[k] = [tokens |-> buckets[k].tokens,
                           last_refill |-> buckets[k].last_refill]
      BY <3>1 DEF Bucket
    <3>3. /\ buckets[k].last_refill <= ledger[k].mark
          /\ buckets[k].tokens + ledger[k].debt
                + (ledger[k].mark - buckets[k].last_refill)
              <= Full + ledger[k].gift + ledger[k].refund
      BY <2>1 DEF Covered
    <3>4. /\ tokens = Refilled([tokens |-> buckets[k].tokens,
                                last_refill |-> buckets[k].last_refill], now)
          /\ RefilledUpTo(k) = buckets[k].last_refill
      BY <2>1, <3>2 DEF Entry, RefilledUpTo
    <3> HIDE DEF tokens, spent, acc
    <3>5. /\ now <= (IF now >= ledger[k].mark THEN now ELSE ledger[k].mark)
          /\ tokens + Since(ledger[k].debt, Since(now, ledger[k].mark))
               + ((IF now >= ledger[k].mark THEN now ELSE ledger[k].mark) - now)
                 <= Full + ledger[k].gift + Since(RefilledUpTo(k), now)
                      + ledger[k].refund
      BY <1>1, <1>7, <3>2, <3>3, <3>4, FullFacts DEF Refilled, Since
    <3>6. Since(RefilledUpTo(k), now) \in Nat
      BY <1>1, <3>2, <3>4, SinceFacts
    <3>7. QED
      BY <1>1, <1>6, <1>7, <3>5, <3>6, FullFacts
  <2>2. CASE k \notin DOMAIN buckets
    <3>1. ledger[k].debt <= ledger[k].gift + ledger[k].refund
      BY <2>2 DEF Covered
    <3>2. RefilledUpTo(k) = ledger[k].mark
      BY <2>2 DEF RefilledUpTo
    <3> HIDE DEF tokens, spent, acc
    <3>3. QED
      BY <1>1, <1>2, <1>6, <1>7, <3>1, <3>2, FullFacts DEF Since
  <2>3. QED
    BY <2>1, <2>2
<1>9. /\ now <= acc.mark
      /\ (tokens - spent) + acc.debt + (acc.mark - now)
            <= Full + acc.gift + acc.refund
  <2>1. Since(ledger[k].debt, Since(now, ledger[k].mark)) \in Nat
    BY <1>1, <1>7, SinceFacts
  <2>2. Since(RefilledUpTo(k), now) \in Nat
    BY <1>1, <1>3, ChargedType, SinceFacts
  <2> HIDE DEF tokens, spent, acc
  <2>3. QED
    BY <1>1, <1>2, <1>3, <1>6, <1>7, <1>8, <2>1, <2>2, FullFacts
<1> HIDE DEF tokens, spent, acc
<1>10. Covered(k)'
  BY <1>4, <1>5, <1>9 DEF Covered
<1>11. QED
  BY <1>10

\* The eviction of an idle bucket keeps its key covered: by then the bucket
\* has filled up, what it owes has been paid back, or the refund makes it up.
LEMMA IdleEvictionCovers ==
    ASSUME TypeOK, NEW k \in Key, IdleEvicted(k), Covered(k)
    PROVE  Covered(k)'
<1>1. k \in DOMAIN buckets /\ k \notin DOMAIN buckets'
  BY DEF IdleEvicted, Without
<1>2. cleaner.now \in Nat
  BY DEF TypeOK, PassTypeOK, IsPass
<1>3. /\ ledger'[k].debt = Since(ledger[k].debt,
                                 Since(cleaner.now, ledger[k].mark))
      /\ ledger'[k].gift = ledger[k].gift
      /\ ledger'[k].refund
             = ledger[k].refund + (Full - Refilled(buckets[k], cleaner.now))
  <2>1. ledger[k] \in Ledger
    BY DEF TypeOK
  <2>2. ledger'[k] = Refunded(k, cleaner.now)
    BY DEF IdleEvicted, TypeOK
  <2>3. PaidBack(ledger[k], cleaner.now).debt
           = Since(ledger[k].debt, Since(cleaner.now, ledger[k].mark))
    BY <1>2, <2>1, PaidBackType
  <2>4. QED
    BY <1>1, <1>2, <2>2, <2>3, RefundedType
<1>4. /\ ledger[k].debt \in Nat /\ ledger[k].mark \in Nat
      /\ ledger[k].gift \in Nat /\ ledger[k].refund \in Nat
      /\ buckets[k].tokens \in 0..Full /\ buckets[k].last_refill \in Nat
  BY <1>1, KeyType
<1>5. /\ buckets[k].last_refill <= ledger[k].mark
      /\ buckets[k].tokens + ledger[k].debt
            + (ledger[k].mark - buckets[k].last_refill)
          <= Full + ledger[k].gift + ledger[k].refund
  BY <1>1 DEF Covered
<1>6. Since(ledger[k].debt, Since(cleaner.now, ledger[k].mark))
        <= ledger[k].gift
             + (ledger[k].refund + (Full - Refilled(buckets[k], cleaner.now)))
  BY <1>2, <1>4, <1>5, FullFacts DEF Refilled, Since
<1>7. QED
  BY <1>1, <1>3, <1>6 DEF Covered

\* A key whose ledger is opened anew, its bucket gone, is covered.
LEMMA ForgivenCovers ==
    ASSUME NEW k, NEW now, k \notin DOMAIN buckets', ledger'[k] = Forgiven(now)
    PROVE  Covered(k)'
BY DEF Covered, Forgiven

\* A step changes the bucket and the ledger of one key at most.
LEMMA OtherKeys ==
    ASSUME TypeOK, NEW k \in Key, NEW x \in Key, x # k,
           \/ \E v : buckets' = With(buckets, k, v)
           \/ buckets' = Without(buckets, k),
           \E v : ledger' = [ledger EXCEPT ![k] = v],
           Covered(x)
    PROVE  Covered(x)'
<1>1. /\ x \in DOMAIN buckets <=> x \in DOMAIN buckets'
      /\ x \in DOMAIN buckets => buckets'[x] = buckets[x]
  BY DEF With, Without
<1>2. ledger'[x] = ledger[x]
  BY DEF TypeOK
<1>3. QED
  BY <1>1, <1>2, CoveredStable

\* Every key stays covered.
LEMMA CoveredStep ==
    ASSUME TypeOK, \A k \in Key : Covered(k), [Next]_vars,
           NEW x \in Key
    PROVE  Covered(x)'
<1>1. ASSUME UNCHANGED <<buckets, ledger>> PROVE Covered(x)'
  BY <1>1, CoveredStable
<1>2. CASE Tick
  BY <1>1, <1>2 DEF Tick
<1>3. ASSUME NEW t \in Thread, NEW k \in Key, CheckBegin(t, k)
      PROVE  Covered(x)'
  BY <1>1, <1>3 DEF CheckBegin
<1>4. ASSUME NEW t \in Thread, CheckLocked(t) PROVE Covered(x)'
  <2>1. PICK k : k = call[t].key
    OBVIOUS
  <2>2. k \in Key
    <3>1. call[t] \in Call
      BY <1>4, PartialMapFacts DEF CheckLocked, TypeOK
    <3>2. QED
      BY <2>1, <3>1 DEF Call
  <2>3. CASE x = k
    BY <1>4, <2>1, <2>3, CheckCovers
  <2>4. CASE x # k
    <3>1. /\ \E v : buckets' = With(buckets, k, v)
          /\ \E v : ledger' = [ledger EXCEPT ![k] = v]
      BY <1>4, <2>1 DEF CheckLocked
    <3>2. QED
      BY <2>2, <2>4, <3>1, OtherKeys
  <2>5. QED
    BY <2>3, <2>4
<1>5. ASSUME NEW k \in Key, Reset(k) PROVE Covered(x)'
  <2>1. /\ buckets' = Without(buckets, k)
        /\ ledger' = [ledger EXCEPT ![k] = Forgiven(clock)]
    BY <1>5 DEF Reset
  <2>2. CASE x = k
    BY <2>1, <2>2, ForgivenCovers DEF Without, TypeOK
  <2>3. CASE x # k
    BY <2>1, <2>3, OtherKeys
  <2>4. QED
    BY <2>2, <2>3
<1>6. ASSUME NEW k \in Key, RetainShard(k) PROVE Covered(x)'
  <2>1. CASE Kept(k)
    BY <1>1, <2>1 DEF Kept
  <2>2. CASE IdleEvicted(k)
    <3>1. CASE x = k
      BY <2>2, <3>1, IdleEvictionCovers
    <3>2. CASE x # k
      BY <2>2, <3>2, OtherKeys DEF IdleEvicted
    <3>3. QED
      BY <3>1, <3>2
  <2>3. QED
    BY <1>6, <2>1, <2>2 DEF RetainShard
<1>7. ASSUME NEW k \in Key, RemoveVictim(k) PROVE Covered(x)'
  <2>1. buckets' = Without(buckets, k)
    BY <1>7 DEF RemoveVictim
  <2>2. CASE k \notin DOMAIN buckets
    <3>1. /\ ledger' = ledger
          /\ x \in DOMAIN buckets <=> x \in DOMAIN buckets'
          /\ x \in DOMAIN buckets => buckets'[x] = buckets[x]
      BY <1>7, <2>1, <2>2 DEF RemoveVictim, Without
    <3>2. QED
      BY <3>1, CoveredStable
  <2>3. CASE k \in DOMAIN buckets
    <3>1. ledger' = [ledger EXCEPT ![k] = Forgiven(clock)]
      BY <1>7, <2>3 DEF RemoveVictim
    <3>2. CASE x = k
      BY <2>1, <3>1, <3>2, ForgivenCovers DEF Without, TypeOK
    <3>3. CASE x # k
      BY <2>1, <3>1, <3>3, OtherKeys
    <3>4. QED
      BY <3>2, <3>3
  <2>4. QED
    BY <2>2, <2>3
<1>8. ASSUME \/ BeginCleanup \/ BeginCap \/ DecideCap \/ SortStamps
             \/ EndCleanup
             \/ \E k \in Key : CountShard(k) \/ ListShard(k)
      PROVE  Covered(x)'
  BY <1>1, <1>8 DEF BeginCleanup, BeginCap, DecideCap, SortStamps, EndCleanup,
                    CountShard, ListShard
<1>9. CASE UNCHANGED vars
  BY <1>1, <1>9 DEF vars
<1>10. QED
  BY <1>2, <1>3, <1>4, <1>5, <1>6, <1>7, <1>8, <1>9 DEF Next, Cleanup

\* No key is granted more than a full bucket, a unit a tick and what late
\* checks and evictions gave away, whatever the interleaving.
THEOREM LedgerCorrect == Spec => []LedgerBound
<1>1. Init => \A k \in Key : Covered(k)
  BY DEF Init, Covered, Forgiven
<1>2. /\ TypeOK /\ (\A k \in Key : Covered(k)) /\ [Next]_vars
      => (\A k \in Key : Covered(k))'
  BY CoveredStep
<1>3. TypeOK /\ (\A k \in Key : Covered(k)) => LedgerBound
  <2> SUFFICES ASSUME TypeOK, NEW k \in Key, Covered(k)
               PROVE  ledger[k].debt <= Full + ledger[k].gift + ledger[k].refund
    BY DEF LedgerBound
  <2>1. /\ ledger[k].debt \in Nat
        /\ ledger[k].mark \in Nat
        /\ ledger[k].gift \in Nat
        /\ ledger[k].refund \in Nat
        /\ k \in DOMAIN buckets => /\ buckets[k].tokens \in 0..Full
                                   /\ buckets[k].last_refill \in Nat
    BY KeyType
  <2>2. QED
    BY <2>1, FullFacts DEF Covered
<1>4. QED
  BY <1>1, <1>2, <1>3, TypeCorrect, PTL DEF Spec

-----------------------------------------------------------------------------
\* Readings of the clock.

\* No reading is ahead of the clock, and a call's is at most MaxStall behind.
TimeInv ==
    /\ cleaner.now <= clock
    /\ \A t \in DOMAIN call : /\ call[t].now <= clock
                              /\ clock <= call[t].now + MaxStall
    /\ \A k \in Key : ledger[k].mark <= clock
    /\ \A k \in DOMAIN buckets : buckets[k].last_refill <= clock

\* Steps other than Tick keep the clock and, but for a new call, readings.
LEMMA TimeStep ==
    ASSUME TypeOK, TimeInv, [Next]_vars
    PROVE  TimeInv'
<1>0. /\ clock \in Nat /\ IsPass(cleaner) /\ cleaner.now \in Nat
      /\ MaxStall \in Nat
      /\ ledger \in [Key -> Ledger]
      /\ \A t \in DOMAIN call : call[t].now \in Nat /\ call[t].key \in Key
      /\ \A k \in DOMAIN buckets : k \in Key /\ buckets[k].last_refill \in Nat
      /\ \A k \in Key : ledger[k] \in Ledger /\ ledger[k].mark \in Nat
  <2>1. \A t \in DOMAIN call : call[t] \in Call
    BY PartialMapFacts DEF TypeOK
  <2>2. \A k \in DOMAIN buckets : k \in Key /\ buckets[k] \in Bucket
    BY PartialMapFacts DEF TypeOK
  <2>3. QED
    BY <2>1, <2>2, BucketAssumption
       DEF TypeOK, PassTypeOK, IsPass, Call, Bucket, Ledger
<1>1. CASE Tick
  BY <1>0, <1>1 DEF Tick, TimeInv
<1>2. ASSUME NEW t \in Thread, NEW k \in Key, CheckBegin(t, k)
      PROVE  TimeInv'
  <2>1. \A x \in DOMAIN call' : /\ call'[x].now <= clock
                                /\ clock <= call'[x].now + MaxStall
    BY <1>0, <1>2 DEF CheckBegin, TimeInv, With
  <2>2. QED
    BY <1>2, <2>1 DEF CheckBegin, TimeInv
<1>3. ASSUME NEW t \in Thread, CheckLocked(t) PROVE TimeInv'
  <2>1. PICK k, now : k = call[t].key /\ now = call[t].now
    OBVIOUS
  <2>2. k \in Key /\ now \in Nat /\ now <= clock /\ UNCHANGED <<clock, cleaner>>
    BY <1>0, <1>3, <2>1 DEF CheckLocked, TimeInv
  <2>3. PICK units \in Nat : ledger' = [ledger EXCEPT ![k] = Charged(k, now, units)]
    <3>1. TicksPerToken \in Nat /\ 0 \in Nat
      BY FullFacts
    <3>2. QED
      BY <1>3, <2>1, <3>1 DEF CheckLocked
  <2>4. \A x \in Key : ledger'[x].mark <= clock
    <3>1. Charged(k, now, units).mark = PaidBack(ledger[k], now).mark
      BY <2>2, ChargedType
    <3>2. PaidBack(ledger[k], now).mark
             = IF now >= ledger[k].mark THEN now ELSE ledger[k].mark
      BY <1>0, <2>2, PaidBackType
    <3>3. Charged(k, now, units).mark <= clock
      BY <2>2, <3>1, <3>2 DEF TimeInv
    <3>4. QED
      BY <1>0, <2>3, <3>3 DEF TimeInv
  <2>5. \A x \in DOMAIN buckets' : buckets'[x].last_refill <= clock
    BY <1>3, <2>1, <2>2 DEF CheckLocked, Stored, TimeInv, With
  <2>6. \A x \in DOMAIN call' : /\ call'[x].now <= clock
                                /\ clock <= call'[x].now + MaxStall
    BY <1>3 DEF CheckLocked, TimeInv, Without
  <2>7. QED
    BY <2>2, <2>4, <2>5, <2>6 DEF TimeInv
<1>4. ASSUME NEW k \in Key, Reset(k) PROVE TimeInv'
  BY <1>0, <1>4 DEF Reset, TimeInv, Without, Forgiven
<1>5. CASE BeginCleanup
  BY <1>0, <1>5 DEF BeginCleanup, CleanupBegin, TimeInv, Resting
<1>6. ASSUME NEW k \in Key, RetainShard(k) PROVE TimeInv'
  <2>1. cleaner'.now = cleaner.now /\ UNCHANGED <<clock, call>>
    BY <1>0, <1>6 DEF RetainShard, ShardRetained, IsPass
  <2>2. CASE Kept(k)
    BY <2>1, <2>2 DEF Kept, TimeInv
  <2>3. CASE IdleEvicted(k)
    <3>1. Refunded(k, cleaner.now).mark <= clock
      <4>1. Refunded(k, cleaner.now).mark = PaidBack(ledger[k], cleaner.now).mark
        BY <1>0, <2>3, RefundedType DEF IdleEvicted
      <4>2. QED
        BY <1>0, <4>1, PaidBackType DEF TimeInv
    <3>2. QED
      BY <1>0, <2>1, <2>3, <3>1 DEF IdleEvicted, TimeInv, Without
  <2>4. QED
    BY <1>6, <2>2, <2>3 DEF RetainShard
<1>7. ASSUME NEW k \in Key, RemoveVictim(k) PROVE TimeInv'
  <2>1. cleaner'.now = cleaner.now /\ UNCHANGED <<clock, call>>
    BY <1>0, <1>7 DEF RemoveVictim, VictimTaken, IsPass
  <2>2. \A x \in Key : ledger'[x].mark <= clock
    BY <1>0, <1>7 DEF RemoveVictim, TimeInv, Forgiven
  <2>3. \A x \in DOMAIN buckets' : buckets'[x].last_refill <= clock
    BY <1>7 DEF RemoveVictim, TimeInv, Without
  <2>4. QED
    BY <2>1, <2>2, <2>3 DEF TimeInv
<1>8. ASSUME \/ BeginCap \/ DecideCap \/ SortStamps \/ EndCleanup
             \/ \E k \in Key : CountShard(k) \/ ListShard(k)
      PROVE  TimeInv'
  <2>1. UNCHANGED <<clock, buckets, call, ledger>>
    BY <1>8 DEF BeginCap, DecideCap, SortStamps, EndCleanup, CountShard, ListShard
  <2>2. cleaner'.now <= clock
    <3>1. CASE BeginCap \/ SortStamps
      BY <1>0, <3>1 DEF BeginCap, CapBegin, SortStamps, CapSort, IsPass, TimeInv
    <3>2. CASE DecideCap \/ EndCleanup
      <4>1. cleaner' = Resting \/ cleaner'.now = cleaner.now
        BY <1>0, <3>2
           DEF DecideCap, CapDecide, EndCleanup, CleanupEnd, IsPass
      <4>2. QED
        BY <1>0, <4>1 DEF TimeInv, Resting
    <3>3. ASSUME NEW k \in Key, CountShard(k) PROVE cleaner'.now <= clock
      BY <1>0, <3>3 DEF CountShard, ShardCounted, IsPass, TimeInv
    <3>4. ASSUME NEW k \in Key, ListShard(k) PROVE cleaner'.now <= clock
      BY <1>0, <3>4 DEF ListShard, ShardListed, IsPass, TimeInv
    <3>5. QED
      BY <1>8, <3>1, <3>2, <3>3, <3>4
  <2>3. QED
    BY <2>1, <2>2 DEF TimeInv
<1>9. CASE UNCHANGED vars
  BY <1>9 DEF vars, TimeInv
<1>10. QED
  BY <1>1, <1>2, <1>3, <1>4, <1>5, <1>6, <1>7, <1>8, <1>9 DEF Next, Cleanup

\* Readings are never ahead of the clock.
LEMMA TimeCorrect == Spec => []TimeInv
<1>1. Init => TimeInv
  BY BucketAssumption DEF Init, PassInit, Resting, Forgiven, TimeInv
<1>2. TypeOK /\ TimeInv /\ [Next]_vars => TimeInv'
  BY TimeStep
<1>3. QED
  BY <1>1, <1>2, TypeCorrect, PTL DEF Spec

\* A late check gives away no more than the time it was late.
THEOREM RewindCorrect == Spec => RewindBounded
<1> DEFINE Small == \A k \in Key : ledger'[k].gift <= ledger[k].gift + MaxStall
<1>1. TypeOK /\ TimeInv /\ [Next]_vars => [Small]_vars
  <2> SUFFICES ASSUME TypeOK, TimeInv, Next, NEW x \in Key
               PROVE  ledger'[x].gift <= ledger[x].gift + MaxStall
    OBVIOUS
  <2>0. /\ ledger[x] \in Ledger /\ ledger[x].gift \in Nat /\ MaxStall \in Nat
    BY BucketAssumption DEF TypeOK, Ledger
  <2>1. CASE ledger' = ledger
    BY <2>0, <2>1
  <2>2. ASSUME NEW t \in Thread, CheckLocked(t)
        PROVE  ledger'[x].gift <= ledger[x].gift + MaxStall
    <3>1. PICK k, now : k = call[t].key /\ now = call[t].now
      OBVIOUS
    <3>2. /\ k \in Key /\ now \in Nat /\ clock \in Nat
          /\ now <= clock /\ clock <= now + MaxStall
      <4>1. call[t] \in Call
        BY <2>2, PartialMapFacts DEF CheckLocked, TypeOK
      <4>2. QED
        BY <2>2, <3>1, <4>1 DEF CheckLocked, TypeOK, TimeInv, Call
    <3>3. PICK units \in Nat :
              ledger' = [ledger EXCEPT ![k] = Charged(k, now, units)]
      <4>1. TicksPerToken \in Nat /\ 0 \in Nat
        BY FullFacts
      <4>2. QED
        BY <2>2, <3>1, <4>1 DEF CheckLocked
    <3>4. RefilledUpTo(k) \in Nat /\ RefilledUpTo(k) <= clock
      <4>1. RefilledUpTo(k) \in Nat
        BY <3>2, ChargedType
      <4>2. QED
        BY <3>2, <4>1 DEF RefilledUpTo, TimeInv
    <3>5. Since(RefilledUpTo(k), now) <= MaxStall
      BY <2>0, <3>2, <3>4 DEF Since
    <3>6. Charged(k, now, units).gift
            = ledger[k].gift + Since(RefilledUpTo(k), now)
      BY <3>2, ChargedType
    <3>7. CASE x = k
      <4>1. ledger'[x] = Charged(k, now, units)
        BY <3>2, <3>3, <3>7 DEF TypeOK
      <4>2. Since(RefilledUpTo(k), now) \in Nat
        BY <3>2, <3>4, SinceFacts
      <4>3. QED
        BY <2>0, <3>5, <3>6, <3>7, <4>1, <4>2
    <3>8. CASE x # k
      BY <2>0, <3>3, <3>8 DEF TypeOK
    <3>9. QED
      BY <3>7, <3>8
  <2>3. ASSUME NEW k \in Key, Reset(k) \/ RemoveVictim(k)
        PROVE  ledger'[x].gift <= ledger[x].gift + MaxStall
    BY <2>0, <2>3 DEF Reset, RemoveVictim, TypeOK, Forgiven
  <2>4. ASSUME NEW k \in Key, RetainShard(k)
        PROVE  ledger'[x].gift <= ledger[x].gift + MaxStall
    <3>1. CASE Kept(k)
      BY <2>1, <3>1 DEF Kept
    <3>2. CASE IdleEvicted(k)
      <4>1. cleaner.now \in Nat
        BY DEF TypeOK, PassTypeOK, IsPass
      <4>2. ledger'[x].gift = ledger[x].gift
        <5>1. Refunded(k, cleaner.now).gift = ledger[k].gift
          BY <3>2, <4>1, RefundedType DEF IdleEvicted
        <5>2. QED
          BY <3>2, <5>1 DEF IdleEvicted, TypeOK
      <4>3. QED
        BY <2>0, <4>2
    <3>3. QED
      BY <2>4, <3>1, <3>2 DEF RetainShard
  <2>5. QED
    BY <2>1, <2>2, <2>3, <2>4
       DEF Next, Tick, CheckBegin, Cleanup, BeginCleanup, BeginCap, CountShard,
           DecideCap, ListShard, SortStamps, EndCleanup
<1>2. QED
  BY <1>1, TypeCorrect, TimeCorrect, PTL DEF Spec, RewindBounded

-----------------------------------------------------------------------------
\* With no late checks the store is a token bucket limiter.

\* A level is a number of units.
LEMMA LevelType ==
    ASSUME TypeOK, NEW k \in Key
    PROVE  Level(k) \in 0..Full
<1>1. CASE k \in DOMAIN buckets
  <2>1. k \in DOMAIN buckets => /\ buckets[k].tokens \in 0..Full
                                /\ buckets[k].last_refill \in Nat
    BY KeyType
  <2>2. Since(clock, buckets[k].last_refill) \in Nat
    BY <1>1, <2>1, SinceFacts DEF TypeOK
  <2>3. QED
    BY <1>1, <2>1, <2>2, FullFacts DEF Level, Refilled
<1>2. CASE k \notin DOMAIN buckets
  BY <1>2, FullFacts DEF Level
<1>3. QED
  BY <1>1, <1>2

\* Levels change with the clock and with the key's bucket only.
LEMMA LevelStable ==
    ASSUME NEW k, UNCHANGED clock,
           k \in DOMAIN buckets <=> k \in DOMAIN buckets',
           k \in DOMAIN buckets => buckets'[k] = buckets[k]
    PROVE  Level(k)' = Level(k)
BY DEF Level, Refilled

\* A tick of the clock is a tick of the limiter.
LEMMA TickElapses ==
    ASSUME TypeOK, TimeInv, Tick
    PROVE  Limiter!Elapse
<1>1. ASSUME NEW k \in Key
      PROVE  Level(k)' = IF Level(k) < Full THEN Level(k) + 1 ELSE Full
  <2>1. clock' = clock + 1 /\ buckets' = buckets /\ clock \in Nat
    BY DEF Tick, TypeOK
  <2>2. CASE k \in DOMAIN buckets
    <3>1. /\ buckets[k].tokens \in 0..Full /\ buckets[k].last_refill \in Nat
          /\ buckets[k].last_refill <= clock
      BY <2>2, KeyType DEF TimeInv
    <3>2. /\ Level(k) = Refilled(buckets[k], clock)
          /\ Level(k)' = Refilled(buckets[k], clock + 1)
      BY <2>1, <2>2 DEF Level
    <3>3. QED
      BY <2>1, <3>1, <3>2, FullFacts DEF Refilled, Since
  <2>3. CASE k \notin DOMAIN buckets
    BY <2>1, <2>3, FullFacts DEF Level
  <2>4. QED
    BY <2>2, <2>3
<1>2. [k \in Key |-> Level(k)']
        = [k \in Key |-> IF Level(k) < Full THEN Level(k) + 1 ELSE Full]
  BY <1>1
<1>3. UNCHANGED answer
  BY DEF Tick
<1>4. QED
  BY <1>2, <1>3 DEF Limiter!Elapse, Limiter!Brimful, Full

\* A check is a request to the limiter.
LEMMA CheckAsks ==
    ASSUME TypeOK, TimeInv, MaxStall = 0, NEW t \in Thread, CheckLocked(t)
    PROVE  \E k \in Key : Limiter!Ask(k)
<1>1. PICK k : k = call[t].key
  OBVIOUS
<1>2. k \in Key /\ call[t].now = clock /\ clock \in Nat
  <2>1. call[t] \in Call
    BY PartialMapFacts DEF CheckLocked, TypeOK
  <2>2. call[t].now <= clock /\ clock <= call[t].now + 0
    BY DEF CheckLocked, TimeInv
  <2>3. QED
    BY <1>1, <2>1, <2>2 DEF Call, TypeOK
<1> DEFINE tokens == Refilled(Entry(k, clock), clock)
           allowed == tokens >= TicksPerToken
           spent  == IF allowed THEN TicksPerToken ELSE 0
<1>3. tokens \in 0..Full
  BY <1>2, EntryType
<1>4. tokens = Level(k)
  <2>1. CASE k \in DOMAIN buckets
    BY <2>1 DEF Entry, Level
  <2>2. CASE k \notin DOMAIN buckets
    BY <1>2, <2>2, FullFacts DEF Entry, Level, Refilled, Since
  <2>3. QED
    BY <2>1, <2>2
<1>5. /\ buckets' = With(buckets, k, [tokens |-> tokens - spent,
                                      last_refill |-> clock])
      /\ answer' = [key |-> k, allowed |-> allowed,
                    remaining |-> IF allowed
                                  THEN (tokens - spent) \div TicksPerToken
                                  ELSE 0]
      /\ clock' = clock
  BY <1>1, <1>2 DEF CheckLocked, Stored
<1>6. Level(k)' = tokens - spent
  <2>1. k \in DOMAIN buckets' /\ buckets'[k] = [tokens |-> tokens - spent,
                                               last_refill |-> clock]
    BY <1>5 DEF With
  <2>2. tokens - spent \in 0..Full
    BY <1>3, FullFacts
  <2>3. Level(k)' = Refilled([tokens |-> tokens - spent,
                              last_refill |-> clock], clock)
    BY <1>5, <2>1 DEF Level
  <2> HIDE DEF tokens, spent
  <2>4. QED
    BY <1>2, <2>2, <2>3, FullFacts DEF Refilled, Since
<1>7. \A x \in Key \ {k} : Level(x)' = Level(x)
  <2> SUFFICES ASSUME NEW x \in Key, x # k PROVE Level(x)' = Level(x)
    OBVIOUS
  <2>1. /\ x \in DOMAIN buckets <=> x \in DOMAIN buckets'
        /\ x \in DOMAIN buckets => buckets'[x] = buckets[x]
    BY <1>5 DEF With
  <2>2. QED
    BY <1>5, <2>1, LevelStable
<1> HIDE DEF tokens
<1>8. [x \in Key |-> Level(x)']
         = [[x \in Key |-> Level(x)] EXCEPT ![k] = Level(k) - spent]
  BY <1>2, <1>4, <1>6, <1>7
<1>9. CASE allowed
  <2>1. Level(k) >= TicksPerToken /\ spent = TicksPerToken
    BY <1>4, <1>9
  <2>2. answer' = [key |-> k, allowed |-> TRUE,
                   remaining |-> Level(k)' \div TicksPerToken]
    BY <1>5, <1>6, <1>9
  <2>3. Limiter!Ask(k)
    BY <1>2, <1>8, <2>1, <2>2 DEF Limiter!Ask
  <2>4. QED
    BY <1>2, <2>3
<1>10. CASE ~ allowed
  <2>1. ~ (Level(k) >= TicksPerToken) /\ spent = 0
    BY <1>4, <1>10
  <2>2. answer' = [key |-> k, allowed |-> FALSE, remaining |-> 0]
    <3>1. allowed = FALSE
      BY <1>10
    <3> HIDE DEF allowed
    <3>2. QED
      BY <1>5, <1>10, <3>1, Zenon
  <2>3. [x \in Key |-> Level(x)'] = [x \in Key |-> Level(x)]
    <3>1. Level(k)' = Level(k)
      BY <1>3, <1>4, <1>6, <2>1, FullFacts
    <3>2. QED
      BY <1>7, <3>1
  <2>4. Limiter!Ask(k)
    BY <1>2, <2>1, <2>2, <2>3 DEF Limiter!Ask
  <2>5. QED
    BY <1>2, <2>4
<1>11. QED
  BY <1>9, <1>10

\* The removal of a bucket is forgiveness.
LEMMA RemovalForgives ==
    ASSUME NEW k \in Key, buckets' = Without(buckets, k),
           UNCHANGED <<clock, answer>>
    PROVE  Limiter!Forgive(k)
<1>1. Level(k)' = Full
  BY DEF Level, Without
<1>2. \A x \in Key \ {k} : Level(x)' = Level(x)
  <2> SUFFICES ASSUME NEW x \in Key, x # k PROVE Level(x)' = Level(x)
    OBVIOUS
  <2>1. /\ x \in DOMAIN buckets <=> x \in DOMAIN buckets'
        /\ x \in DOMAIN buckets => buckets'[x] = buckets[x]
    BY DEF Without
  <2>2. QED
    BY <2>1, LevelStable
<1>3. [x \in Key |-> Level(x)'] = [[x \in Key |-> Level(x)] EXCEPT ![k] = Full]
  BY <1>1, <1>2
<1>4. QED
  BY <1>3 DEF Limiter!Forgive, Limiter!Brimful, Full

\* A step that keeps clock, buckets and answer is no step of the limiter.
LEMMA Stutters ==
    ASSUME UNCHANGED <<clock, buckets, answer>>
    PROVE  UNCHANGED Limiter!limiterVars
<1>1. \A k \in Key : Level(k)' = Level(k)
  BY LevelStable
<1>2. QED
  BY <1>1 DEF Limiter!limiterVars

\* An idle bucket lacks no more than idle_ttl ticks leave it short of.
LEMMA IdleIsFilled ==
    ASSUME TypeOK, TimeInv, NEW k \in Key,
           k \in DOMAIN buckets, IsIdle(buckets[k].last_refill)
    PROVE  /\ Full - Refilled(buckets[k], cleaner.now) <= Since(Full, IdleTTL)
           /\ Full <= Level(k) + Since(Full, IdleTTL)
<1>1. /\ buckets[k].tokens \in 0..Full /\ buckets[k].last_refill \in Nat
  BY KeyType
<1>2. /\ cleaner.now \in Nat /\ clock \in Nat /\ cleaner.now <= clock
  BY DEF TypeOK, PassTypeOK, IsPass, TimeInv
<1>3. IdleTTL \in Nat
  BY CleanupAssumption
<1>4. /\ Since(cleaner.now, buckets[k].last_refill) >= IdleTTL
      /\ Since(clock, buckets[k].last_refill) >= IdleTTL
  BY <1>1, <1>2, <1>3 DEF IsIdle, Since
<1>5. /\ Full - Refilled(buckets[k], cleaner.now) <= Since(Full, IdleTTL)
      /\ Full - Refilled(buckets[k], clock) <= Since(Full, IdleTTL)
  BY <1>1, <1>2, <1>3, <1>4, FullFacts DEF Refilled, Since
<1>6. Refilled(buckets[k], clock) \in 0..Full /\ Since(Full, IdleTTL) \in Nat
  <2>1. Refilled(buckets[k], clock) \in 0..Full
    BY <1>2, RefundedType
  <2>2. QED
    BY <1>3, <2>1, FullFacts, SinceFacts
<1>7. QED
  BY <1>5, <1>6, FullFacts DEF Level

\* An eviction gives away no more than idle_ttl ticks of refilling leave a
\* bucket short of, and nothing else adds to what evictions gave.
THEOREM EvictionIsBounded == Spec => EvictionBounded
<1> DEFINE Small ==
        \A k \in Key :
          /\ ledger'[k].refund <= ledger[k].refund + Since(Full, IdleTTL)
          /\ RetainShard(k) => Level(k)' <= Level(k) + Since(Full, IdleTTL)
<1>1. TypeOK /\ TimeInv /\ [Next]_vars => [Small]_vars
  <2> DEFINE Gap == Since(Full, IdleTTL)
  <2> SUFFICES ASSUME TypeOK, TimeInv, Next, NEW x \in Key
               PROVE  /\ ledger'[x].refund <= ledger[x].refund + Gap
                      /\ RetainShard(x) => Level(x)' <= Level(x) + Gap
    OBVIOUS
  <2>0. /\ ledger[x] \in Ledger /\ ledger[x].refund \in Nat /\ Gap \in Nat
        /\ Level(x) \in 0..Full /\ Full \in Nat /\ cleaner.now \in Nat
    <3>1. Gap \in Nat
      BY FullFacts, CleanupAssumption, SinceFacts
    <3>2. QED
      BY <3>1, FullFacts, LevelType DEF TypeOK, Ledger, PassTypeOK, IsPass
  <2> HIDE DEF Gap
  <2>1. ASSUME RetainShard(x) PROVE Level(x)' <= Level(x) + Gap
    <3>1. CASE Kept(x)
      <4>1. Level(x)' = Level(x)
        BY <2>1, <3>1, LevelStable DEF RetainShard, Kept
      <4>2. QED
        BY <2>0, <4>1
    <3>2. CASE IdleEvicted(x)
      <4>1. Full <= Level(x) + Gap
        BY <3>2, IdleIsFilled DEF IdleEvicted, Gap
      <4>2. Level(x)' = Full
        BY <3>2 DEF IdleEvicted, Level, Without
      <4>3. QED
        BY <4>1, <4>2
    <3>3. QED
      BY <2>1, <3>1, <3>2 DEF RetainShard
  <2>2. ledger'[x].refund <= ledger[x].refund + Gap
    <3>1. CASE ledger' = ledger
      BY <2>0, <3>1
    <3>2. ASSUME NEW t \in Thread, CheckLocked(t)
          PROVE  ledger'[x].refund <= ledger[x].refund + Gap
      <4>1. PICK k, now : k = call[t].key /\ now = call[t].now
        OBVIOUS
      <4>2. k \in Key /\ now \in Nat
        <5>1. call[t] \in Call
          BY <3>2, PartialMapFacts DEF CheckLocked, TypeOK
        <5>2. QED
          BY <4>1, <5>1 DEF Call
      <4>3. PICK units \in Nat :
                ledger' = [ledger EXCEPT ![k] = Charged(k, now, units)]
        <5>1. TicksPerToken \in Nat /\ 0 \in Nat
          BY FullFacts
        <5>2. QED
          BY <3>2, <4>1, <5>1 DEF CheckLocked
      <4>4. Charged(k, now, units).refund = ledger[k].refund
        BY <4>2, ChargedType
      <4>5. ledger'[x].refund = ledger[x].refund
        BY <4>2, <4>3, <4>4 DEF TypeOK
      <4>6. QED
        BY <2>0, <4>5
    <3>3. ASSUME NEW k \in Key, Reset(k) \/ RemoveVictim(k)
          PROVE  ledger'[x].refund <= ledger[x].refund + Gap
      BY <2>0, <3>3 DEF Reset, RemoveVictim, TypeOK, Forgiven
    <3>4. ASSUME NEW k \in Key, RetainShard(k)
          PROVE  ledger'[x].refund <= ledger[x].refund + Gap
      <4>1. CASE Kept(k)
        BY <3>1, <4>1 DEF Kept
      <4>2. CASE IdleEvicted(k) /\ k = x
        <5>1. ledger'[x].refund
                 = ledger[x].refund + (Full - Refilled(buckets[x], cleaner.now))
          BY <2>0, <4>2, RefundedType DEF IdleEvicted, TypeOK
        <5>2. /\ Full - Refilled(buckets[x], cleaner.now) <= Gap
              /\ Refilled(buckets[x], cleaner.now) \in 0..Full
          BY <2>0, <4>2, IdleIsFilled, RefundedType DEF IdleEvicted, Gap
        <5>3. QED
          BY <2>0, <5>1, <5>2
      <4>3. CASE IdleEvicted(k) /\ k # x
        BY <2>0, <4>3 DEF IdleEvicted, TypeOK
      <4>4. QED
        BY <3>4, <4>1, <4>2, <4>3 DEF RetainShard
    <3>5. QED
      BY <3>1, <3>2, <3>3, <3>4
         DEF Next, Tick, CheckBegin, Cleanup, BeginCleanup, BeginCap, CountShard,
             DecideCap, ListShard, SortStamps, EndCleanup
  <2>3. QED
    BY <2>1, <2>2
<1>2. QED
  BY <1>1, TypeCorrect, TimeCorrect, PTL DEF Spec, EvictionBounded

\* Every run of the store is a run of the limiter.
THEOREM StoreImplementsLimiter ==
    ASSUME MaxStall = 0
    PROVE  Spec => IsTokenBucketLimiter
<1>1. Init => Limiter!Init
  BY DEF Init, Limiter!Init, Limiter!Brimful, Full, Level, NoAnswer,
         Limiter!NoAnswer
<1>2. TypeOK /\ TimeInv /\ [Next]_vars => [Limiter!Next]_Limiter!limiterVars
  <2> SUFFICES ASSUME TypeOK, TimeInv, [Next]_vars
               PROVE  [Limiter!Next]_Limiter!limiterVars
    OBVIOUS
  <2>1. CASE Tick
    BY <2>1, TickElapses DEF Limiter!Next
  <2>2. ASSUME NEW t \in Thread, CheckLocked(t)
        PROVE  [Limiter!Next]_Limiter!limiterVars
    BY <2>2, CheckAsks DEF Limiter!Next
  <2>3. ASSUME NEW k \in Key, Reset(k) \/ RemoveVictim(k)
        PROVE  [Limiter!Next]_Limiter!limiterVars
    BY <2>3, RemovalForgives DEF Reset, RemoveVictim, Limiter!Next
  <2>4. ASSUME NEW k \in Key, RetainShard(k)
        PROVE  [Limiter!Next]_Limiter!limiterVars
    <3>1. CASE Kept(k)
      BY <2>4, <3>1, Stutters DEF RetainShard, Kept
    <3>2. CASE IdleEvicted(k)
      BY <2>4, <3>2, RemovalForgives DEF RetainShard, IdleEvicted, Limiter!Next
    <3>3. QED
      BY <2>4, <3>1, <3>2 DEF RetainShard
  <2>5. CASE UNCHANGED <<clock, buckets, answer>>
    BY <2>5, Stutters
  <2>6. QED
    BY <2>1, <2>2, <2>3, <2>4, <2>5
       DEF Next, vars, CheckBegin, Cleanup, BeginCleanup, BeginCap, CountShard,
           DecideCap, ListShard, SortStamps, EndCleanup
<1>3. QED
  BY <1>1, <1>2, TypeCorrect, TimeCorrect, PTL
     DEF Spec, IsTokenBucketLimiter, Limiter!Spec

-----------------------------------------------------------------------------
\* The cap.

\* What the pass has counted bounds the buckets, at every step.
MapCounted == CapInv(cleaner, inserted, DOMAIN buckets)

\* The steps of the store keep the count.
LEMMA MapCountedStep ==
    ASSUME TypeOK, MapCounted, [Next]_vars
    PROVE  MapCounted'
<1>0. PassTypeOK
  BY DEF TypeOK
<1>1. ASSUME UNCHANGED <<cleaner, inserted>>, DOMAIN buckets' = DOMAIN buckets
      PROVE  MapCounted'
  BY <1>1 DEF MapCounted
<1>2. ASSUME UNCHANGED <<cleaner, inserted>>,
             NEW k, buckets' = Without(buckets, k)
      PROVE  MapCounted'
  <2>1. DOMAIN buckets' = DOMAIN buckets \ {k}
    BY <1>2 DEF Without
  <2>2. CapInv(cleaner, inserted, DOMAIN buckets \ {k})
    BY <1>0, CapRemoved DEF MapCounted
  <2>3. QED
    BY <1>2, <2>1, <2>2 DEF MapCounted
<1>3. CASE Tick
  BY <1>1, <1>3 DEF Tick
<1>4. ASSUME NEW t \in Thread, NEW k \in Key, CheckBegin(t, k)
      PROVE  MapCounted'
  BY <1>1, <1>4 DEF CheckBegin
<1>5. ASSUME NEW t \in Thread, CheckLocked(t) PROVE MapCounted'
  <2>1. PICK k : k = call[t].key
    OBVIOUS
  <2>2. k \in Key
    <3>1. call[t] \in Call
      BY <1>5, PartialMapFacts DEF CheckLocked, TypeOK
    <3>2. QED
      BY <2>1, <3>1 DEF Call
  <2>3. DOMAIN buckets' = DOMAIN buckets \cup {k}
    BY <1>5, <2>1 DEF CheckLocked, With
  <2>4. Inserted(k \notin DOMAIN buckets) /\ UNCHANGED cleaner
    BY <1>5, <2>1 DEF CheckLocked
  <2>5. CapInv(cleaner', inserted', DOMAIN buckets \cup {k})
    BY <1>0, <2>2, <2>4, CapInserted DEF MapCounted
  <2>6. QED
    BY <2>3, <2>5 DEF MapCounted
<1>6. ASSUME NEW k \in Key, Reset(k) PROVE MapCounted'
  BY <1>2, <1>6 DEF Reset
<1>7. CASE BeginCleanup \/ BeginCap \/ DecideCap \/ SortStamps \/ EndCleanup
  <2>1. clock \in Nat
    BY DEF TypeOK
  <2>2. CapInv(cleaner', inserted', DOMAIN buckets)
    BY <1>0, <1>7, <2>1, CapStep
       DEF BeginCleanup, BeginCap, DecideCap, SortStamps, EndCleanup, MapCounted
  <2>3. buckets' = buckets
    BY <1>7 DEF BeginCleanup, BeginCap, DecideCap, SortStamps, EndCleanup
  <2>4. QED
    BY <2>2, <2>3 DEF MapCounted
<1>8. ASSUME NEW k \in Key, RetainShard(k) PROVE MapCounted'
  <2>1. /\ CapInv(cleaner', inserted, DOMAIN buckets)
        /\ PassTypeOK'
        /\ inserted' = inserted
    BY <1>0, <1>8, CapRetained, ShardRetainedType DEF RetainShard, MapCounted
  <2>2. CASE Kept(k)
    BY <2>1, <2>2 DEF Kept, MapCounted
  <2>3. CASE IdleEvicted(k)
    <3>1. CapInv(cleaner, inserted, DOMAIN buckets \ {k})
      BY <1>0, CapRemoved DEF MapCounted
    <3>2. CapInv(cleaner', inserted, DOMAIN buckets \ {k})
      BY <1>0, <1>8, <3>1, CapRetained DEF RetainShard
    <3>3. DOMAIN buckets' = DOMAIN buckets \ {k}
      BY <2>3 DEF IdleEvicted, Without
    <3>4. QED
      BY <2>1, <3>2, <3>3 DEF MapCounted
  <2>4. QED
    BY <1>8, <2>2, <2>3 DEF RetainShard
<1>9. ASSUME NEW k \in Key, CountShard(k) PROVE MapCounted'
  BY <1>0, <1>9, CapCounted DEF CountShard, MapCounted
<1>10. ASSUME NEW k \in Key, ListShard(k) PROVE MapCounted'
  <2>1. \E stamp : ShardListed(k, k \in DOMAIN buckets, stamp)
    <3>1. CASE k \in DOMAIN buckets
      <4>1. (k \in DOMAIN buckets) = TRUE
        BY <3>1
      <4>2. ShardListed(k, TRUE, buckets[k].last_refill)
        BY <1>10, <3>1 DEF ListShard
      <4>3. QED
        BY <4>1, <4>2
    <3>2. CASE k \notin DOMAIN buckets
      <4>1. (k \in DOMAIN buckets) = FALSE
        BY <3>2
      <4>2. ShardListed(k, FALSE, 0)
        BY <1>10, <3>2 DEF ListShard
      <4>3. QED
        BY <4>1, <4>2
    <3>3. QED
      BY <3>1, <3>2
  <2>2. CapInv(cleaner', inserted, DOMAIN buckets)
    BY <1>0, <2>1, CapListed DEF MapCounted
  <2>3. QED
    BY <1>10, <2>2 DEF ListShard, MapCounted
<1>11. ASSUME NEW k \in Key, RemoveVictim(k) PROVE MapCounted'
  <2>1. CapInv(cleaner', inserted, DOMAIN buckets \ {k})
    BY <1>0, <1>11, CapVictim DEF RemoveVictim, MapCounted
  <2>2. DOMAIN buckets' = DOMAIN buckets \ {k} /\ inserted' = inserted
    BY <1>11 DEF RemoveVictim, Without
  <2>3. QED
    BY <2>1, <2>2 DEF MapCounted
<1>12. CASE UNCHANGED vars
  BY <1>1, <1>12 DEF vars
<1>13. QED
  BY <1>3, <1>4, <1>5, <1>6, <1>7, <1>8, <1>9, <1>10, <1>11, <1>12
     DEF Next, Cleanup

\* Outside its cap the map holds no more than max_keys buckets and those
\* inserted since the cap of the last pass began: whatever checks insert and
\* resets remove between the pass's len(), its iter() and its removals
\* (memory.rs:402).
THEOREM CapCorrect == Spec => []CapRestored
<1>1. Init => MapCounted
  <2>1. Init => DOMAIN buckets = {}
    BY DEF Init
  <2>2. QED
    BY <2>1, CapInit DEF Init, MapCounted
<1>2. TypeOK /\ MapCounted /\ [Next]_vars => MapCounted'
  BY MapCountedStep
<1>3. MapCounted => CapRestored
  BY CapInvSuffices DEF MapCounted, CapRestored
<1>4. QED
  BY <1>1, <1>2, <1>3, TypeCorrect, PTL DEF Spec
=============================================================================
