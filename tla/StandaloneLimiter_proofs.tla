----------------------- MODULE StandaloneLimiter_proofs -----------------------
(***************************************************************************)
(* Proofs about StandaloneLimiter, for every value of its constants.       *)
(*                                                                         *)
(* The first part is about BoundedKeyMap: why the map of a limiter keeps   *)
(* its cap, for any map whose entries change as those steps say.  `live`   *)
(* stands for the keys of that map.                                        *)
(***************************************************************************)
EXTENDS StandaloneLimiter, FiniteSetTheorems, SequenceTheorems,
        WellFoundedInduction, TLAPS

-----------------------------------------------------------------------------
\* Partial maps.

LEMMA PartialMapFacts ==
    ASSUME NEW S, NEW T, NEW f, IsPartialMap(f, S, T)
    PROVE  /\ DOMAIN f \subseteq S
           /\ \A x \in DOMAIN f : f[x] \in T
<1>1. PICK D \in SUBSET S : f \in [D -> T]
  BY DEF IsPartialMap
<1>2. QED
  BY <1>1

LEMMA PutFacts ==
    ASSUME NEW S, NEW T, NEW f, IsPartialMap(f, S, T), NEW k \in S, NEW v \in T
    PROVE  IsPartialMap(With(f, k, v), S, T)
<1>1. DOMAIN f \subseteq S /\ \A x \in DOMAIN f : f[x] \in T
  BY PartialMapFacts
<1>2. With(f, k, v) \in [DOMAIN f \cup {k} -> T]
  BY <1>1 DEF With
<1>3. DOMAIN f \cup {k} \in SUBSET S
  BY <1>1
<1>4. QED
  BY <1>2, <1>3 DEF IsPartialMap

\* What With and Without do to the keys.
LEMMA KeysOfMap ==
    ASSUME NEW f, NEW k, NEW v
    PROVE  /\ DOMAIN With(f, k, v) = DOMAIN f \cup {k}
           /\ With(f, k, v)[k] = v
           /\ \A x \in DOMAIN f \ {k} : With(f, k, v)[x] = f[x]
           /\ DOMAIN Without(f, k) = DOMAIN f \ {k}
           /\ \A x \in DOMAIN f \ {k} : Without(f, k)[x] = f[x]
BY DEF With, Without

LEMMA NoStampsType == IsPartialMap(NoStamps, Key, Nat \cup {None})
<1>1. NoStamps \in [{} -> Nat \cup {None}]
  BY DEF NoStamps
<1>2. QED
  BY <1>1 DEF IsPartialMap

-----------------------------------------------------------------------------
\* Types.

\* It is enough that a step leaves each call that is under way well typed.
LEMMA MapTypeIntro ==
    ASSUME DOMAIN seekers' \subseteq Thread,
           \A t \in DOMAIN seekers' : IsSeeker(seekers'[t])
    PROVE  MapTypeOK'
BY DEF MapTypeOK, IsSeeker

LEMMA MapInitType == MapInit => MapTypeOK
BY DEF MapInit, MapTypeOK

LEMMA LookType ==
    ASSUME MapTypeOK, NEW t \in Thread, NEW k \in Key, NEW now \in Nat,
           NEW live, Cardinality(live) \in Nat, Look(t, k, now, live)
    PROVE  MapTypeOK'
<1>1. IsSeeker(Seeking(k, now, live))
  <2>1. DOMAIN NoStamps = {}
    BY DEF NoStamps
  <2>2. RoomOwed(Cardinality(live), k \in live) \in Nat
    <3>1. MaxKeys \in Nat /\ BatchSize \in Int
      <4>1. MaxKeys \div BatchDivisor \in Int
        BY MapAssumption
      <4>2. QED
        BY <4>1, MapAssumption DEF BatchSize
    <3>2. QED
      BY <3>1 DEF RoomOwed, Greater
  <2>3. 0 \in 0..MaxOvertaken
    BY MapAssumption
  <2>4. QED
    BY <2>1, <2>2, <2>3, NoStampsType DEF Seeking, IsSeeker
<1>2. /\ DOMAIN seekers' = DOMAIN seekers \cup {t}
      /\ seekers'[t] = Seeking(k, now, live)
      /\ \A x \in DOMAIN seekers : seekers'[x] = seekers[x]
  BY DEF Look, With
<1>3. \A x \in DOMAIN seekers' : IsSeeker(seekers'[x])
  BY <1>1, <1>2 DEF MapTypeOK
<1>4. QED
  BY <1>2, <1>3, MapTypeIntro DEF MapTypeOK, Look

LEMMA ShardCountedType ==
    ASSUME MapTypeOK, NEW t \in Thread, NEW k \in Key, NEW present \in BOOLEAN,
           ShardCounted(t, k, present)
    PROVE  MapTypeOK'
<1>1. t \in DOMAIN seekers /\ IsSeeker(seekers[t])
  BY DEF ShardCounted, Visits, MapTypeOK
<1>2. IsSeeker(seekers'[t])
  BY <1>1 DEF ShardCounted, IsSeeker
<1>3. \A x \in DOMAIN seekers' : IsSeeker(seekers'[x])
  BY <1>2 DEF MapTypeOK, ShardCounted
<1>4. QED
  BY <1>3, MapTypeIntro DEF MapTypeOK, ShardCounted

LEMMA DecideType ==
    ASSUME MapTypeOK, NEW t \in Thread, Decide(t)
    PROVE  MapTypeOK'
<1>1. t \in DOMAIN seekers /\ IsSeeker(seekers[t])
  BY DEF Decide, Visited, MapTypeOK
<1>2. IsSeeker(seekers'[t])
  BY <1>1 DEF Decide, IsSeeker
<1>3. \A x \in DOMAIN seekers' : IsSeeker(seekers'[x])
  BY <1>2 DEF MapTypeOK, Decide
<1>4. QED
  BY <1>3, MapTypeIntro DEF MapTypeOK, Decide

LEMMA ShardListedType ==
    ASSUME MapTypeOK, NEW t \in Thread, NEW k \in Key, NEW present \in BOOLEAN,
           NEW stamp \in Nat \cup {None}, ShardListed(t, k, present, stamp)
    PROVE  MapTypeOK'
<1>1. t \in DOMAIN seekers /\ IsSeeker(seekers[t])
  BY DEF ShardListed, Visits, MapTypeOK
<1>2. IsPartialMap(With(seekers[t].stamps, k, stamp), Key, Nat \cup {None})
  BY <1>1, PutFacts DEF IsSeeker
<1>3. DOMAIN seekers[t].stamps \subseteq DOMAIN With(seekers[t].stamps, k, stamp)
  BY DEF With
<1>4. IsSeeker(seekers'[t])
  BY <1>1, <1>2, <1>3 DEF ShardListed, IsSeeker
<1>5. \A x \in DOMAIN seekers' : IsSeeker(seekers'[x])
  BY <1>4 DEF MapTypeOK, ShardListed
<1>6. QED
  BY <1>5, MapTypeIntro DEF MapTypeOK, ShardListed

LEMMA VictimsChosenType ==
    ASSUME MapTypeOK, NEW t \in Thread, NEW victims \in SUBSET Key,
           VictimsChosen(t, victims)
    PROVE  MapTypeOK'
<1>1. t \in DOMAIN seekers /\ IsSeeker(seekers[t])
  BY DEF VictimsChosen, Visited, MapTypeOK
<1>2. IsSeeker(seekers'[t])
  BY <1>1 DEF VictimsChosen, IsSeeker
<1>3. \A x \in DOMAIN seekers' : IsSeeker(seekers'[x])
  BY <1>2 DEF MapTypeOK, VictimsChosen
<1>4. QED
  BY <1>3, MapTypeIntro DEF MapTypeOK, VictimsChosen

LEMMA VictimTakenType ==
    ASSUME MapTypeOK, NEW t \in Thread, NEW v, VictimTaken(t, v)
    PROVE  MapTypeOK'
<1>1. t \in DOMAIN seekers /\ IsSeeker(seekers[t])
  BY DEF VictimTaken, MapTypeOK
<1>2. IsSeeker(seekers'[t])
  BY <1>1 DEF VictimTaken, IsSeeker
<1>3. \A x \in DOMAIN seekers' : IsSeeker(seekers'[x])
  BY <1>2 DEF MapTypeOK, VictimTaken
<1>4. QED
  BY <1>3, MapTypeIntro DEF MapTypeOK, VictimTaken

LEMMA EvictionEndsType ==
    ASSUME MapTypeOK, NEW t \in Thread, EvictionEnds(t)
    PROVE  MapTypeOK'
<1>1. t \in DOMAIN seekers /\ IsSeeker(seekers[t])
  BY DEF EvictionEnds, MapTypeOK
<1>2. IsSeeker(seekers'[t])
  BY <1>1, NoStampsType DEF EvictionEnds, IsSeeker
<1>3. \A x \in DOMAIN seekers' : IsSeeker(seekers'[x])
  BY <1>2 DEF MapTypeOK, EvictionEnds
<1>4. QED
  BY <1>3, MapTypeIntro DEF MapTypeOK, EvictionEnds

LEMMA OvertakenType ==
    ASSUME MapTypeOK, NEW isNew \in BOOLEAN,
           DOMAIN seekers' \subseteq DOMAIN seekers,
           \A x \in DOMAIN seekers' : seekers'[x] =
               [seekers[x] EXCEPT !.overtaken =
                   IF isNew /\ @ < MaxOvertaken THEN @ + 1 ELSE @]
    PROVE  MapTypeOK'
<1>1. ASSUME NEW x \in DOMAIN seekers' PROVE IsSeeker(seekers'[x])
  <2>1. IsSeeker(seekers[x])
    BY <1>1 DEF MapTypeOK
  <2>2. (IF isNew /\ seekers[x].overtaken < MaxOvertaken
         THEN seekers[x].overtaken + 1 ELSE seekers[x].overtaken)
            \in 0..MaxOvertaken
    BY <2>1, MapAssumption DEF IsSeeker
  <2>3. QED
    BY <1>1, <2>1, <2>2 DEF IsSeeker
<1>2. QED
  BY <1>1, MapTypeIntro DEF MapTypeOK

LEMMA EnteredType ==
    ASSUME MapTypeOK, NEW t \in Thread, NEW isNew \in BOOLEAN,
           Entered(t, isNew)
    PROVE  MapTypeOK'
<1>1. /\ DOMAIN seekers' \subseteq DOMAIN seekers
      /\ \A x \in DOMAIN seekers' : seekers'[x] =
             [seekers[x] EXCEPT !.overtaken =
                 IF isNew /\ @ < MaxOvertaken THEN @ + 1 ELSE @]
  BY DEF Entered, Overtaken, Without
<1>2. QED
  BY <1>1, OvertakenType

LEMMA EnteredUnaskedType ==
    ASSUME MapTypeOK, NEW isNew \in BOOLEAN, EnteredUnasked(isNew)
    PROVE  MapTypeOK'
<1>1. /\ DOMAIN seekers' \subseteq DOMAIN seekers
      /\ \A x \in DOMAIN seekers' : seekers'[x] =
             [seekers[x] EXCEPT !.overtaken =
                 IF isNew /\ @ < MaxOvertaken THEN @ + 1 ELSE @]
  BY DEF EnteredUnasked, Overtaken
<1>2. QED
  BY <1>1, OvertakenType

-----------------------------------------------------------------------------
\* The cap.

\* What a call s knows of the map.  What it counted, or listed, is there or
\* has left; keys that came since are counted by `overtaken`, and an entry of
\* the map that s does not remove itself is within the room s owes.
HasRoom(s, live) ==
    /\ s.phase # "enter" => s.room >= MaxKeys
    /\ s.phase = "len" =>
           /\ DOMAIN s.stamps = {}
           /\ Cardinality(live \ s.unseen) <= s.count + s.overtaken
    /\ s.phase = "scan" =>
           /\ IsFiniteSet(DOMAIN s.stamps)
           /\ Cardinality(live \ (DOMAIN s.stamps \cup s.unseen)) <= s.overtaken
    /\ s.phase \in {"len", "scan"} =>
           Cardinality(live \cup DOMAIN s.stamps) + 1
               <= s.room + s.overtaken + BatchSize
    /\ s.phase = "evict" =>
           Cardinality(live \ s.victims) + 1 <= s.room + s.overtaken
    /\ s.phase = "enter" =>
           Cardinality(live \cup {s.key}) <= s.room + s.overtaken

\* The inductive invariant.  From MaxOvertaken on nothing is claimed of a call.
CapKept(seeking, live) ==
    /\ IsFiniteSet(live)
    /\ \A t \in DOMAIN seeking :
          seeking[t].overtaken < MaxOvertaken => HasRoom(seeking[t], live)

LEMMA CapFacts ==
    /\ MaxKeys \in Nat /\ 1 <= MaxKeys
    /\ BatchSize \in Nat /\ 1 <= BatchSize
    /\ MaxOvertaken \in Nat
<1>1. MaxKeys \in Nat /\ 1 <= MaxKeys /\ MaxOvertaken \in Nat
  BY MapAssumption
<1>2. MaxKeys \div BatchDivisor \in Int
  BY MapAssumption
<1>3. QED
  BY <1>1, <1>2 DEF BatchSize

\* The numbers a call holds.
LEMMA SeekerNumbers ==
    ASSUME NEW s, IsSeeker(s)
    PROVE  /\ s.count \in Nat /\ s.room \in Nat /\ s.overtaken \in Nat
           /\ s.phase \in {"len", "scan", "evict", "enter"}
           /\ s.key \in Key
BY CapFacts DEF IsSeeker

\* A part is no larger than the whole.
LEMMA PartSize ==
    ASSUME NEW S, IsFiniteSet(S), NEW T \in SUBSET S
    PROVE  /\ IsFiniteSet(T)
           /\ Cardinality(T) \in Nat /\ Cardinality(S) \in Nat
           /\ Cardinality(T) <= Cardinality(S)
BY FS_Subset, FS_CardinalityType

\* A set within another and one element has one element more at most.
LEMMA OneMore ==
    ASSUME NEW S, IsFiniteSet(S), NEW k, NEW T, T \subseteq S \cup {k}
    PROVE  /\ IsFiniteSet(T)
           /\ Cardinality(T) \in Nat /\ Cardinality(S) \in Nat
           /\ Cardinality(T) <= Cardinality(S) + 1
<1>1. /\ IsFiniteSet(S \cup {k}) /\ Cardinality(S) \in Nat
      /\ Cardinality(S \cup {k}) <= Cardinality(S) + 1
  <2>1. Cardinality(S) \in Nat
    BY FS_CardinalityType
  <2>2. QED
    BY <2>1, FS_AddElement
<1>2. QED
  BY <1>1, PartSize

\* Without its victims, which are a batch of the list or all of it, the map
\* is smaller by a batch, or holds only what came since it was listed.
LEMMA BatchGone ==
    ASSUME NEW live, IsFiniteSet(live), NEW listed, IsFiniteSet(listed),
           NEW victims \in SUBSET listed
    PROVE  /\ Cardinality(victims) \in Nat
           /\ Cardinality(live \ victims) \in Nat
           /\ Cardinality(live \cup listed) \in Nat
           /\ Cardinality(live \ victims)
                  <= Cardinality(live \cup listed) - Cardinality(victims)
<1> DEFINE all == live \cup listed
<1>1. IsFiniteSet(all) /\ Cardinality(all) \in Nat
  BY FS_Union, FS_CardinalityType
<1>2. all \cap victims = victims
  OBVIOUS
<1>3. /\ IsFiniteSet(all \ victims)
      /\ Cardinality(all \ victims) = Cardinality(all) - Cardinality(victims)
  BY <1>1, <1>2, FS_Difference
<1>4. live \ victims \in SUBSET (all \ victims)
  OBVIOUS
<1>5. /\ Cardinality(live \ victims) \in Nat /\ Cardinality(all \ victims) \in Nat
      /\ Cardinality(live \ victims) <= Cardinality(all \ victims)
  BY <1>3, <1>4, PartSize
<1>6. Cardinality(victims) \in Nat
  BY FS_Subset, FS_CardinalityType
<1> HIDE DEF all
<1>7. QED
  BY <1>1, <1>3, <1>5, <1>6 DEF all

\* A removal leaves every call the room it had.
LEMMA RoomAfterRemoval ==
    ASSUME NEW s, IsSeeker(s), NEW live, IsFiniteSet(live), HasRoom(s, live),
           NEW k
    PROVE  HasRoom(s, live \ {k})
<1> DEFINE less == live \ {k}
<1>1. /\ s.count \in Nat /\ s.room \in Nat /\ s.overtaken \in Nat
      /\ BatchSize \in Nat
  BY SeekerNumbers, CapFacts
<1>2. ASSUME s.phase = "len"
      PROVE  Cardinality(less \ s.unseen) <= s.count + s.overtaken
  <2>1. IsFiniteSet(live \ s.unseen) /\ less \ s.unseen \in SUBSET (live \ s.unseen)
    BY FS_Subset
  <2>2. Cardinality(live \ s.unseen) <= s.count + s.overtaken
    BY <1>2 DEF HasRoom
  <2> HIDE DEF less
  <2>3. QED
    BY <1>1, <2>1, <2>2, PartSize
<1>3. ASSUME s.phase = "scan"
      PROVE  Cardinality(less \ (DOMAIN s.stamps \cup s.unseen)) <= s.overtaken
  <2> DEFINE seen == DOMAIN s.stamps \cup s.unseen
  <2>1. IsFiniteSet(live \ seen) /\ less \ seen \in SUBSET (live \ seen)
    BY FS_Subset
  <2>2. Cardinality(live \ seen) <= s.overtaken
    BY <1>3 DEF HasRoom
  <2> HIDE DEF less, seen
  <2>3. Cardinality(less \ seen) <= s.overtaken
    BY <1>1, <2>1, <2>2, PartSize
  <2>4. QED
    BY <2>3 DEF seen
<1>4. ASSUME s.phase \in {"len", "scan"}
      PROVE  Cardinality(less \cup DOMAIN s.stamps) + 1
                 <= s.room + s.overtaken + BatchSize
  <2>1. IsFiniteSet(DOMAIN s.stamps)
    BY <1>4, FS_EmptySet DEF HasRoom
  <2>2. /\ IsFiniteSet(live \cup DOMAIN s.stamps)
        /\ less \cup DOMAIN s.stamps \in SUBSET (live \cup DOMAIN s.stamps)
    BY <2>1, FS_Union
  <2>3. Cardinality(live \cup DOMAIN s.stamps) + 1
            <= s.room + s.overtaken + BatchSize
    BY <1>4 DEF HasRoom
  <2> HIDE DEF less
  <2>4. QED
    BY <1>1, <2>2, <2>3, PartSize
<1>5. ASSUME s.phase = "evict"
      PROVE  Cardinality(less \ s.victims) + 1 <= s.room + s.overtaken
  <2>1. /\ IsFiniteSet(live \ s.victims)
        /\ less \ s.victims \in SUBSET (live \ s.victims)
    BY FS_Subset
  <2>2. Cardinality(live \ s.victims) + 1 <= s.room + s.overtaken
    BY <1>5 DEF HasRoom
  <2> HIDE DEF less
  <2>3. QED
    BY <1>1, <2>1, <2>2, PartSize
<1>6. ASSUME s.phase = "enter"
      PROVE  Cardinality(less \cup {s.key}) <= s.room + s.overtaken
  <2>1. /\ IsFiniteSet(live \cup {s.key})
        /\ less \cup {s.key} \in SUBSET (live \cup {s.key})
    BY FS_AddElement
  <2>2. Cardinality(live \cup {s.key}) <= s.room + s.overtaken
    BY <1>6 DEF HasRoom
  <2> HIDE DEF less
  <2>3. QED
    BY <1>1, <2>1, <2>2, PartSize
<1>7. QED
  BY <1>2, <1>3, <1>4, <1>5, <1>6 DEF HasRoom

\* A new key takes one entry more of every call it overtakes.
LEMMA RoomAfterInsertion ==
    ASSUME NEW s, IsSeeker(s), NEW live, IsFiniteSet(live), HasRoom(s, live),
           NEW k, NEW s2, s2 = [s EXCEPT !.overtaken = @ + 1]
    PROVE  HasRoom(s2, live \cup {k})
<1> DEFINE more == live \cup {k}
<1>1. /\ s.count \in Nat /\ s.room \in Nat /\ s.overtaken \in Nat
      /\ BatchSize \in Nat
  BY SeekerNumbers, CapFacts
<1>2. /\ s2.phase = s.phase /\ s2.count = s.count /\ s2.room = s.room
      /\ s2.stamps = s.stamps /\ s2.unseen = s.unseen /\ s2.victims = s.victims
      /\ s2.key = s.key /\ s2.overtaken = s.overtaken + 1
  BY DEF IsSeeker
<1>3. ASSUME s.phase = "len"
      PROVE  Cardinality(more \ s.unseen) <= s.count + (s.overtaken + 1)
  <2> DEFINE S == live \ s.unseen
             T == more \ s.unseen
  <2>1. IsFiniteSet(S) /\ T \subseteq S \cup {k}
    BY FS_Subset
  <2>2. Cardinality(S) <= s.count + s.overtaken
    BY <1>3 DEF HasRoom
  <2> HIDE DEF S, T
  <2>3. /\ Cardinality(T) \in Nat /\ Cardinality(S) \in Nat
        /\ Cardinality(T) <= Cardinality(S) + 1
    BY <2>1, OneMore
  <2>4. Cardinality(T) <= s.count + (s.overtaken + 1)
    BY <1>1, <2>2, <2>3
  <2>5. QED
    BY <2>4 DEF T
<1>4. ASSUME s.phase = "scan"
      PROVE  Cardinality(more \ (DOMAIN s.stamps \cup s.unseen)) <= s.overtaken + 1
  <2> DEFINE S == live \ (DOMAIN s.stamps \cup s.unseen)
             T == more \ (DOMAIN s.stamps \cup s.unseen)
  <2>1. IsFiniteSet(S) /\ T \subseteq S \cup {k}
    BY FS_Subset
  <2>2. Cardinality(S) <= s.overtaken
    BY <1>4 DEF HasRoom
  <2> HIDE DEF S, T
  <2>3. /\ Cardinality(T) \in Nat /\ Cardinality(S) \in Nat
        /\ Cardinality(T) <= Cardinality(S) + 1
    BY <2>1, OneMore
  <2>4. Cardinality(T) <= s.overtaken + 1
    BY <1>1, <2>2, <2>3
  <2>5. QED
    BY <2>4 DEF T
<1>5. ASSUME s.phase \in {"len", "scan"}
      PROVE  Cardinality(more \cup DOMAIN s.stamps) + 1
                 <= s.room + (s.overtaken + 1) + BatchSize
  <2>1. IsFiniteSet(DOMAIN s.stamps)
    BY <1>5, FS_EmptySet DEF HasRoom
  <2> DEFINE S == live \cup DOMAIN s.stamps
             T == more \cup DOMAIN s.stamps
  <2>2. IsFiniteSet(S) /\ T \subseteq S \cup {k}
    BY <2>1, FS_Union
  <2>3. Cardinality(S) + 1 <= s.room + s.overtaken + BatchSize
    BY <1>5 DEF HasRoom
  <2> HIDE DEF S, T
  <2>4. /\ Cardinality(T) \in Nat /\ Cardinality(S) \in Nat
        /\ Cardinality(T) <= Cardinality(S) + 1
    BY <2>2, OneMore
  <2>5. Cardinality(T) + 1 <= s.room + (s.overtaken + 1) + BatchSize
    BY <1>1, <2>3, <2>4
  <2>6. QED
    BY <2>5 DEF T
<1>6. ASSUME s.phase = "evict"
      PROVE  Cardinality(more \ s.victims) + 1 <= s.room + (s.overtaken + 1)
  <2> DEFINE S == live \ s.victims
             T == more \ s.victims
  <2>1. IsFiniteSet(S) /\ T \subseteq S \cup {k}
    BY FS_Subset
  <2>2. Cardinality(S) + 1 <= s.room + s.overtaken
    BY <1>6 DEF HasRoom
  <2> HIDE DEF S, T
  <2>3. /\ Cardinality(T) \in Nat /\ Cardinality(S) \in Nat
        /\ Cardinality(T) <= Cardinality(S) + 1
    BY <2>1, OneMore
  <2>4. Cardinality(T) + 1 <= s.room + (s.overtaken + 1)
    BY <1>1, <2>2, <2>3
  <2>5. QED
    BY <2>4 DEF T
<1>7. ASSUME s.phase = "enter"
      PROVE  Cardinality(more \cup {s.key}) <= s.room + (s.overtaken + 1)
  <2> DEFINE S == live \cup {s.key}
             T == more \cup {s.key}
  <2>1. IsFiniteSet(S) /\ T \subseteq S \cup {k}
    BY FS_AddElement
  <2>2. Cardinality(S) <= s.room + s.overtaken
    BY <1>7 DEF HasRoom
  <2> HIDE DEF S, T
  <2>3. /\ Cardinality(T) \in Nat /\ Cardinality(S) \in Nat
        /\ Cardinality(T) <= Cardinality(S) + 1
    BY <2>1, OneMore
  <2>4. Cardinality(T) <= s.room + (s.overtaken + 1)
    BY <1>1, <2>2, <2>3
  <2>5. QED
    BY <2>4 DEF T
<1>8. QED
  BY <1>2, <1>3, <1>4, <1>5, <1>6, <1>7 DEF HasRoom

LEMMA CapAfterRemoval ==
    ASSUME MapTypeOK, NEW live, CapKept(seekers, live), NEW k
    PROVE  CapKept(seekers, live \ {k})
<1>1. IsFiniteSet(live) /\ IsFiniteSet(live \ {k})
  BY FS_RemoveElement DEF CapKept
<1>2. QED
  BY <1>1, RoomAfterRemoval DEF CapKept, MapTypeOK

\* It is enough that a step leaves the call that takes it its room.
LEMMA CapIntro ==
    ASSUME NEW live, CapKept(seekers, live), NEW t,
           DOMAIN seekers' \subseteq DOMAIN seekers \cup {t},
           \A x \in DOMAIN seekers \ {t} : seekers'[x] = seekers[x],
           seekers'[t].overtaken < MaxOvertaken => HasRoom(seekers'[t], live)
    PROVE  CapKept(seekers', live)
BY DEF CapKept

LEMMA LookKeepsCap ==
    ASSUME MapTypeOK, NEW live, CapKept(seekers, live),
           NEW t \in Thread, NEW k \in Key, NEW now \in Nat, live \subseteq Key,
           Look(t, k, now, live)
    PROVE  CapKept(seekers', live)
<1> DEFINE s == Seeking(k, now, live)
           n == Cardinality(live)
<1>1. n \in Nat /\ IsFiniteSet(live)
  BY FS_CardinalityType DEF CapKept
<1>2. /\ MaxKeys \in Nat /\ BatchSize \in Nat /\ DOMAIN NoStamps = {}
      /\ live \ Key = {} /\ live \cup {} = live
      /\ Cardinality({}) = 0
  BY CapFacts, FS_EmptySet DEF NoStamps
<1>3. CASE k \in live
  <2>1. live \cup {k} = live
    BY <1>3
  <2>2. /\ s.phase = "enter" /\ s.key = k /\ s.room = n /\ s.overtaken = 0
    BY <1>3 DEF Seeking, RoomOwed
  <2>3. Cardinality(live \cup {k}) <= n + 0
    BY <1>1, <2>1
  <2> HIDE DEF s
  <2>4. HasRoom(s, live)
    BY <2>2, <2>3 DEF HasRoom
  <2>5. QED
    <3>1. /\ DOMAIN seekers' = DOMAIN seekers \cup {t}
          /\ seekers'[t] = s
          /\ \A x \in DOMAIN seekers \ {t} : seekers'[x] = seekers[x]
      BY DEF Look, With, s
    <3>2. QED
      BY <2>4, <3>1, CapIntro
<1>4. CASE k \notin live
  <2>1. /\ s.phase = "len" /\ s.unseen = Key /\ s.count = 0 /\ s.overtaken = 0
        /\ s.stamps = NoStamps /\ s.room = Greater(MaxKeys, n + 1 - BatchSize)
    BY <1>4 DEF Seeking, RoomOwed
  <2>2. s.room >= MaxKeys /\ n + 1 <= s.room + 0 + BatchSize
    BY <1>1, <1>2, <2>1 DEF Greater
  <2>3. /\ DOMAIN s.stamps = {} /\ Cardinality(live \ s.unseen) = 0
        /\ Cardinality(live \cup DOMAIN s.stamps) = n
    BY <1>2, <2>1
  <2>4. 0 <= 0 + 0
    OBVIOUS
  <2> HIDE DEF s, n
  <2>5. HasRoom(s, live)
    BY <2>1, <2>2, <2>3, <2>4 DEF HasRoom
  <2>6. QED
    <3>1. /\ DOMAIN seekers' = DOMAIN seekers \cup {t}
          /\ seekers'[t] = s
          /\ \A x \in DOMAIN seekers \ {t} : seekers'[x] = seekers[x]
      BY DEF Look, With, s
    <3>2. QED
      BY <2>5, <3>1, CapIntro
<1>5. QED
  BY <1>3, <1>4

LEMMA ShardCountedKeepsCap ==
    ASSUME MapTypeOK, NEW live, CapKept(seekers, live),
           NEW t \in Thread, NEW k \in Key, ShardCounted(t, k, k \in live)
    PROVE  CapKept(seekers', live)
<1> DEFINE s == seekers[t]
<1>1. t \in DOMAIN seekers /\ IsSeeker(s) /\ s.phase = "len" /\ k \in s.unseen
  BY DEF ShardCounted, Visits, MapTypeOK
<1>2. /\ DOMAIN seekers' = DOMAIN seekers
      /\ \A x \in DOMAIN seekers \ {t} : seekers'[x] = seekers[x]
      /\ seekers'[t].phase = "len"
      /\ seekers'[t].stamps = s.stamps
      /\ seekers'[t].unseen = s.unseen \ {k}
      /\ seekers'[t].count = IF k \in live THEN s.count + 1 ELSE s.count
      /\ seekers'[t].room = s.room
      /\ seekers'[t].overtaken = s.overtaken
  BY <1>1 DEF ShardCounted, IsSeeker
<1>3. ASSUME s.overtaken < MaxOvertaken
      PROVE  Cardinality(live \ (s.unseen \ {k}))
                 <= (IF k \in live THEN s.count + 1 ELSE s.count) + s.overtaken
  <2>1. /\ Cardinality(live \ s.unseen) <= s.count + s.overtaken
        /\ s.count \in Nat /\ s.overtaken \in Nat
    BY <1>1, <1>3, SeekerNumbers DEF CapKept, HasRoom
  <2>2. IsFiniteSet(live \ s.unseen)
    BY FS_Subset DEF CapKept
  <2>3. CASE k \in live
    <3> DEFINE S == live \ s.unseen
               T == live \ (s.unseen \ {k})
    <3>1. IsFiniteSet(S) /\ T \subseteq S \cup {k}
      BY <2>2
    <3>2. Cardinality(S) <= s.count + s.overtaken
      BY <2>1
    <3> HIDE DEF S, T
    <3>3. /\ Cardinality(T) \in Nat /\ Cardinality(S) \in Nat
          /\ Cardinality(T) <= Cardinality(S) + 1
      BY <3>1, OneMore
    <3>4. Cardinality(T) <= (s.count + 1) + s.overtaken
      BY <2>1, <3>2, <3>3
    <3>5. QED
      BY <2>3, <3>4 DEF T
  <2>4. CASE k \notin live
    <3>1. live \ (s.unseen \ {k}) = live \ s.unseen
      BY <2>4
    <3>2. QED
      BY <2>1, <2>4, <3>1
  <2>5. QED
    BY <2>3, <2>4
<1>4. seekers'[t].overtaken < MaxOvertaken => HasRoom(seekers'[t], live)
  BY <1>1, <1>2, <1>3 DEF HasRoom, CapKept
<1>5. QED
  BY <1>2, <1>4, CapIntro

LEMMA DecideKeepsCap ==
    ASSUME MapTypeOK, NEW live, CapKept(seekers, live),
           NEW t \in Thread, live \subseteq Key, Decide(t)
    PROVE  CapKept(seekers', live)
<1> DEFINE s == seekers[t]
<1>1. t \in DOMAIN seekers /\ IsSeeker(s) /\ s.phase = "len" /\ s.unseen = {}
  BY DEF Decide, Visited, MapTypeOK
<1>2. /\ DOMAIN seekers' = DOMAIN seekers
      /\ \A x \in DOMAIN seekers \ {t} : seekers'[x] = seekers[x]
      /\ seekers'[t].phase = IF s.count >= MaxKeys THEN "scan" ELSE "enter"
      /\ seekers'[t].unseen = IF s.count >= MaxKeys THEN Key ELSE {}
      /\ seekers'[t].stamps = s.stamps
      /\ seekers'[t].key = s.key
      /\ seekers'[t].room = s.room
      /\ seekers'[t].overtaken = s.overtaken
  BY <1>1 DEF Decide, IsSeeker
<1>3. ASSUME s.overtaken < MaxOvertaken
      PROVE  HasRoom(seekers'[t], live)
  <2>1. /\ Cardinality(live) <= s.count + s.overtaken
        /\ s.count \in Nat /\ s.overtaken \in Nat /\ s.room \in Nat
        /\ s.room >= MaxKeys /\ MaxKeys \in Nat
        /\ DOMAIN s.stamps = {}
        /\ Cardinality(live \cup DOMAIN s.stamps) + 1
               <= s.room + s.overtaken + BatchSize
    <3>1. live \ {} = live
      OBVIOUS
    <3>2. QED
      BY <1>1, <1>3, <3>1, SeekerNumbers, CapFacts DEF CapKept, HasRoom
  <2>2. CASE s.count >= MaxKeys
    <3>1. live \ (DOMAIN s.stamps \cup Key) = {}
      OBVIOUS
    <3>2. Cardinality({}) = 0 /\ IsFiniteSet({}) /\ 0 <= s.overtaken
      BY <2>1, FS_EmptySet
    <3> HIDE DEF s
    <3>3. QED
      BY <1>2, <2>1, <2>2, <3>1, <3>2 DEF HasRoom
  <2>3. CASE ~(s.count >= MaxKeys)
    <3>1. PICK k : k = s.key
      OBVIOUS
    <3>2. /\ Cardinality(live \cup {k}) \in Nat /\ Cardinality(live) \in Nat
          /\ Cardinality(live \cup {k}) <= Cardinality(live) + 1
      BY OneMore DEF CapKept
    <3>3. Cardinality(live \cup {k}) <= s.room + s.overtaken
      BY <2>1, <2>3, <3>2
    <3>4. Cardinality(live \cup {s.key}) <= s.room + s.overtaken
      BY <3>1, <3>3
    <3> HIDE DEF s
    <3>5. QED
      BY <1>2, <2>3, <3>4 DEF HasRoom
  <2>4. QED
    BY <2>2, <2>3
<1>4. QED
  BY <1>2, <1>3, CapIntro

LEMMA ShardListedKeepsCap ==
    ASSUME MapTypeOK, NEW live, CapKept(seekers, live),
           NEW t \in Thread, NEW k \in Key, NEW stamp,
           ShardListed(t, k, k \in live, stamp)
    PROVE  CapKept(seekers', live)
<1> DEFINE s == seekers[t]
<1>1. t \in DOMAIN seekers /\ IsSeeker(s) /\ s.phase = "scan" /\ k \in s.unseen
  BY DEF ShardListed, Visits, MapTypeOK
<1>2. /\ DOMAIN seekers' = DOMAIN seekers
      /\ \A x \in DOMAIN seekers \ {t} : seekers'[x] = seekers[x]
      /\ seekers'[t].phase = "scan"
      /\ seekers'[t].unseen = s.unseen \ {k}
      /\ seekers'[t].stamps = IF k \in live THEN With(s.stamps, k, stamp)
                                            ELSE s.stamps
      /\ seekers'[t].room = s.room
      /\ seekers'[t].overtaken = s.overtaken
  BY <1>1 DEF ShardListed, IsSeeker
<1>3. DOMAIN seekers'[t].stamps = IF k \in live THEN DOMAIN s.stamps \cup {k}
                                                ELSE DOMAIN s.stamps
  BY <1>2 DEF With
<1>4. ASSUME s.overtaken < MaxOvertaken
      PROVE  HasRoom(seekers'[t], live)
  <2>1. HasRoom(s, live)
    BY <1>1, <1>4 DEF CapKept
  <2>2. live \ (DOMAIN seekers'[t].stamps \cup seekers'[t].unseen)
            = live \ (DOMAIN s.stamps \cup s.unseen)
    BY <1>1, <1>2, <1>3
  <2>3. live \cup DOMAIN seekers'[t].stamps = live \cup DOMAIN s.stamps
    BY <1>3
  <2>4. IsFiniteSet(DOMAIN seekers'[t].stamps)
    BY <1>1, <1>3, <2>1, FS_AddElement DEF HasRoom
  <2> HIDE DEF s
  <2>5. QED
    BY <1>1, <1>2, <2>1, <2>2, <2>3, <2>4 DEF HasRoom
<1>5. QED
  BY <1>2, <1>4, CapIntro

LEMMA VictimsChosenKeepsCap ==
    ASSUME MapTypeOK, NEW live, CapKept(seekers, live),
           NEW t \in Thread, NEW victims, VictimsChosen(t, victims)
    PROVE  CapKept(seekers', live)
<1> DEFINE s == seekers[t]
<1>1. /\ t \in DOMAIN seekers /\ IsSeeker(s) /\ s.phase = "scan"
      /\ s.unseen = {} /\ victims \in SUBSET (DOMAIN s.stamps)
      /\ \/ Cardinality(victims) = BatchSize
         \/ victims = DOMAIN s.stamps
  BY DEF VictimsChosen, Visited, IsOldestBatch, MapTypeOK
<1>2. /\ DOMAIN seekers' = DOMAIN seekers
      /\ \A x \in DOMAIN seekers \ {t} : seekers'[x] = seekers[x]
      /\ seekers'[t].phase = "evict"
      /\ seekers'[t].victims = victims
      /\ seekers'[t].room = s.room
      /\ seekers'[t].overtaken = s.overtaken
  BY <1>1 DEF VictimsChosen, IsSeeker
<1>3. ASSUME s.overtaken < MaxOvertaken
      PROVE  HasRoom(seekers'[t], live)
  <2>1. /\ s.room >= MaxKeys /\ IsFiniteSet(DOMAIN s.stamps)
        /\ Cardinality(live \ (DOMAIN s.stamps \cup s.unseen)) <= s.overtaken
        /\ Cardinality(live \cup DOMAIN s.stamps) + 1
               <= s.room + s.overtaken + BatchSize
    BY <1>1, <1>3 DEF CapKept, HasRoom
  <2>2. /\ s.room \in Nat /\ s.overtaken \in Nat
        /\ MaxKeys \in Nat /\ 1 <= MaxKeys /\ BatchSize \in Nat
    BY <1>1, SeekerNumbers, CapFacts
  <2>3. IsFiniteSet(live)
    BY DEF CapKept
  <2>4. Cardinality(live \ victims) + 1 <= s.room + s.overtaken
    <3>1. CASE Cardinality(victims) = BatchSize
      <4>1. /\ Cardinality(live \ victims) \in Nat
            /\ Cardinality(live \cup DOMAIN s.stamps) \in Nat
            /\ Cardinality(live \ victims)
                   <= Cardinality(live \cup DOMAIN s.stamps) - BatchSize
        BY <1>1, <2>1, <2>3, <3>1, BatchGone
      <4> HIDE DEF s
      <4>2. QED
        BY <2>1, <2>2, <4>1
    <3>2. CASE victims = DOMAIN s.stamps
      <4>1. live \ victims = live \ (DOMAIN s.stamps \cup s.unseen)
        BY <1>1, <3>2
      <4>2. Cardinality(live \ victims) \in Nat
        BY <2>3, FS_Subset, FS_CardinalityType
      <4> HIDE DEF s
      <4>3. QED
        BY <2>1, <2>2, <4>1, <4>2
    <3>3. QED
      BY <1>1, <3>1, <3>2
  <2> HIDE DEF s
  <2>5. QED
    BY <1>2, <2>1, <2>4 DEF HasRoom
<1>4. QED
  BY <1>2, <1>3, CapIntro

\* The victim's entry goes as its call takes it from the list.
LEMMA VictimTakenKeepsCap ==
    ASSUME MapTypeOK, NEW live, CapKept(seekers, live),
           NEW t \in Thread, NEW v, VictimTaken(t, v)
    PROVE  CapKept(seekers', live \ {v})
<1> DEFINE s == seekers[t]
<1>1. /\ t \in DOMAIN seekers /\ IsSeeker(s) /\ s.phase = "evict"
      /\ v \in s.victims
  BY DEF VictimTaken, MapTypeOK
<1>2. /\ DOMAIN seekers' = DOMAIN seekers
      /\ \A x \in DOMAIN seekers \ {t} : seekers'[x] = seekers[x]
      /\ seekers'[t].phase = "evict"
      /\ seekers'[t].victims = s.victims \ {v}
      /\ seekers'[t].room = s.room
      /\ seekers'[t].overtaken = s.overtaken
  BY <1>1 DEF VictimTaken, IsSeeker
<1>3. CapKept(seekers, live \ {v})
  BY CapAfterRemoval
<1>4. ASSUME s.overtaken < MaxOvertaken
      PROVE  HasRoom(seekers'[t], live \ {v})
  <2>1. HasRoom(s, live)
    BY <1>1, <1>4 DEF CapKept
  <2>2. (live \ {v}) \ (s.victims \ {v}) = live \ s.victims
    BY <1>1
  <2> HIDE DEF s
  <2>3. QED
    BY <1>1, <1>2, <2>1, <2>2 DEF HasRoom
<1>5. QED
  BY <1>2, <1>3, <1>4, CapIntro

LEMMA EvictionEndsKeepsCap ==
    ASSUME MapTypeOK, NEW live, CapKept(seekers, live),
           NEW t \in Thread, EvictionEnds(t)
    PROVE  CapKept(seekers', live)
<1> DEFINE s == seekers[t]
<1>1. /\ t \in DOMAIN seekers /\ IsSeeker(s) /\ s.phase = "evict"
      /\ s.victims = {}
  BY DEF EvictionEnds, MapTypeOK
<1>2. /\ DOMAIN seekers' = DOMAIN seekers
      /\ \A x \in DOMAIN seekers \ {t} : seekers'[x] = seekers[x]
      /\ seekers'[t].phase = "enter"
      /\ seekers'[t].key = s.key
      /\ seekers'[t].room = s.room
      /\ seekers'[t].overtaken = s.overtaken
  BY <1>1 DEF EvictionEnds, IsSeeker
<1>3. ASSUME s.overtaken < MaxOvertaken
      PROVE  HasRoom(seekers'[t], live)
  <2>1. live \ s.victims = live
    BY <1>1
  <2>2. Cardinality(live) + 1 <= s.room + s.overtaken
    BY <1>1, <1>3, <2>1 DEF CapKept, HasRoom
  <2>3. PICK k : k = s.key
    OBVIOUS
  <2>4. /\ Cardinality(live \cup {k}) \in Nat /\ Cardinality(live) \in Nat
        /\ Cardinality(live \cup {k}) <= Cardinality(live) + 1
    BY OneMore DEF CapKept
  <2>5. Cardinality(live \cup {s.key}) <= s.room + s.overtaken
    <3>1. s.room \in Nat /\ s.overtaken \in Nat
      BY <1>1, SeekerNumbers
    <3>2. Cardinality(live \cup {k}) <= s.room + s.overtaken
      BY <2>2, <2>4, <3>1
    <3>3. QED
      BY <2>3, <3>2
  <2> HIDE DEF s
  <2>6. QED
    BY <1>2, <2>5 DEF HasRoom
<1>4. QED
  BY <1>2, <1>3, CapIntro

\* A new key overtakes every call that goes on.
LEMMA InsertionKeepsCap ==
    ASSUME MapTypeOK, NEW live, CapKept(seekers, live), NEW k,
           DOMAIN seekers' \subseteq DOMAIN seekers,
           \A x \in DOMAIN seekers' : seekers'[x] =
               [seekers[x] EXCEPT !.overtaken =
                   IF k \notin live /\ @ < MaxOvertaken THEN @ + 1 ELSE @]
    PROVE  CapKept(seekers', live \cup {k})
<1>1. IsFiniteSet(live) /\ IsFiniteSet(live \cup {k})
  BY FS_AddElement DEF CapKept
<1>2. CASE k \in live
  <2>1. \A x \in DOMAIN seekers' : seekers'[x] = seekers[x]
    BY <1>2 DEF MapTypeOK, IsSeeker
  <2>2. live \cup {k} = live
    BY <1>2
  <2>3. QED
    BY <2>1, <2>2 DEF CapKept
<1>3. CASE k \notin live
  <2> SUFFICES ASSUME NEW x \in DOMAIN seekers',
                      seekers'[x].overtaken < MaxOvertaken
               PROVE  HasRoom(seekers'[x], live \cup {k})
    BY <1>1 DEF CapKept
  <2>1. x \in DOMAIN seekers /\ IsSeeker(seekers[x])
    BY DEF MapTypeOK
  <2>2. seekers[x].overtaken \in Nat /\ MaxOvertaken \in Nat
    BY <2>1, SeekerNumbers, CapFacts
  <2>3. /\ seekers[x].overtaken < MaxOvertaken
        /\ seekers'[x] = [seekers[x] EXCEPT !.overtaken = @ + 1]
    BY <1>3, <2>1, <2>2 DEF IsSeeker
  <2>4. HasRoom(seekers[x], live)
    BY <2>1, <2>3 DEF CapKept
  <2>5. QED
    BY <1>1, <2>1, <2>3, <2>4, RoomAfterInsertion
<1>4. QED
  BY <1>2, <1>3

LEMMA EnteredKeepsCap ==
    ASSUME MapTypeOK, NEW live, CapKept(seekers, live), NEW t \in Thread, NEW k,
           Entered(t, k \notin live)
    PROVE  CapKept(seekers', live \cup {k})
<1>1. /\ DOMAIN seekers' \subseteq DOMAIN seekers
      /\ \A x \in DOMAIN seekers' : seekers'[x] =
             [seekers[x] EXCEPT !.overtaken =
                 IF k \notin live /\ @ < MaxOvertaken THEN @ + 1 ELSE @]
  BY DEF Entered, Overtaken, Without
<1>2. QED
  BY <1>1, InsertionKeepsCap

LEMMA EnteredUnaskedKeepsCap ==
    ASSUME MapTypeOK, NEW live, CapKept(seekers, live),
           NEW k, EnteredUnasked(k \notin live)
    PROVE  CapKept(seekers', live \cup {k})
<1>1. /\ DOMAIN seekers' \subseteq DOMAIN seekers
      /\ \A x \in DOMAIN seekers' : seekers'[x] =
             [seekers[x] EXCEPT !.overtaken =
                 IF k \notin live /\ @ < MaxOvertaken THEN @ + 1 ELSE @]
  BY DEF EnteredUnasked, Overtaken
<1>2. QED
  BY <1>1, InsertionKeepsCap

-----------------------------------------------------------------------------
\* Entries.

LEMMA FullFacts ==
    /\ Limit \in Nat /\ 1 <= Limit
    /\ TicksPerToken \in Nat /\ 1 <= TicksPerToken
    /\ Full \in Nat
<1>1. /\ Limit \in Nat /\ 1 <= Limit
      /\ TicksPerToken \in Nat /\ 1 <= TicksPerToken
  BY LimiterAssumption
<1>2. Full \in Nat
  BY <1>1 DEF Full
<1>3. QED
  BY <1>1, <1>2

LEMMA SinceType ==
    ASSUME NEW a \in Nat, NEW b \in Nat
    PROVE  Since(a, b) \in Nat
BY DEF Since

\* A set of positions has a first one.
LEMMA FirstPosition ==
    ASSUME NEW S \in SUBSET Nat, S # {}
    PROVE  LET first == CHOOSE i \in S : \A j \in S : i <= j
           IN  /\ first \in S
               /\ \A j \in S : first <= j
<1>1. PICK i \in S : \A j \in S : ~(<<j, i>> \in OpToRel(<, Nat))
  BY NatLessThanWellFounded, WFMin
<1>2. \A j \in S : ~(j < i)
  BY <1>1 DEF OpToRel
<1>3. \E x \in S : \A j \in S : x <= j
  BY <1>2
<1>4. QED
  BY <1>3

\* Pruning takes stamps from the front of the log, all of them older than
\* the cutoff, and stops at the first that is not.
LEMMA PrunedIs ==
    ASSUME NEW log \in Seq(Nat), NEW cutoff \in Int
    PROVE  \E gone \in 0..Len(log) :
               /\ Pruned(log, cutoff) \in Seq(Nat)
               /\ Len(Pruned(log, cutoff)) = Len(log) - gone
               /\ \A i \in 1..(Len(log) - gone) :
                      Pruned(log, cutoff)[i] = log[gone + i]
               /\ \A i \in 1..gone : log[i] < cutoff
               /\ gone < Len(log) => log[gone + 1] >= cutoff
<1> DEFINE kept == {i \in 1..Len(log) : log[i] >= cutoff}
<1>1. /\ Len(log) \in Nat
      /\ \A i \in 1..Len(log) : log[i] \in Nat
  BY ElementOfSeq, LenProperties
<1>2. CASE kept = {}
  <2>1. Pruned(log, cutoff) = <<>>
    BY <1>2 DEF Pruned
  <2>2. \A i \in 1..Len(log) : log[i] < cutoff
    BY <1>1, <1>2
  <2>3. Len(log) \in 0..Len(log)
    BY <1>1
  <2>4. /\ Pruned(log, cutoff) \in Seq(Nat)
        /\ Len(Pruned(log, cutoff)) = Len(log) - Len(log)
        /\ \A i \in 1..(Len(log) - Len(log)) :
               Pruned(log, cutoff)[i] = log[Len(log) + i]
    BY <1>1, <2>1
  <2>5. QED
    BY <1>1, <2>2, <2>3, <2>4
<1>3. CASE kept # {}
  <2> DEFINE first == CHOOSE i \in kept : \A j \in kept : i <= j
  <2>1. first \in kept /\ \A j \in kept : first <= j
    <3>1. kept \in SUBSET Nat
      BY <1>1
    <3> HIDE DEF kept
    <3>2. QED
      BY <1>3, <3>1, FirstPosition
  <2>2. Pruned(log, cutoff) = SubSeq(log, first, Len(log))
    BY <1>3 DEF Pruned
  <2>3. first \in 1..Len(log) /\ log[first] >= cutoff
    BY <2>1
  <2>4. \A i \in 1..(first - 1) : log[i] < cutoff
    <3> SUFFICES ASSUME NEW i \in 1..(first - 1) PROVE log[i] < cutoff
      OBVIOUS
    <3>1. i \in 1..Len(log) /\ ~ (first <= i)
      <4> HIDE DEF first, kept
      <4>1. QED
        BY <1>1, <2>3
    <3>2. i \notin kept
      BY <2>1, <3>1
    <3>3. QED
      BY <1>1, <3>1, <3>2
  <2> HIDE DEF first, kept
  <2>5. \A i \in first..Len(log) : log[i] \in Nat
    BY <1>1, <2>3
  <2>6. /\ SubSeq(log, first, Len(log)) \in Seq(Nat)
        /\ Len(SubSeq(log, first, Len(log))) = Len(log) - (first - 1)
        /\ \A i \in 1..(Len(log) - first + 1) :
               SubSeq(log, first, Len(log))[i] = log[first + i - 1]
    BY <1>1, <2>3, <2>5, SubSeqProperties
  <2>7. PICK gone \in 0..Len(log) : gone = first - 1
    BY <1>1, <2>3
  <2>8. /\ Len(Pruned(log, cutoff)) = Len(log) - gone
        /\ \A i \in 1..(Len(log) - gone) :
               Pruned(log, cutoff)[i] = log[gone + i]
        /\ \A i \in 1..gone : log[i] < cutoff
        /\ log[gone + 1] >= cutoff
    BY <1>1, <2>2, <2>3, <2>4, <2>6, <2>7
  <2>9. QED
    BY <2>2, <2>6, <2>8
<1>4. QED
  BY <1>2, <1>3

LEMMA PrunedType ==
    ASSUME NEW log \in Seq(Nat), NEW cutoff \in Int
    PROVE  Pruned(log, cutoff) \in Seq(Nat) /\ Len(Pruned(log, cutoff)) <= Len(log)
<1>1. Len(log) \in Nat
  BY LenProperties
<1>2. PICK gone \in 0..Len(log) :
          /\ Pruned(log, cutoff) \in Seq(Nat)
          /\ Len(Pruned(log, cutoff)) = Len(log) - gone
  BY PrunedIs
<1>3. QED
  BY <1>1, <1>2

LEMMA FreshType ==
    ASSUME algorithm \in Algorithms, NEW now \in Nat
    PROVE  IsEntry(Fresh(now))
<1>1. CASE algorithm = "token_bucket"
  BY <1>1, FullFacts DEF Fresh, IsEntry, NewBucket
<1>2. CASE algorithm = "sliding_window"
  <2>1. <<>> \in Seq(Nat) /\ Len(<<>>) = 0
    OBVIOUS
  <2>2. QED
    BY <1>2, <2>1, FullFacts DEF Fresh, IsEntry
<1>3. CASE algorithm = "fixed_window"
  BY <1>3, FullFacts DEF Fresh, IsEntry, NewWindow
<1>4. QED
  BY <1>1, <1>2, <1>3 DEF Algorithms

LEMMA BucketType ==
    ASSUME NEW e \in [tokens : 0..Full, last_refill : Nat], NEW now \in Nat
    PROVE  BucketAcquired(e, now).entry \in [tokens : 0..Full, last_refill : Nat]
<1>1. Since(now, e.last_refill) \in Nat
  BY SinceType
<1>2. Refilled(e, now) \in [tokens : 0..Full, last_refill : Nat]
  BY <1>1, FullFacts DEF Refilled
<1>3. CASE Refilled(e, now).tokens >= TicksPerToken
  BY <1>2, <1>3, FullFacts DEF BucketAcquired
<1>4. CASE ~(Refilled(e, now).tokens >= TicksPerToken)
  BY <1>2, <1>4 DEF BucketAcquired
<1>5. QED
  BY <1>3, <1>4

LEMMA LogType ==
    ASSUME NEW log \in Seq(Nat), Len(log) <= Limit, NEW now \in Nat
    PROVE  /\ LogAcquired(log, now).entry \in Seq(Nat)
           /\ Len(LogAcquired(log, now).entry) <= Limit
<1> DEFINE p == Pruned(log, now - Window)
<1>1. now - Window \in Int
  BY LimiterAssumption
<1>2. p \in Seq(Nat) /\ Len(p) <= Len(log)
  BY <1>1, PrunedType
<1> HIDE DEF p
<1>3. CASE Len(p) < Limit
  <2>1. LogAcquired(log, now).entry = Append(p, now)
    BY <1>3 DEF LogAcquired, p
  <2>2. Append(p, now) \in Seq(Nat) /\ Len(Append(p, now)) = Len(p) + 1
    BY <1>2
  <2>3. Len(p) \in Nat
    BY <1>2
  <2>4. QED
    BY <1>3, <2>1, <2>2, <2>3, FullFacts
<1>4. CASE ~(Len(p) < Limit)
  <2>1. LogAcquired(log, now).entry = p
    BY <1>4 DEF LogAcquired, p
  <2>2. Len(p) \in Nat /\ Len(log) \in Nat
    BY <1>2
  <2>3. QED
    BY <1>2, <2>1, <2>2, FullFacts
<1>5. QED
  BY <1>3, <1>4

LEMMA WindowType ==
    ASSUME NEW e \in [count : 0..Limit, window_start : Nat], NEW now \in Nat
    PROVE  WindowAcquired(e, now).entry \in [count : 0..Limit, window_start : Nat]
<1>1. Rolled(e, now) \in [count : 0..Limit, window_start : Nat]
  BY FullFacts DEF Rolled, NewWindow
<1>2. CASE Rolled(e, now).count < Limit
  BY <1>1, <1>2, FullFacts DEF WindowAcquired
<1>3. CASE ~(Rolled(e, now).count < Limit)
  BY <1>1, <1>3 DEF WindowAcquired
<1>4. QED
  BY <1>2, <1>3

\* A check leaves an entry of the limiter's kind.
LEMMA AcquiredType ==
    ASSUME algorithm \in Algorithms, NEW e, IsEntry(e), NEW now \in Nat
    PROVE  IsEntry(Acquired(e, now).entry)
<1>1. CASE algorithm = "token_bucket"
  BY <1>1, BucketType DEF IsEntry, Acquired
<1>2. CASE algorithm = "sliding_window"
  BY <1>2, LogType DEF IsEntry, Acquired
<1>3. CASE algorithm = "fixed_window"
  BY <1>3, WindowType DEF IsEntry, Acquired
<1>4. QED
  BY <1>1, <1>2, <1>3 DEF Algorithms

LEMMA StampType ==
    ASSUME algorithm \in Algorithms, NEW e, IsEntry(e)
    PROVE  Stamp(e) \in Nat \cup {None}
<1>1. CASE algorithm = "token_bucket"
  BY <1>1 DEF IsEntry, Stamp, BucketStamp
<1>2. CASE algorithm = "sliding_window"
  <2>1. e \in Seq(Nat)
    BY <1>2 DEF IsEntry
  <2>2. e # <<>> => e[Len(e)] \in Nat
    BY <2>1
  <2>3. QED
    BY <1>2, <2>2 DEF Stamp, LogStamp
<1>3. CASE algorithm = "fixed_window"
  BY <1>3 DEF IsEntry, Stamp, WindowStamp
<1>4. QED
  BY <1>1, <1>2, <1>3 DEF Algorithms

-----------------------------------------------------------------------------
\* Steps.

\* It is enough that a step leaves the map its types.
LEMMA TypeIntro ==
    ASSUME TypeOK, MapTypeOK', algorithm' = algorithm, clock' \in Nat,
           admitted' \in [Key -> Seq(Nat)], DOMAIN entries' \subseteq Key,
           \A k \in DOMAIN entries' : IsEntry(entries'[k])
    PROVE  TypeOK'
BY DEF TypeOK, IsEntry

\* An entry that is put, or taken, leaves the others alone.
LEMMA PutType ==
    ASSUME TypeOK, NEW k \in Key, NEW e, IsEntry(e), entries' = With(entries, k, e)
    PROVE  /\ DOMAIN entries' = DOMAIN entries \cup {k}
           /\ DOMAIN entries' \subseteq Key
           /\ \A x \in DOMAIN entries' : IsEntry(entries'[x])
BY DEF TypeOK, With

LEMMA TakenType ==
    ASSUME TypeOK, NEW k, entries' = Without(entries, k)
    PROVE  /\ DOMAIN entries' = DOMAIN entries \ {k}
           /\ DOMAIN entries' \subseteq Key
           /\ \A x \in DOMAIN entries' : IsEntry(entries'[x])
BY DEF TypeOK, Without

LEMMA EntryType ==
    ASSUME TypeOK, NEW k \in Key, NEW now \in Nat
    PROVE  IsEntry(Entry(k, now))
BY FreshType DEF TypeOK, Entry

\* The inductive invariant.
Inv == TypeOK /\ CapKept(seekers, DOMAIN entries)

LEMMA InitInv == Init => Inv
<1> SUFFICES ASSUME Init
             PROVE  Inv
  OBVIOUS
<1>1. DOMAIN entries = {} /\ DOMAIN seekers = {}
  BY DEF Init, MapInit
<1>2. MapTypeOK
  BY MapInitType DEF Init
<1>3. [k \in Key |-> <<>>] \in [Key -> Seq(Nat)]
  OBVIOUS
<1>4. TypeOK
  BY <1>1, <1>2, <1>3 DEF Init, TypeOK
<1>5. CapKept(seekers, DOMAIN entries)
  <2>1. IsFiniteSet({})
    BY FS_EmptySet
  <2>2. QED
    BY <1>1, <2>1 DEF CapKept
<1>6. QED
  BY <1>4, <1>5 DEF Inv

\* The steps of a call that leave the map alone.
LEMMA LookingInv ==
    ASSUME Inv, NEW t \in Thread,
           \/ \E k \in Key, now \in Readings : CheckBegin(t, k, now)
           \/ \E k \in Key : CountShard(t, k) \/ ListShard(t, k)
           \/ DecideRoom(t)
           \/ \E victims \in SUBSET Key : ChooseVictims(t, victims)
           \/ EndEviction(t)
    PROVE  Inv'
<1> DEFINE live == DOMAIN entries
<1>1. /\ TypeOK /\ MapTypeOK /\ live \subseteq Key
      /\ CapKept(seekers, live)
  BY DEF Inv, TypeOK
<1>2. UNCHANGED <<algorithm, clock, entries, admitted>>
  BY DEF CheckBegin, CountShard, ListShard, DecideRoom, ChooseVictims, EndEviction
<1>3. SUFFICES MapTypeOK' /\ CapKept(seekers', live)
  <2>1. ASSUME MapTypeOK' PROVE TypeOK'
    BY <1>1, <1>2, <2>1, TypeIntro DEF TypeOK
  <2>2. QED
    BY <1>2, <2>1 DEF Inv
<1>4. ASSUME NEW k \in Key, NEW now \in Readings, CheckBegin(t, k, now)
      PROVE  MapTypeOK' /\ CapKept(seekers', live)
  <2>1. now \in Nat /\ Look(t, k, now, live)
    BY <1>4 DEF CheckBegin, Readings
  <2>2. Cardinality(live) \in Nat
    BY <1>1, FS_CardinalityType DEF CapKept
  <2>3. QED
    BY <1>1, <2>1, <2>2, LookType, LookKeepsCap
<1>5. ASSUME NEW k \in Key, CountShard(t, k)
      PROVE  MapTypeOK' /\ CapKept(seekers', live)
  <2>1. ShardCounted(t, k, k \in live) /\ (k \in live) \in BOOLEAN
    BY <1>5 DEF CountShard
  <2>2. QED
    BY <1>1, <2>1, ShardCountedType, ShardCountedKeepsCap
<1>6. ASSUME NEW k \in Key, ListShard(t, k)
      PROVE  MapTypeOK' /\ CapKept(seekers', live)
  <2>1. PICK stamp \in Nat \cup {None} : ShardListed(t, k, k \in live, stamp)
    <3>1. CASE k \in live
      <4>1. ShardListed(t, k, TRUE, Stamp(entries[k]))
        BY <1>6, <3>1 DEF ListShard
      <4>2. Stamp(entries[k]) \in Nat \cup {None}
        BY <1>1, <3>1, StampType DEF TypeOK
      <4>3. (k \in live) = TRUE
        BY <3>1
      <4>4. QED
        BY <4>1, <4>2, <4>3
    <3>2. CASE k \notin live
      <4>1. ShardListed(t, k, FALSE, None)
        BY <1>6, <3>2 DEF ListShard
      <4>2. (k \in live) = FALSE
        BY <3>2
      <4>3. QED
        BY <4>1, <4>2
    <3>3. QED
      BY <3>1, <3>2
  <2>2. (k \in live) \in BOOLEAN
    OBVIOUS
  <2>3. QED
    BY <1>1, <2>1, <2>2, ShardListedType, ShardListedKeepsCap
<1>7. CASE DecideRoom(t)
  BY <1>1, <1>7, DecideType, DecideKeepsCap DEF DecideRoom
<1>8. ASSUME NEW victims \in SUBSET Key, ChooseVictims(t, victims)
      PROVE  MapTypeOK' /\ CapKept(seekers', live)
  BY <1>1, <1>8, VictimsChosenType, VictimsChosenKeepsCap DEF ChooseVictims
<1>9. CASE EndEviction(t)
  BY <1>1, <1>9, EvictionEndsType, EvictionEndsKeepsCap DEF EndEviction
<1>10. QED
  BY <1>4, <1>5, <1>6, <1>7, <1>8, <1>9

LEMMA RemovalInv ==
    ASSUME Inv, NEW t \in Thread, NEW v \in Key, RemoveVictim(t, v)
    PROVE  Inv'
<1>1. /\ TypeOK /\ MapTypeOK /\ CapKept(seekers, DOMAIN entries)
  BY DEF Inv, TypeOK
<1>2. MapTypeOK'
  BY <1>1, VictimTakenType DEF RemoveVictim
<1>3. /\ DOMAIN entries' = DOMAIN entries \ {v}
      /\ DOMAIN entries' \subseteq Key
      /\ \A x \in DOMAIN entries' : IsEntry(entries'[x])
  BY <1>1, TakenType DEF RemoveVictim
<1>4. admitted' \in [Key -> Seq(Nat)]
  BY <1>1 DEF TypeOK, RemoveVictim
<1>5. TypeOK'
  BY <1>1, <1>2, <1>3, <1>4, TypeIntro DEF TypeOK, RemoveVictim
<1>6. CapKept(seekers', DOMAIN entries \ {v})
  BY <1>1, VictimTakenKeepsCap DEF RemoveVictim
<1>7. QED
  BY <1>3, <1>5, <1>6 DEF Inv

LEMMA EntryInv ==
    ASSUME Inv, NEW t \in Thread, CheckEntered(t)
    PROVE  Inv'
<1> DEFINE k == seekers[t].key
           now == Reading(t)
           got == Acquired(Entry(k, now), now)
<1>1. /\ TypeOK /\ MapTypeOK /\ CapKept(seekers, DOMAIN entries)
      /\ t \in DOMAIN seekers /\ IsSeeker(seekers[t])
  BY DEF Inv, TypeOK, MapTypeOK, CheckEntered
<1>2. k \in Key /\ now \in Nat
  BY <1>1 DEF IsSeeker, Reading, TypeOK
<1>3. /\ Entered(t, k \notin DOMAIN entries)
      /\ entries' = With(entries, k, got.entry)
      /\ admitted' = IF got.allowed
                     THEN [admitted EXCEPT ![k] = Append(@, clock)]
                     ELSE admitted
      /\ UNCHANGED <<algorithm, clock>>
  BY DEF CheckEntered
<1>4. IsEntry(got.entry)
  BY <1>1, <1>2, EntryType, AcquiredType DEF TypeOK
<1> HIDE DEF k, now, got
<1>5. /\ DOMAIN entries' = DOMAIN entries \cup {k}
      /\ DOMAIN entries' \subseteq Key
      /\ \A x \in DOMAIN entries' : IsEntry(entries'[x])
  BY <1>1, <1>2, <1>3, <1>4, PutType
<1>6. admitted' \in [Key -> Seq(Nat)]
  <2>1. admitted \in [Key -> Seq(Nat)] /\ clock \in Nat
    BY <1>1 DEF TypeOK
  <2>2. Append(admitted[k], clock) \in Seq(Nat)
    BY <1>2, <2>1
  <2>3. QED
    BY <1>3, <2>1, <2>2
<1>7. MapTypeOK'
  <2>1. (k \notin DOMAIN entries) \in BOOLEAN
    OBVIOUS
  <2>2. QED
    BY <1>1, <1>3, <2>1, EnteredType
<1>8. TypeOK'
  BY <1>1, <1>3, <1>5, <1>6, <1>7, TypeIntro DEF TypeOK
<1>9. CapKept(seekers', DOMAIN entries \cup {k})
  BY <1>1, <1>3, EnteredKeepsCap DEF k
<1>10. QED
  BY <1>5, <1>8, <1>9 DEF Inv

\* A step that puts an entry without looking for room.
LEMMA UnaskedInv ==
    ASSUME Inv, NEW k \in Key, NEW e, IsEntry(e),
           EnteredUnasked(k \notin DOMAIN entries),
           entries' = With(entries, k, e),
           admitted' \in [Key -> Seq(Nat)],
           UNCHANGED <<algorithm, clock>>
    PROVE  Inv'
<1>1. TypeOK /\ MapTypeOK /\ CapKept(seekers, DOMAIN entries)
  BY DEF Inv, TypeOK
<1>2. /\ DOMAIN entries' = DOMAIN entries \cup {k}
      /\ DOMAIN entries' \subseteq Key
      /\ \A x \in DOMAIN entries' : IsEntry(entries'[x])
  BY <1>1, PutType
<1>3. MapTypeOK'
  <2>1. (k \notin DOMAIN entries) \in BOOLEAN
    OBVIOUS
  <2>2. QED
    BY <1>1, <2>1, EnteredUnaskedType
<1>4. TypeOK'
  BY <1>1, <1>2, <1>3, TypeIntro DEF TypeOK
<1>5. CapKept(seekers', DOMAIN entries \cup {k})
  BY <1>1, EnteredUnaskedKeepsCap
<1>6. QED
  BY <1>2, <1>4, <1>5 DEF Inv

LEMMA ResetInv ==
    ASSUME Inv, NEW k \in Key, ResetBucket(k) \/ ResetRemoves(k)
    PROVE  Inv'
<1>1. TypeOK /\ MapTypeOK /\ CapKept(seekers, DOMAIN entries)
  BY DEF Inv, TypeOK
<1>2. [admitted EXCEPT ![k] = <<>>] \in [Key -> Seq(Nat)]
  BY <1>1 DEF TypeOK
<1>3. CASE ResetBucket(k)
  <2>1. IsEntry(NewBucket(clock))
    BY <1>1, <1>3, FullFacts DEF ResetBucket, IsEntry, NewBucket, TypeOK
  <2>2. QED
    BY <1>2, <1>3, <2>1, UnaskedInv DEF ResetBucket
<1>4. CASE ResetRemoves(k)
  <2>1. /\ entries' = Without(entries, k)
        /\ admitted' = [admitted EXCEPT ![k] = <<>>]
        /\ UNCHANGED <<seekers, algorithm, clock>>
    BY <1>4 DEF ResetRemoves
  <2>2. /\ DOMAIN entries' = DOMAIN entries \ {k}
        /\ DOMAIN entries' \subseteq Key
        /\ \A x \in DOMAIN entries' : IsEntry(entries'[x])
    BY <1>1, <2>1, TakenType
  <2>3. MapTypeOK'
    BY <1>1, <2>1 DEF MapTypeOK, IsSeeker
  <2>4. TypeOK'
    BY <1>1, <1>2, <2>1, <2>2, <2>3, TypeIntro DEF TypeOK
  <2>5. CapKept(seekers, DOMAIN entries \ {k})
    BY <1>1, CapAfterRemoval
  <2>6. QED
    BY <2>1, <2>2, <2>4, <2>5 DEF Inv
<1>5. QED
  BY <1>3, <1>4

LEMMA CleanAndCountInv ==
    ASSUME Inv, NEW k \in Key, NEW now \in Readings, CleanAndCount(k, now)
    PROVE  Inv'
<1>1. TypeOK /\ now \in Nat
  BY DEF Inv, Readings
<1>2. IsEntry(Pruned(Entry(k, now), now - Window))
  <2>1. Entry(k, now) \in Seq(Nat) /\ Len(Entry(k, now)) <= Limit
    BY <1>1, EntryType DEF IsEntry, CleanAndCount
  <2>2. now - Window \in Int
    BY <1>1, LimiterAssumption
  <2>3. /\ Pruned(Entry(k, now), now - Window) \in Seq(Nat)
        /\ Len(Pruned(Entry(k, now), now - Window)) <= Len(Entry(k, now))
    BY <2>1, <2>2, PrunedType
  <2>4. Len(Pruned(Entry(k, now), now - Window)) <= Limit
    <3>1. /\ Len(Entry(k, now)) \in Nat
          /\ Len(Pruned(Entry(k, now), now - Window)) \in Nat
      BY <2>1, <2>3
    <3>2. QED
      BY <2>1, <2>3, <3>1, FullFacts
  <2>5. QED
    BY <2>3, <2>4 DEF IsEntry, CleanAndCount
<1>3. admitted' \in [Key -> Seq(Nat)]
  BY <1>1 DEF TypeOK, CleanAndCount
<1>4. QED
  BY <1>2, <1>3, UnaskedInv DEF CleanAndCount

LEMMA TickInv ==
    ASSUME Inv, Tick
    PROVE  Inv'
<1>1. TypeOK /\ UNCHANGED <<seekers, algorithm, entries, admitted>>
      /\ clock' = clock + 1
  BY DEF Inv, Tick
<1>2. MapTypeOK'
  BY <1>1 DEF TypeOK, MapTypeOK, IsSeeker
<1>3. TypeOK'
  BY <1>1, <1>2, TypeIntro DEF TypeOK
<1>4. QED
  BY <1>1, <1>3 DEF Inv

LEMMA NextInv == Inv /\ [Next]_vars => Inv'
<1> SUFFICES ASSUME Inv, [Next]_vars
             PROVE  Inv'
  OBVIOUS
<1>1. CASE Next
  BY <1>1, TickInv, LookingInv, RemovalInv, EntryInv, ResetInv, CleanAndCountInv
     DEF Next
<1>2. CASE UNCHANGED vars
  BY <1>2 DEF vars, Inv, TypeOK, MapTypeOK, IsSeeker, IsEntry
<1>3. QED
  BY <1>1, <1>2

LEMMA SpecInv == Spec => []Inv
BY InitInv, NextInv, PTL DEF Spec

-----------------------------------------------------------------------------
\* The types of the limiter, and that no log, count or bucket passes the limit
\* (TokenBucket, SlidingWindowLog, FixedWindow), in every reachable state.
THEOREM TypeCorrect == Spec => []TypeOK
<1>1. Inv => TypeOK
  BY DEF Inv
<1>2. QED
  BY <1>1, SpecInv, PTL

\* However many threads look for room, list, evict, insert and reset at once,
\* a call of try_acquire (token_bucket.rs:112) leaves the map within max_keys,
\* or a batch less one smaller than it found it, but for one entry for each
\* key that others inserted while it looked.
THEOREM RoomMade == Spec => []CallsMakeRoom
<1>1. Inv => CallsMakeRoom
  BY DEF Inv, CapKept, HasRoom, CallsMakeRoom, MakesRoom
<1>2. QED
  BY <1>1, SpecInv, PTL

-----------------------------------------------------------------------------
\* What the algorithms admit.

LEMMA ConstFacts ==
    /\ Limit \in Nat /\ 1 <= Limit
    /\ TicksPerToken \in Nat /\ 1 <= TicksPerToken
    /\ Full \in Nat
    /\ Window \in Nat /\ 1 <= Window
    /\ MaxStall \in Nat
BY LimiterAssumption, FullFacts

LEMMA TimesParts ==
    ASSUME NEW times \in Seq(Nat)
    PROVE  /\ Len(times) \in Nat
           /\ \A i \in 1..Len(times) : times[i] \in Nat
BY ElementOfSeq, LenProperties

LEMMA Added ==
    ASSUME NEW times \in Seq(Nat), NEW at \in Nat
    PROVE  /\ Append(times, at) \in Seq(Nat)
           /\ Len(Append(times, at)) = Len(times) + 1
           /\ \A i \in 1..Len(times) : Append(times, at)[i] = times[i]
           /\ Append(times, at)[Len(times) + 1] = at
BY AppendProperties

\* LimitKept of one key, and of the stretches that end with its last request.
StretchesKept(times) ==
    \A i, j \in 1..Len(times) : i <= j => Allows(j - i + 1, times[j] - times[i])

LastKept(times) ==
    \A i \in 1..Len(times) :
        Allows(Len(times) - i + 1, times[Len(times)] - times[i])

LEMMA StretchesAdded ==
    ASSUME NEW times \in Seq(Nat), NEW at \in Nat, StretchesKept(times),
           LastKept(Append(times, at))
    PROVE  StretchesKept(Append(times, at))
<1> DEFINE times2 == Append(times, at)
<1>1. /\ Len(times) \in Nat
      /\ Len(times2) = Len(times) + 1
      /\ \A i \in 1..Len(times) : times2[i] = times[i]
  BY Added, TimesParts
<1>2. \A i \in 1..Len(times2) : Allows(Len(times2) - i + 1,
                                       times2[Len(times2)] - times2[i])
  BY DEF LastKept
<1> HIDE DEF times2
<1>3. ASSUME NEW i \in 1..Len(times2), NEW j \in 1..Len(times2), i <= j
      PROVE  Allows(j - i + 1, times2[j] - times2[i])
  <2>1. CASE j = Len(times2)
    BY <1>2, <2>1
  <2>2. CASE j # Len(times2)
    <3>1. i \in 1..Len(times) /\ j \in 1..Len(times)
      BY <1>1, <1>3, <2>2
    <3>2. QED
      BY <1>1, <1>3, <3>1 DEF StretchesKept
  <2>3. QED
    BY <2>1, <2>2
<1>4. QED
  BY <1>3 DEF StretchesKept, times2

-----------------------------------------------------------------------------
\* TokenBucket

\* What the requests since any one of them cost, and what is left, came out of
\* a full bucket and what has been refilled since.
BucketKept(e, times, at) ==
    /\ e.last_refill <= at
    /\ \A i \in 1..Len(times) :
           (Len(times) - i + 1) * TicksPerToken + e.tokens
               <= Full + (e.last_refill - times[i])

LEMMA Quotient ==
    ASSUME NEW n \in Int, NEW x \in Int, n * TicksPerToken <= x
    PROVE  n <= x \div TicksPerToken
<1>1. PICK q \in Int : q = x \div TicksPerToken
  BY ConstFacts
<1>2. x < (q + 1) * TicksPerToken
  <2>1. PICK r \in Int : x = q * TicksPerToken + r /\ 0 <= r /\ r < TicksPerToken
    BY <1>1, ConstFacts
  <2>2. QED
    BY <2>1, ConstFacts
<1>3. ~ (n >= q + 1)
  <2> SUFFICES ASSUME n >= q + 1 PROVE FALSE
    OBVIOUS
  <2>1. n * TicksPerToken >= (q + 1) * TicksPerToken
    BY ConstFacts
  <2>2. n * TicksPerToken \in Int /\ (q + 1) * TicksPerToken \in Int
    BY ConstFacts
  <2>3. QED
    BY <1>2, <2>1, <2>2
<1>4. QED
  BY <1>1, <1>3

\* A refill, and its min.
LEMMA BucketRefills ==
    ASSUME NEW e \in [tokens : 0..Full, last_refill : Nat],
           NEW times \in Seq(Nat), NEW at \in Nat, BucketKept(e, times, at)
    PROVE  BucketKept(Refilled(e, at), times, at)
<1> DEFINE r == Refilled(e, at)
<1>1. /\ r.last_refill = at
      /\ r.tokens \in 0..Full
      /\ r.tokens <= e.tokens + (at - e.last_refill)
  BY ConstFacts DEF Refilled, BucketKept, Since
<1> HIDE DEF r
<1>2. ASSUME NEW i \in 1..Len(times)
      PROVE  (Len(times) - i + 1) * TicksPerToken + r.tokens <= Full + (at - times[i])
  <2>1. PICK c \in Int : c = (Len(times) - i + 1) * TicksPerToken
    BY TimesParts, ConstFacts
  <2>2. PICK m \in Nat : m = times[i]
    BY TimesParts
  <2>3. c + e.tokens <= Full + (e.last_refill - m)
    BY <2>1, <2>2 DEF BucketKept
  <2>4. c + r.tokens <= Full + (at - m)
    <3>1. PICK left \in Nat, held \in Nat, last \in Nat :
              left = r.tokens /\ held = e.tokens /\ last = e.last_refill
      BY <1>1, ConstFacts
    <3>2. left <= held + (at - last) /\ c + held <= Full + (last - m)
      BY <1>1, <2>3, <3>1
    <3>3. c + left <= Full + (at - m)
      BY <3>2, ConstFacts
    <3>4. QED
      BY <3>1, <3>3
  <2>5. QED
    BY <2>1, <2>2, <2>4
<1>3. QED
  BY <1>1, <1>2 DEF BucketKept, r

\* A token is taken.
LEMMA BucketAdmits ==
    ASSUME NEW e \in [tokens : 0..Full, last_refill : Nat],
           NEW times \in Seq(Nat), NEW at \in Nat, BucketKept(e, times, at),
           e.last_refill = at, e.tokens >= TicksPerToken,
           algorithm = "token_bucket"
    PROVE  /\ BucketKept([e EXCEPT !.tokens = @ - TicksPerToken],
                         Append(times, at), at)
           /\ LastKept(Append(times, at))
<1> DEFINE times2 == Append(times, at)
           left   == e.tokens - TicksPerToken
<1>1. /\ Len(times) \in Nat
      /\ \A i \in 1..Len(times) : times[i] \in Nat
      /\ Len(times2) = Len(times) + 1
      /\ \A i \in 1..Len(times) : times2[i] = times[i]
      /\ times2[Len(times) + 1] = at
  BY Added, TimesParts
<1>2. left \in Nat /\ e.tokens \in 0..Full /\ e.tokens = left + TicksPerToken
  BY ConstFacts
<1> HIDE DEF times2, left
<1>3. ASSUME NEW i \in 1..Len(times2)
      PROVE  /\ times2[i] \in Nat
             /\ (Len(times2) - i + 1) * TicksPerToken + left
                    <= Full + (at - times2[i])
  <2>1. CASE i \in 1..Len(times)
    <3>1. PICK n \in Int : n = Len(times) - i + 1
      BY <1>1
    <3>2. PICK m \in Nat : m = times[i]
      BY <1>1, <2>1
    <3>3. n * TicksPerToken + e.tokens <= Full + (at - m)
      BY <2>1, <3>1, <3>2 DEF BucketKept
    <3>4. Len(times2) - i + 1 = n + 1
      BY <1>1, <3>1
    <3>5. (n + 1) * TicksPerToken = n * TicksPerToken + TicksPerToken
      BY ConstFacts
    <3>6. n * TicksPerToken \in Int
      BY ConstFacts
    <3>7. PICK c \in Int : c = n * TicksPerToken
      BY <3>6
    <3>8. c + TicksPerToken + left <= Full + (at - m)
      BY <1>2, <3>3, <3>7, ConstFacts
    <3>9. times2[i] = m /\ (Len(times2) - i + 1) * TicksPerToken = c + TicksPerToken
      BY <1>1, <2>1, <3>2, <3>4, <3>5, <3>7
    <3>10. QED
      BY <3>8, <3>9
  <2>2. CASE i = Len(times) + 1
    <3>1. times2[i] = at /\ Len(times2) - i + 1 = 1
      BY <1>1, <2>2
    <3>2. 1 * TicksPerToken = TicksPerToken
      BY ConstFacts
    <3>3. QED
      BY <1>2, <3>1, <3>2, ConstFacts
  <2>3. QED
    BY <1>1, <2>1, <2>2
<1>4. BucketKept([e EXCEPT !.tokens = @ - TicksPerToken], times2, at)
  BY <1>3 DEF BucketKept, left
<1>5. LastKept(times2)
  <2> SUFFICES ASSUME NEW i \in 1..Len(times2)
               PROVE  Allows(Len(times2) - i + 1,
                             times2[Len(times2)] - times2[i])
    BY DEF LastKept
  <2>0. Len(times2) \in Int /\ times2[Len(times2)] = at /\ times2[i] \in Nat
    BY <1>1, <1>3
  <2>1. PICK n \in Int, d \in Int :
            n = Len(times2) - i + 1 /\ d = times2[Len(times2)] - times2[i]
    <3>1. PICK m \in Nat : m = times2[i]
      BY <2>0
    <3>2. at - m \in Int /\ Len(times2) - i + 1 \in Int
      BY <2>0
    <3>3. QED
      BY <2>0, <3>1, <3>2
  <2>2. d = at - times2[i] /\ n * TicksPerToken \in Int
    BY <1>1, <2>1, ConstFacts
  <2>3. n * TicksPerToken + left <= Full + d
    BY <1>3, <2>1, <2>2
  <2>4. n * TicksPerToken <= Full + d
    BY <1>2, <2>2, <2>3, ConstFacts
  <2>5. n <= (Full + d) \div TicksPerToken
    <3>1. Full + d \in Int
      BY ConstFacts
    <3>2. QED
      BY <2>4, <3>1, Quotient
  <2>6. QED
    BY <2>1, <2>5 DEF Allows
<1>6. QED
  BY <1>4, <1>5 DEF times2

-----------------------------------------------------------------------------
\* SlidingWindowLog

\* The stamps of the log belong to the latest requests, in their order, each
\* read by a stall at most before its request was admitted; those the log has
\* lost are out of every window that a check may still be held to.
LogKept(log, times, at) ==
    LET gone == Len(times) - Len(log)
    IN  /\ \A i \in 1..Len(log) : log[i] <= at
        /\ gone >= 0
        /\ \A i \in 1..Len(log) : /\ log[i] <= times[gone + i]
                                  /\ times[gone + i] <= log[i] + MaxStall
        /\ \A i \in 1..gone : at - times[i] > Window - MaxStall

LEMMA LogTicks ==
    ASSUME NEW log \in Seq(Nat), NEW times \in Seq(Nat), NEW at \in Nat,
           LogKept(log, times, at)
    PROVE  LogKept(log, times, at + 1)
<1>1. /\ Len(log) \in Nat /\ Len(times) \in Nat
      /\ \A i \in 1..Len(log) : log[i] \in Nat
      /\ \A i \in 1..Len(times) : times[i] \in Nat
  BY TimesParts
<1>2. \A i \in 1..Len(log) : log[i] <= at + 1
  BY <1>1 DEF LogKept
<1>3. ASSUME NEW i \in 1..(Len(times) - Len(log))
      PROVE  (at + 1) - times[i] > Window - MaxStall
  <2>1. times[i] \in Nat
    BY <1>1
  <2>2. at - times[i] > Window - MaxStall
    BY DEF LogKept
  <2>3. QED
    BY <2>1, <2>2, ConstFacts
<1>4. QED
  BY <1>2, <1>3 DEF LogKept

LEMMA LogPrunes ==
    ASSUME NEW log \in Seq(Nat), NEW times \in Seq(Nat), NEW at \in Nat,
           LogKept(log, times, at),
           NEW now \in Nat, now <= at
    PROVE  LogKept(Pruned(log, now - Window), times, at)
<1> DEFINE live == Pruned(log, now - Window)
           lost == Len(times) - Len(log)
<1>1. /\ Len(log) \in Nat /\ Len(times) \in Nat
      /\ \A i \in 1..Len(times) : times[i] \in Nat
      /\ \A i \in 1..Len(log) : log[i] \in Nat
  BY TimesParts
<1>2. now - Window \in Int
  BY ConstFacts
<1>3. PICK gone \in 0..Len(log) :
          /\ Len(live) = Len(log) - gone
          /\ \A i \in 1..(Len(log) - gone) : live[i] = log[gone + i]
          /\ \A i \in 1..gone : log[i] < now - Window
  BY <1>2, PrunedIs
<1> HIDE DEF live
<1>4. /\ lost \in Nat
      /\ \A i \in 1..Len(log) : /\ log[i] <= at
                                /\ log[i] <= times[lost + i]
                                /\ times[lost + i] <= log[i] + MaxStall
      /\ \A i \in 1..lost : at - times[i] > Window - MaxStall
  BY <1>1 DEF LogKept
<1>5. Len(times) - Len(live) = lost + gone
  BY <1>1, <1>3
<1>6. ASSUME NEW i \in 1..Len(live)
      PROVE  /\ live[i] <= at
             /\ live[i] <= times[(lost + gone) + i]
             /\ times[(lost + gone) + i] <= live[i] + MaxStall
  <2>1. gone + i \in 1..Len(log) /\ live[i] = log[gone + i]
    BY <1>1, <1>3
  <2>2. lost + (gone + i) = (lost + gone) + i
    BY <1>1, <1>3, <1>4
  <2>3. /\ log[gone + i] <= at
        /\ log[gone + i] <= times[lost + (gone + i)]
        /\ times[lost + (gone + i)] <= log[gone + i] + MaxStall
    BY <1>4, <2>1
  <2>4. QED
    BY <2>1, <2>2, <2>3
<1>7. ASSUME NEW i \in 1..(lost + gone)
      PROVE  at - times[i] > Window - MaxStall
  <2>1. CASE i <= lost
    BY <1>4, <2>1
  <2>2. CASE i > lost
    <3>1. /\ i - lost \in 1..gone /\ i - lost \in 1..Len(log)
          /\ lost + (i - lost) = i /\ i \in 1..Len(times)
      <4>1. PICK n \in Nat, t \in Nat : n = Len(log) /\ t = Len(times)
        BY <1>1
      <4>2. lost \in Nat /\ lost = t - n /\ gone \in 0..n
        BY <1>3, <1>4, <4>1
      <4> HIDE DEF lost
      <4>3. /\ i - lost \in 1..gone /\ i - lost \in 1..n
            /\ lost + (i - lost) = i /\ i \in 1..t
        BY <2>2, <4>2
      <4>4. QED
        BY <4>1, <4>3
    <3>2. PICK m \in Nat, stamp \in Nat : m = times[i] /\ stamp = log[i - lost]
      BY <1>1, <3>1
    <3>3. stamp < now - Window /\ m <= stamp + MaxStall
      BY <1>3, <1>4, <3>1, <3>2
    <3>4. at - m > Window - MaxStall
      BY <3>3, ConstFacts
    <3>5. QED
      BY <3>2, <3>4
  <2>3. QED
    BY <1>4, <2>1, <2>2
<1>8. lost + gone >= 0
  BY <1>3, <1>4
<1>9. QED
  BY <1>5, <1>6, <1>7, <1>8 DEF LogKept, live

LEMMA LogAdmits ==
    ASSUME NEW log \in Seq(Nat), NEW times \in Seq(Nat), NEW at \in Nat,
           LogKept(log, times, at), Len(log) < Limit,
           NEW now \in Nat, now <= at, at <= now + MaxStall,
           algorithm = "sliding_window"
    PROVE  /\ LogKept(Append(log, now), Append(times, at), at)
           /\ LastKept(Append(times, at))
<1> DEFINE log2   == Append(log, now)
           times2 == Append(times, at)
           lost   == Len(times) - Len(log)
<1>1. /\ Len(log) \in Nat /\ Len(times) \in Nat
      /\ \A i \in 1..Len(times) : times[i] \in Nat
  BY TimesParts
<1>2. /\ Len(log2) = Len(log) + 1
      /\ \A i \in 1..Len(log) : log2[i] = log[i]
      /\ log2[Len(log) + 1] = now
      /\ Len(times2) = Len(times) + 1
      /\ \A i \in 1..Len(times) : times2[i] = times[i]
      /\ times2[Len(times) + 1] = at
  BY Added
<1>3. /\ lost \in Nat
      /\ \A i \in 1..Len(log) : /\ log[i] <= at
                                /\ log[i] <= times[lost + i]
                                /\ times[lost + i] <= log[i] + MaxStall
      /\ \A i \in 1..lost : at - times[i] > Window - MaxStall
  BY <1>1 DEF LogKept
<1> HIDE DEF log2, times2
<1>4. Len(times2) - Len(log2) = lost
  BY <1>1, <1>2
<1>5. ASSUME NEW i \in 1..Len(log2)
      PROVE  /\ log2[i] <= at
             /\ log2[i] <= times2[lost + i]
             /\ times2[lost + i] <= log2[i] + MaxStall
  <2>1. CASE i \in 1..Len(log)
    <3>1. lost + i \in 1..Len(times)
      BY <1>1, <1>3, <2>1
    <3>2. QED
      BY <1>2, <1>3, <2>1, <3>1
  <2>2. CASE i = Len(log) + 1
    <3>1. lost + i = Len(times) + 1
      BY <1>1, <2>2
    <3>2. QED
      BY <1>2, <2>2, <3>1
  <2>3. QED
    BY <1>1, <1>2, <2>1, <2>2
<1>6. \A i \in 1..lost : i \in 1..Len(times) /\ times2[i] = times[i]
  BY <1>1, <1>2, <1>3
<1>7. LogKept(log2, times2, at)
  BY <1>3, <1>4, <1>5, <1>6 DEF LogKept
<1>8. LastKept(times2)
  <2> SUFFICES ASSUME NEW i \in 1..Len(times2),
                      times2[Len(times2)] - times2[i] <= Window - MaxStall
               PROVE  Len(times2) - i + 1 <= Limit
    BY DEF LastKept, Allows
  <2>1. times2[Len(times2)] = at
    BY <1>2
  <2>2. i \notin 1..lost
    <3> SUFFICES ASSUME i \in 1..lost PROVE FALSE
      OBVIOUS
    <3>1. PICK m \in Nat : m = times[i]
      BY <1>1, <1>6
    <3>2. at - m > Window - MaxStall /\ at - m <= Window - MaxStall
      BY <1>3, <1>6, <2>1, <3>1
    <3>3. QED
      BY <3>2, ConstFacts
  <2>3. i > Len(times) - Len(log)
    BY <1>3, <2>2
  <2> HIDE DEF lost
  <2>4. QED
    BY <1>1, <1>2, <2>3, ConstFacts
<1>9. QED
  BY <1>7, <1>8 DEF log2, times2

-----------------------------------------------------------------------------
\* FixedWindow

\* The window counts the latest requests, the others came before the check
\* that started it got its lock; and all but max_requests of those are as old
\* as a window, less a stall.
WindowKept(e, times, at) ==
    LET before == Len(times) - e.count
    IN  /\ e.window_start <= at
        /\ \A i \in 1..Len(times) : times[i] <= at
        /\ before >= 0
        /\ \A i \in 1..before : times[i] <= e.window_start + MaxStall
        /\ \A i \in 1..(before - Limit) : at - times[i] >= Window - MaxStall

LEMMA WindowParts ==
    ASSUME NEW e \in [count : 0..Limit, window_start : Nat]
    PROVE  e.count \in Nat /\ e.count <= Limit /\ e.window_start \in Nat
BY ConstFacts

LEMMA WindowTicks ==
    ASSUME NEW e \in [count : 0..Limit, window_start : Nat],
           NEW times \in Seq(Nat), NEW at \in Nat, WindowKept(e, times, at)
    PROVE  WindowKept(e, times, at + 1)
<1>1. /\ Len(times) \in Nat
      /\ \A i \in 1..Len(times) : times[i] \in Nat
      /\ e.count \in Nat /\ e.window_start \in Nat
  BY TimesParts, WindowParts
<1>2. e.window_start <= at + 1 /\ \A i \in 1..Len(times) : times[i] <= at + 1
  BY <1>1 DEF WindowKept
<1>3. ASSUME NEW i \in 1..(Len(times) - e.count - Limit)
      PROVE  (at + 1) - times[i] >= Window - MaxStall
  <2>1. i \in 1..Len(times)
    BY <1>1, ConstFacts
  <2>2. PICK m \in Nat : m = times[i]
    BY <1>1, <2>1
  <2>3. at - m >= Window - MaxStall
    BY <2>2 DEF WindowKept
  <2>4. (at + 1) - m >= Window - MaxStall
    BY <2>3, ConstFacts
  <2>5. QED
    BY <2>2, <2>4
<1>4. QED
  BY <1>2, <1>3 DEF WindowKept

\* The check that starts a window is late by a stall at most.
LEMMA WindowStarts ==
    ASSUME NEW times \in Seq(Nat), NEW at \in Nat,
           \A i \in 1..Len(times) : times[i] <= at,
           \A i \in 1..(Len(times) - Limit) : at - times[i] >= Window - MaxStall,
           NEW now \in Nat, now <= at, at <= now + MaxStall
    PROVE  WindowKept(NewWindow(now), times, at)
<1>1. /\ Len(times) \in Nat
      /\ \A i \in 1..Len(times) : times[i] \in Nat
  BY TimesParts
<1>2. \A i \in 1..Len(times) : times[i] <= now + MaxStall
  BY <1>1, ConstFacts
<1>3. NewWindow(now).count = 0 /\ NewWindow(now).window_start = now
  BY DEF NewWindow
<1>4. Len(times) - 0 = Len(times)
  BY <1>1
<1>5. QED
  BY <1>1, <1>2, <1>3, <1>4 DEF WindowKept

LEMMA WindowRolls ==
    ASSUME NEW e \in [count : 0..Limit, window_start : Nat],
           NEW times \in Seq(Nat), NEW at \in Nat, WindowKept(e, times, at),
           NEW now \in Nat, now <= at, at <= now + MaxStall
    PROVE  WindowKept(Rolled(e, now), times, at)
<1>1. /\ Len(times) \in Nat
      /\ \A i \in 1..Len(times) : times[i] \in Nat
      /\ e.count \in Nat /\ e.count <= Limit /\ e.window_start \in Nat
  BY TimesParts, WindowParts
<1>2. CASE Since(now, e.window_start) >= Window
  <2>1. now - e.window_start >= Window
    BY <1>1, <1>2, ConstFacts DEF Since
  <2>2. ASSUME NEW i \in 1..(Len(times) - Limit)
        PROVE  at - times[i] >= Window - MaxStall
    <3>1. i \in 1..(Len(times) - e.count) /\ i \in 1..Len(times)
      BY <1>1, ConstFacts
    <3>2. PICK m \in Nat, start \in Nat : m = times[i] /\ start = e.window_start
      BY <1>1, <3>1
    <3>3. m <= start + MaxStall /\ now - start >= Window
      BY <2>1, <3>1, <3>2 DEF WindowKept
    <3>4. at - m >= Window - MaxStall
      BY <3>3, ConstFacts
    <3>5. QED
      BY <3>2, <3>4
  <2>3. \A i \in 1..Len(times) : times[i] <= at
    BY DEF WindowKept
  <2>4. QED
    BY <1>2, <2>2, <2>3, WindowStarts DEF Rolled
<1>3. CASE ~ (Since(now, e.window_start) >= Window)
  BY <1>3 DEF Rolled
<1>4. QED
  BY <1>2, <1>3

LEMMA WindowAdmits ==
    ASSUME NEW e \in [count : 0..Limit, window_start : Nat],
           NEW times \in Seq(Nat), NEW at \in Nat, WindowKept(e, times, at),
           e.count < Limit, algorithm = "fixed_window"
    PROVE  /\ WindowKept([e EXCEPT !.count = @ + 1], Append(times, at), at)
           /\ LastKept(Append(times, at))
<1> DEFINE times2 == Append(times, at)
           before == Len(times) - e.count
<1>1. /\ Len(times) \in Nat
      /\ \A i \in 1..Len(times) : times[i] \in Nat
      /\ e.count \in Nat /\ e.window_start \in Nat
      /\ Len(times2) = Len(times) + 1
      /\ \A i \in 1..Len(times) : times2[i] = times[i]
      /\ times2[Len(times) + 1] = at
  BY Added, TimesParts, WindowParts
<1>2. /\ before \in Nat /\ e.window_start <= at
      /\ \A i \in 1..Len(times) : times[i] <= at
      /\ \A i \in 1..before : times[i] <= e.window_start + MaxStall
      /\ \A i \in 1..(before - Limit) : at - times[i] >= Window - MaxStall
  BY <1>1 DEF WindowKept
<1> HIDE DEF times2
<1>3. /\ Len(times2) - (e.count + 1) = before
      /\ \A i \in 1..before : i \in 1..Len(times)
      /\ \A i \in 1..(before - Limit) : i \in 1..Len(times)
  <2>1. PICK n \in Nat, c \in Nat : n = Len(times) /\ c = e.count
    BY <1>1
  <2>2. Len(times2) = n + 1 /\ before = n - c
    BY <1>1, <2>1
  <2>3. QED
    BY <1>2, <2>1, <2>2, ConstFacts
<1>4. ASSUME NEW i \in 1..Len(times2) PROVE times2[i] <= at
  <2>1. i \in 1..Len(times) \/ i = Len(times) + 1
    BY <1>1
  <2>2. CASE i \in 1..Len(times)
    BY <1>1, <1>2, <2>2
  <2>3. CASE i = Len(times) + 1
    BY <1>1, <2>3
  <2>4. QED
    BY <2>1, <2>2, <2>3
<1>5. WindowKept([e EXCEPT !.count = @ + 1], times2, at)
  BY <1>1, <1>2, <1>3, <1>4 DEF WindowKept
<1>6. LastKept(times2)
  <2> SUFFICES ASSUME NEW i \in 1..Len(times2),
                      times2[Len(times2)] - times2[i] < Window - MaxStall
               PROVE  Len(times2) - i + 1 <= 2 * Limit
    BY DEF LastKept, Allows
  <2>1. times2[Len(times2)] = at
    BY <1>1
  <2>2. i \notin 1..(before - Limit)
    <3> SUFFICES ASSUME i \in 1..(before - Limit) PROVE FALSE
      OBVIOUS
    <3>1. PICK m \in Nat : m = times[i]
      BY <1>1, <1>3
    <3>2. at - m >= Window - MaxStall /\ at - m < Window - MaxStall
      BY <1>1, <1>2, <1>3, <2>1, <3>1
    <3>3. QED
      BY <3>2, ConstFacts
  <2>3. PICK n \in Nat, c \in Nat : n = Len(times) /\ c = e.count
    BY <1>1
  <2>4. i > n - c - Limit
    BY <2>2, <2>3, ConstFacts
  <2>5. Len(times2) = n + 1 /\ c < Limit
    BY <1>1, <2>3
  <2>6. QED
    BY <2>4, <2>5, ConstFacts
<1>7. QED
  BY <1>5, <1>6 DEF times2

-----------------------------------------------------------------------------
\* Every algorithm.

EntryKept(e, times, at) ==
    CASE algorithm = "token_bucket"   -> BucketKept(e, times, at)
      [] algorithm = "sliding_window" -> LogKept(e, times, at)
      [] algorithm = "fixed_window"   -> WindowKept(e, times, at)

LEMMA EntryTicks ==
    ASSUME algorithm \in Algorithms, NEW e, IsEntry(e),
           NEW times \in Seq(Nat), NEW at \in Nat, EntryKept(e, times, at)
    PROVE  EntryKept(e, times, at + 1)
<1>1. CASE algorithm = "token_bucket"
  <2>1. e.last_refill \in Nat
    BY <1>1 DEF IsEntry
  <2>2. QED
    BY <1>1, <2>1 DEF EntryKept, BucketKept
<1>2. CASE algorithm = "sliding_window"
  BY <1>2, LogTicks DEF EntryKept, IsEntry
<1>3. CASE algorithm = "fixed_window"
  BY <1>3, WindowTicks DEF EntryKept, IsEntry
<1>4. QED
  BY <1>1, <1>2, <1>3 DEF Algorithms

\* A key without an entry has no history either: or_insert_with's is as good.
LEMMA FreshKept ==
    ASSUME algorithm \in Algorithms, NEW at \in Nat, NEW now \in Nat,
           now <= at, at <= now + MaxStall
    PROVE  EntryKept(Fresh(now), <<>>, at)
<1>1. <<>> \in Seq(Nat) /\ Len(<<>>) = 0
  OBVIOUS
<1>2. CASE algorithm = "token_bucket"
  BY <1>1, <1>2 DEF EntryKept, Fresh, NewBucket, BucketKept
<1>3. CASE algorithm = "sliding_window"
  BY <1>1, <1>3 DEF EntryKept, Fresh, LogKept
<1>4. CASE algorithm = "fixed_window"
  <2>1. \A i \in 1..(Len(<<>>) - Limit) : FALSE
    BY <1>1, ConstFacts
  <2>2. \A i \in 1..Len(<<>>) : FALSE
    BY <1>1
  <2>3. WindowKept(NewWindow(now), <<>>, at)
    BY <1>1, <2>1, <2>2, WindowStarts
  <2>4. QED
    BY <1>4, <2>3 DEF EntryKept, Fresh
<1>5. QED
  BY <1>2, <1>3, <1>4 DEF Algorithms

\* What try_acquire makes of an entry and of its key's history.
LEMMA AcquiredKept ==
    ASSUME algorithm \in Algorithms, NEW e, IsEntry(e),
           NEW times \in Seq(Nat), NEW at \in Nat, EntryKept(e, times, at),
           NEW now \in Nat, now <= at, at <= now + MaxStall,
           algorithm = "token_bucket" => now = at
    PROVE  /\ ~ Acquired(e, now).allowed =>
                  EntryKept(Acquired(e, now).entry, times, at)
           /\ Acquired(e, now).allowed =>
                  /\ EntryKept(Acquired(e, now).entry, Append(times, at), at)
                  /\ LastKept(Append(times, at))
<1>1. CASE algorithm = "token_bucket"
  <2> DEFINE r == Refilled(e, at)
  <2>1. e \in [tokens : 0..Full, last_refill : Nat] /\ BucketKept(e, times, at)
    BY <1>1 DEF IsEntry, EntryKept
  <2>2. /\ r \in [tokens : 0..Full, last_refill : Nat] /\ r.last_refill = at
        /\ BucketKept(r, times, at)
    <3>1. Since(at, e.last_refill) \in Nat
      BY <2>1, SinceType
    <3>2. r \in [tokens : 0..Full, last_refill : Nat] /\ r.last_refill = at
      BY <2>1, <3>1, ConstFacts DEF Refilled
    <3>3. QED
      BY <2>1, <3>2, BucketRefills
  <2>3. Acquired(e, now) = BucketAcquired(e, at)
    BY <1>1 DEF Acquired
  <2> HIDE DEF r
  <2>4. CASE r.tokens >= TicksPerToken
    <3>1. BucketAcquired(e, at) =
              [allowed |-> TRUE,
               entry |-> [r EXCEPT !.tokens = @ - TicksPerToken]]
      BY <2>4 DEF BucketAcquired, r
    <3>2. QED
      BY <1>1, <2>2, <2>3, <2>4, <3>1, BucketAdmits DEF EntryKept
  <2>5. CASE ~ (r.tokens >= TicksPerToken)
    <3>1. BucketAcquired(e, at) = [allowed |-> FALSE, entry |-> r]
      BY <2>5 DEF BucketAcquired, r
    <3>2. QED
      BY <1>1, <2>2, <2>3, <3>1 DEF EntryKept
  <2>6. QED
    BY <2>4, <2>5
<1>2. CASE algorithm = "sliding_window"
  <2> DEFINE p == Pruned(e, now - Window)
  <2>1. e \in Seq(Nat) /\ LogKept(e, times, at) /\ now - Window \in Int
    BY <1>2, ConstFacts DEF IsEntry, EntryKept
  <2>2. p \in Seq(Nat) /\ LogKept(p, times, at)
    BY <2>1, PrunedType, LogPrunes
  <2>3. Acquired(e, now) = LogAcquired(e, now)
    BY <1>2 DEF Acquired
  <2> HIDE DEF p
  <2>4. CASE Len(p) < Limit
    <3>1. LogAcquired(e, now) = [allowed |-> TRUE, entry |-> Append(p, now)]
      BY <2>4 DEF LogAcquired, p
    <3>2. QED
      BY <1>2, <2>2, <2>3, <2>4, <3>1, LogAdmits DEF EntryKept
  <2>5. CASE ~ (Len(p) < Limit)
    <3>1. LogAcquired(e, now) = [allowed |-> FALSE, entry |-> p]
      BY <2>5 DEF LogAcquired, p
    <3>2. QED
      BY <1>2, <2>2, <2>3, <3>1 DEF EntryKept
  <2>6. QED
    BY <2>4, <2>5
<1>3. CASE algorithm = "fixed_window"
  <2> DEFINE r == Rolled(e, now)
  <2>1. e \in [count : 0..Limit, window_start : Nat] /\ WindowKept(e, times, at)
    BY <1>3 DEF IsEntry, EntryKept
  <2>2. r \in [count : 0..Limit, window_start : Nat] /\ WindowKept(r, times, at)
    <3>1. r \in [count : 0..Limit, window_start : Nat]
      BY <2>1, FullFacts DEF Rolled, NewWindow
    <3>2. QED
      BY <2>1, <3>1, WindowRolls
  <2>3. Acquired(e, now) = WindowAcquired(e, now)
    BY <1>3 DEF Acquired
  <2> HIDE DEF r
  <2>4. CASE r.count < Limit
    <3>1. WindowAcquired(e, now) =
              [allowed |-> TRUE, entry |-> [r EXCEPT !.count = @ + 1]]
      BY <2>4 DEF WindowAcquired, r
    <3>2. QED
      BY <1>3, <2>2, <2>3, <2>4, <3>1, WindowAdmits DEF EntryKept
  <2>5. CASE ~ (r.count < Limit)
    <3>1. WindowAcquired(e, now) = [allowed |-> FALSE, entry |-> r]
      BY <2>5 DEF WindowAcquired, r
    <3>2. QED
      BY <1>3, <2>2, <2>3, <3>1 DEF EntryKept
  <2>6. QED
    BY <2>4, <2>5
<1>4. QED
  BY <1>1, <1>2, <1>3 DEF Algorithms

-----------------------------------------------------------------------------
\* The limit, in every state.

\* A call has read the clock, and is late by a stall at most.
CallsOK ==
    \A t \in DOMAIN seekers : /\ seekers[t].now <= clock
                              /\ clock <= seekers[t].now + MaxStall

KeyKept(k) ==
    /\ StretchesKept(admitted[k])
    /\ IF k \in DOMAIN entries
       THEN EntryKept(entries[k], admitted[k], clock)
       ELSE admitted[k] = <<>>

EntriesKept == \A k \in Key : KeyKept(k)

LEMMA NoStretch == StretchesKept(<<>>)
BY DEF StretchesKept

\* A step that leaves the entries and their histories alone.
LEMMA KeptStable ==
    ASSUME EntriesKept, UNCHANGED <<algorithm, clock, entries, admitted>>
    PROVE  EntriesKept'
BY DEF EntriesKept, KeyKept, StretchesKept, Allows, EntryKept

\* A step that puts one key's entry, and writes its history.
LEMMA KeptPut ==
    ASSUME TypeOK, EntriesKept, UNCHANGED <<algorithm, clock>>,
           NEW k \in Key, NEW e, entries' = With(entries, k, e),
           NEW times, admitted' = [admitted EXCEPT ![k] = times],
           StretchesKept(times), EntryKept(e, times, clock)
    PROVE  EntriesKept'
<1>1. /\ DOMAIN entries' = DOMAIN entries \cup {k}
      /\ entries'[k] = e
      /\ \A x \in DOMAIN entries \ {k} : entries'[x] = entries[x]
  BY DEF With
<1>2. /\ admitted'[k] = times
      /\ \A x \in Key \ {k} : admitted'[x] = admitted[x]
  BY DEF TypeOK
<1>3. KeyKept(k)'
  BY <1>1, <1>2 DEF KeyKept, StretchesKept, Allows, EntryKept
<1>4. ASSUME NEW x \in Key \ {k} PROVE KeyKept(x)'
  <2>1. KeyKept(x)
    BY DEF EntriesKept
  <2>2. /\ admitted'[x] = admitted[x]
        /\ x \in DOMAIN entries' <=> x \in DOMAIN entries
        /\ x \in DOMAIN entries => entries'[x] = entries[x]
    BY <1>1, <1>2
  <2>3. QED
    BY <2>1, <2>2 DEF KeyKept, StretchesKept, Allows, EntryKept
<1>5. QED
  BY <1>3, <1>4 DEF EntriesKept

\* A step that takes one key's entry, if it has one, and its history.
LEMMA KeptTaken ==
    ASSUME TypeOK, EntriesKept, UNCHANGED <<algorithm, clock>>,
           NEW k \in Key, entries' = Without(entries, k),
           admitted' = [admitted EXCEPT ![k] = <<>>]
    PROVE  EntriesKept'
<1>1. /\ DOMAIN entries' = DOMAIN entries \ {k}
      /\ \A x \in DOMAIN entries \ {k} : entries'[x] = entries[x]
  BY DEF Without
<1>2. /\ admitted'[k] = <<>>
      /\ \A x \in Key \ {k} : admitted'[x] = admitted[x]
  BY DEF TypeOK
<1>3. KeyKept(k)'
  BY <1>1, <1>2, NoStretch DEF KeyKept, StretchesKept
<1>4. ASSUME NEW x \in Key \ {k} PROVE KeyKept(x)'
  <2>1. KeyKept(x)
    BY DEF EntriesKept
  <2>2. /\ admitted'[x] = admitted[x]
        /\ x \in DOMAIN entries' <=> x \in DOMAIN entries
        /\ x \in DOMAIN entries => entries'[x] = entries[x]
    BY <1>1, <1>2
  <2>3. QED
    BY <2>1, <2>2 DEF KeyKept, StretchesKept, Allows, EntryKept
<1>5. QED
  BY <1>3, <1>4 DEF EntriesKept

\* The entry a call finds, or makes.
LEMMA EntryFound ==
    ASSUME TypeOK, EntriesKept, NEW k \in Key, NEW now \in Nat,
           now <= clock, clock <= now + MaxStall
    PROVE  /\ IsEntry(Entry(k, now))
           /\ EntryKept(Entry(k, now), admitted[k], clock)
<1>1. IsEntry(Entry(k, now))
  BY EntryType
<1>2. KeyKept(k)
  BY DEF EntriesKept
<1>3. CASE k \in DOMAIN entries
  <2>1. Entry(k, now) = entries[k]
    BY <1>3 DEF Entry
  <2>2. EntryKept(entries[k], admitted[k], clock)
    BY <1>2, <1>3 DEF KeyKept
  <2>3. QED
    BY <1>1, <2>1, <2>2
<1>4. CASE k \notin DOMAIN entries
  <2>1. Entry(k, now) = Fresh(now) /\ admitted[k] = <<>>
    BY <1>2, <1>4 DEF Entry, KeyKept
  <2>2. algorithm \in Algorithms /\ clock \in Nat
    BY DEF TypeOK
  <2>3. EntryKept(Fresh(now), <<>>, clock)
    BY <2>2, FreshKept
  <2>4. QED
    BY <1>1, <2>1, <2>3
<1>5. QED
  BY <1>3, <1>4

LEMMA EnteredKept ==
    ASSUME TypeOK, CallsOK, EntriesKept, NEW t \in Thread, CheckEntered(t)
    PROVE  EntriesKept'
<1> DEFINE k   == seekers[t].key
           now == Reading(t)
           got == Acquired(Entry(k, now), now)
<1>1. /\ k \in Key /\ now \in Nat /\ clock \in Nat
      /\ now <= clock /\ clock <= now + MaxStall
      /\ algorithm = "token_bucket" => now = clock
      /\ algorithm \in Algorithms /\ admitted[k] \in Seq(Nat)
  <2>1. t \in DOMAIN seekers /\ IsSeeker(seekers[t]) /\ clock \in Nat
    BY DEF CheckEntered, TypeOK, MapTypeOK
  <2>2. k \in Key /\ seekers[t].now \in Nat
    BY <2>1 DEF IsSeeker
  <2>3. /\ seekers[t].now <= clock /\ clock <= seekers[t].now + MaxStall
        /\ clock <= clock + MaxStall
    BY <2>1, ConstFacts DEF CallsOK
  <2>4. QED
    BY <2>1, <2>2, <2>3 DEF Reading, TypeOK
<1>2. /\ entries' = With(entries, k, got.entry)
      /\ admitted' = IF got.allowed
                     THEN [admitted EXCEPT ![k] = Append(@, clock)]
                     ELSE admitted
      /\ UNCHANGED <<algorithm, clock>>
  BY DEF CheckEntered
<1>3. /\ ~ got.allowed => EntryKept(got.entry, admitted[k], clock)
      /\ got.allowed =>
             /\ EntryKept(got.entry, Append(admitted[k], clock), clock)
             /\ LastKept(Append(admitted[k], clock))
  <2>1. /\ IsEntry(Entry(k, now))
        /\ EntryKept(Entry(k, now), admitted[k], clock)
    BY <1>1, EntryFound
  <2> HIDE DEF k, now
  <2>2. QED
    BY <1>1, <2>1, AcquiredKept
<1>4. StretchesKept(admitted[k])
  BY <1>1 DEF EntriesKept, KeyKept
<1> HIDE DEF k, now, got
<1>5. CASE got.allowed
  <2>1. StretchesKept(Append(admitted[k], clock))
    BY <1>1, <1>3, <1>4, <1>5, StretchesAdded
  <2>2. admitted' = [admitted EXCEPT ![k] = Append(admitted[k], clock)]
    BY <1>2, <1>5
  <2>3. QED
    BY <1>1, <1>2, <1>3, <1>5, <2>1, <2>2, KeptPut
<1>6. CASE ~ got.allowed
  <2>1. admitted' = [admitted EXCEPT ![k] = admitted[k]]
    BY <1>2, <1>6 DEF TypeOK
  <2>2. QED
    BY <1>1, <1>2, <1>3, <1>4, <1>6, <2>1, KeptPut
<1>7. QED
  BY <1>5, <1>6

LEMMA ResetKept ==
    ASSUME TypeOK, EntriesKept, NEW k \in Key, ResetBucket(k) \/ ResetRemoves(k)
    PROVE  EntriesKept'
<1>1. CASE ResetBucket(k)
  <2>1. EntryKept(NewBucket(clock), <<>>, clock)
    <3>1. clock \in Nat /\ clock <= clock + MaxStall /\ algorithm \in Algorithms
      BY ConstFacts DEF TypeOK
    <3>2. EntryKept(Fresh(clock), <<>>, clock)
      BY <3>1, FreshKept
    <3>3. QED
      BY <1>1, <3>2 DEF Fresh, ResetBucket
  <2>2. QED
    BY <1>1, <2>1, NoStretch, KeptPut DEF ResetBucket
<1>2. CASE ResetRemoves(k)
  BY <1>2, KeptTaken DEF ResetRemoves
<1>3. QED
  BY <1>1, <1>2

LEMMA CleanAndCountKept ==
    ASSUME TypeOK, EntriesKept, NEW k \in Key, NEW now \in Readings,
           CleanAndCount(k, now)
    PROVE  EntriesKept'
<1>1. /\ now \in Nat /\ now <= clock /\ clock <= now + MaxStall
      /\ clock \in Nat /\ admitted[k] \in Seq(Nat)
      /\ algorithm = "sliding_window"
  BY ConstFacts DEF Readings, TypeOK, CleanAndCount
<1> DEFINE log == Entry(k, now)
<1>2. log \in Seq(Nat) /\ LogKept(log, admitted[k], clock)
  BY <1>1, EntryFound DEF IsEntry, EntryKept
<1>3. EntryKept(Pruned(log, now - Window), admitted[k], clock)
  <2> HIDE DEF log
  <2>1. QED
    BY <1>1, <1>2, LogPrunes DEF EntryKept
<1>4. /\ entries' = With(entries, k, Pruned(log, now - Window))
      /\ admitted' = [admitted EXCEPT ![k] = admitted[k]]
      /\ UNCHANGED <<algorithm, clock>>
  BY DEF CleanAndCount, TypeOK
<1>5. StretchesKept(admitted[k])
  BY DEF EntriesKept, KeyKept
<1> HIDE DEF log
<1>6. QED
  BY <1>3, <1>4, <1>5, KeptPut

LEMMA TickKept ==
    ASSUME TypeOK, EntriesKept, Tick
    PROVE  EntriesKept'
<1>1. /\ clock' = clock + 1 /\ clock \in Nat /\ algorithm \in Algorithms
      /\ UNCHANGED <<algorithm, entries, admitted>>
  BY DEF Tick, TypeOK
<1>2. ASSUME NEW k \in Key PROVE KeyKept(k)'
  <2>1. KeyKept(k) /\ admitted[k] \in Seq(Nat)
    BY DEF EntriesKept, TypeOK
  <2>2. k \in DOMAIN entries => EntryKept(entries[k], admitted[k], clock + 1)
    BY <1>1, <2>1, EntryTicks DEF TypeOK, KeyKept
  <2>3. QED
    BY <1>1, <2>1, <2>2 DEF KeyKept, StretchesKept, Allows, EntryKept
<1>3. QED
  BY <1>2 DEF EntriesKept

LEMMA CallsStep ==
    ASSUME TypeOK, CallsOK, [Next]_vars
    PROVE  CallsOK'
<1>1. /\ clock \in Nat
      /\ \A x \in DOMAIN seekers : IsSeeker(seekers[x])
  BY DEF TypeOK, MapTypeOK
<1>2. ASSUME UNCHANGED clock,
             \A x \in DOMAIN seekers' :
                 x \in DOMAIN seekers /\ seekers'[x].now = seekers[x].now
      PROVE  CallsOK'
  BY <1>2 DEF CallsOK
<1>3. CASE Tick
  <2>1. /\ clock' = clock + 1 /\ seekers' = seekers
        /\ \A x \in DOMAIN seekers : clock - seekers[x].now < MaxStall
    BY <1>3 DEF Tick
  <2>2. \A x \in DOMAIN seekers : seekers[x].now \in Nat
    BY <1>1 DEF IsSeeker
  <2>3. QED
    BY <1>1, <2>1, <2>2, ConstFacts DEF CallsOK
<1>4. ASSUME NEW t \in Thread, NEW k \in Key, NEW now \in Readings,
             CheckBegin(t, k, now)
      PROVE  CallsOK'
  <2>1. /\ clock' = clock
        /\ seekers' = With(seekers, t, Seeking(k, now, DOMAIN entries))
    BY <1>4 DEF CheckBegin, Look
  <2>2. Seeking(k, now, DOMAIN entries).now = now
    BY DEF Seeking
  <2>3. now <= clock /\ clock <= now + MaxStall
    BY <1>1, ConstFacts DEF Readings
  <2>4. QED
    BY <2>1, <2>2, <2>3 DEF CallsOK, With
<1>5. ASSUME NEW t \in Thread, NEW k \in Key,
             CountShard(t, k) \/ ListShard(t, k) \/ RemoveVictim(t, k)
      PROVE  CallsOK'
  <2>1. /\ clock' = clock
        /\ \/ \E p : ShardCounted(t, k, p)
           \/ \E p, stamp : ShardListed(t, k, p, stamp)
           \/ VictimTaken(t, k)
    <3>1. CASE CountShard(t, k)
      BY <3>1 DEF CountShard
    <3>2. CASE ListShard(t, k)
      BY <3>2 DEF ListShard
    <3>3. CASE RemoveVictim(t, k)
      BY <3>3 DEF RemoveVictim
    <3>4. QED
      BY <1>5, <3>1, <3>2, <3>3
  <2>2. \A x \in DOMAIN seekers' :
            x \in DOMAIN seekers /\ seekers'[x].now = seekers[x].now
    BY <1>1, <2>1
       DEF ShardCounted, ShardListed, VictimTaken, Visits, IsSeeker
  <2>3. QED
    BY <1>2, <2>1, <2>2
<1>6. ASSUME NEW t \in Thread,
             \/ DecideRoom(t) \/ EndEviction(t)
             \/ \E victims \in SUBSET Key : ChooseVictims(t, victims)
      PROVE  CallsOK'
  <2>1. /\ clock' = clock
        /\ Decide(t) \/ EvictionEnds(t) \/ \E victims : VictimsChosen(t, victims)
    BY <1>6 DEF DecideRoom, EndEviction, ChooseVictims
  <2>2. \A x \in DOMAIN seekers' :
            x \in DOMAIN seekers /\ seekers'[x].now = seekers[x].now
    BY <1>1, <2>1 DEF Decide, EvictionEnds, VictimsChosen, Visited, IsSeeker
  <2>3. QED
    BY <1>2, <2>1, <2>2
<1>7. ASSUME NEW t \in Thread, CheckEntered(t) PROVE CallsOK'
  <2>1. /\ clock' = clock
        /\ \E isNew : seekers' = Overtaken(Without(seekers, t), isNew)
    BY <1>7 DEF CheckEntered, Entered
  <2>2. \A x \in DOMAIN seekers' :
            x \in DOMAIN seekers /\ seekers'[x].now = seekers[x].now
    BY <1>1, <2>1 DEF Overtaken, Without, IsSeeker
  <2>3. QED
    BY <1>2, <2>1, <2>2
<1>8. ASSUME NEW k \in Key,
             \/ ResetBucket(k) \/ ResetRemoves(k)
             \/ \E now \in Readings : CleanAndCount(k, now)
      PROVE  CallsOK'
  <2>1. /\ clock' = clock
        /\ seekers' = seekers \/ \E isNew : seekers' = Overtaken(seekers, isNew)
    BY <1>8 DEF ResetBucket, ResetRemoves, CleanAndCount, EnteredUnasked
  <2>2. \A x \in DOMAIN seekers' :
            x \in DOMAIN seekers /\ seekers'[x].now = seekers[x].now
    BY <1>1, <2>1 DEF Overtaken, IsSeeker
  <2>3. QED
    BY <1>2, <2>1, <2>2
<1>9. CASE UNCHANGED vars
  BY <1>9 DEF vars, CallsOK
<1>10. QED
  BY <1>3, <1>4, <1>5, <1>6, <1>7, <1>8, <1>9 DEF Next

LEMMA KeptStep ==
    ASSUME TypeOK, CallsOK, EntriesKept, [Next]_vars
    PROVE  EntriesKept'
<1>1. ASSUME NEW t \in Thread,
             \/ \E k \in Key, now \in Readings : CheckBegin(t, k, now)
             \/ \E k \in Key : CountShard(t, k) \/ ListShard(t, k)
             \/ DecideRoom(t)
             \/ \E victims \in SUBSET Key : ChooseVictims(t, victims)
             \/ EndEviction(t)
      PROVE  EntriesKept'
  <2>1. UNCHANGED <<algorithm, clock, entries, admitted>>
    BY <1>1 DEF CheckBegin, CountShard, ListShard, DecideRoom, ChooseVictims,
                EndEviction
  <2>2. QED
    BY <2>1, KeptStable
<1>2. ASSUME NEW t \in Thread, NEW v \in Key, RemoveVictim(t, v)
      PROVE  EntriesKept'
  BY <1>2, KeptTaken DEF RemoveVictim
<1>3. CASE UNCHANGED vars
  BY <1>3, KeptStable DEF vars
<1>4. QED
  BY <1>1, <1>2, <1>3, TickKept, EnteredKept, ResetKept, CleanAndCountKept
     DEF Next

KeptInv == TypeOK /\ CallsOK /\ EntriesKept

LEMMA SpecKept == Spec => []KeptInv
<1>1. Init => CallsOK /\ EntriesKept
  <2> SUFFICES ASSUME Init PROVE CallsOK /\ EntriesKept
    OBVIOUS
  <2>1. DOMAIN seekers = {} /\ DOMAIN entries = {}
    BY DEF Init, MapInit
  <2>2. \A k \in Key : admitted[k] = <<>>
    BY DEF Init
  <2>3. QED
    BY <2>1, <2>2, NoStretch DEF CallsOK, EntriesKept, KeyKept
<1>2. TypeOK /\ CallsOK /\ EntriesKept /\ [Next]_vars
          => CallsOK' /\ EntriesKept'
  BY CallsStep, KeptStep
<1>3. QED
  BY <1>1, <1>2, TypeCorrect, PTL DEF Spec, KeptInv

\* Whatever threads race for the entry of a key, and whatever was evicted or
\* reset meanwhile, a TokenBucket keeps its rate exactly over every stretch
\* of time, a SlidingWindowLog admits no more than its limit in a window and
\* a FixedWindow no more than twice that, both less the longest stall
\* (token_bucket.rs:133, sliding_window.rs:88, fixed_window.rs:104).
THEOREM LimitCorrect == Spec => []LimitKept
<1>1. KeptInv => LimitKept
  BY DEF KeptInv, EntriesKept, KeyKept, StretchesKept, LimitKept
<1>2. QED
  BY <1>1, SpecKept, PTL

\* What remaining reports, a check at the same instant admits, and who waits
\* out time_until_reset is admitted, unless others came first.
THEOREM AnswersCorrect == Spec => []AnswersHold
<1>1. KeptInv => AnswersHold
  <2> SUFFICES ASSUME KeptInv, NEW k \in DOMAIN entries
               PROVE  /\ Remaining(k) > 0 =>
                             Acquired(entries[k], clock).allowed
                      /\ algorithm = "fixed_window" =>
                             Acquired(entries[k],
                                      clock + TimeUntilReset(k)).allowed
    BY DEF AnswersHold
  <2> DEFINE e == entries[k]
  <2>1. /\ k \in Key /\ IsEntry(e) /\ clock \in Nat
        /\ algorithm \in Algorithms
        /\ EntryKept(e, admitted[k], clock)
    BY DEF KeptInv, TypeOK, EntriesKept, KeyKept
  <2>2. CASE algorithm = "token_bucket"
    <3>1. e \in [tokens : 0..Full, last_refill : Nat]
      BY <2>1, <2>2 DEF IsEntry
    <3>2. SUFFICES ASSUME e.tokens \div TicksPerToken > 0
                   PROVE  BucketAcquired(e, clock).allowed
      BY <2>2 DEF Remaining, BucketRemaining, Acquired
    <3>3. e.tokens >= TicksPerToken
      <4>1. PICK n \in Nat : n = e.tokens
        BY <3>1, ConstFacts
      <4>2. n < TicksPerToken => n \div TicksPerToken = 0
        BY ConstFacts
      <4>3. QED
        BY <3>2, <4>1, <4>2, ConstFacts
    <3>4. e.tokens + Since(clock, e.last_refill) >= TicksPerToken
      BY <2>1, <3>1, <3>3, ConstFacts DEF Since
    <3>5. Full >= TicksPerToken
      BY <3>1, <3>3, ConstFacts
    <3>6. Refilled(e, clock).tokens >= TicksPerToken
      BY <3>4, <3>5 DEF Refilled
    <3>7. QED
      BY <3>6 DEF BucketAcquired
  <2>3. CASE algorithm = "sliding_window"
    <3>1. Entry(k, clock) = e /\ e \in Seq(Nat) /\ clock - Window \in Int
      BY <2>1, <2>3, ConstFacts DEF Entry, IsEntry
    <3>2. SUFFICES ASSUME Since(Limit, Len(Pruned(e, clock - Window))) > 0
                   PROVE  LogAcquired(e, clock).allowed
      BY <2>3, <3>1 DEF Remaining, LogRemaining, Acquired
    <3>3. Len(Pruned(e, clock - Window)) \in Nat
      BY <3>1, PrunedType, LenProperties
    <3>4. Len(Pruned(e, clock - Window)) < Limit
      BY <3>2, <3>3, ConstFacts DEF Since
    <3>5. QED
      BY <3>4 DEF LogAcquired
  <2>4. CASE algorithm = "fixed_window"
    <3>1. /\ e \in [count : 0..Limit, window_start : Nat]
          /\ WindowKept(e, admitted[k], clock)
      BY <2>1, <2>4 DEF IsEntry, EntryKept
    <3>2. PICK start \in Nat : start = e.window_start /\ start <= clock
      BY <3>1 DEF WindowKept
    <3>3. /\ e.count \in Nat
          /\ Since(clock, start) = clock - start
      BY <2>1, <3>1, <3>2, WindowParts DEF Since
    <3>4. ASSUME NEW now \in Nat, Rolled(e, now).count < Limit
          PROVE  Acquired(e, now).allowed
      BY <2>4, <3>4 DEF Acquired, WindowAcquired
    <3>5. ASSUME NEW now \in Nat, Since(now, start) >= Window
          PROVE  Acquired(e, now).allowed
      <4>1. Rolled(e, now).count = 0
        BY <3>2, <3>5 DEF Rolled, NewWindow
      <4>2. QED
        BY <3>4, <4>1, ConstFacts
    <3>6. Remaining(k) > 0 => Acquired(e, clock).allowed
      <4>1. CASE Since(clock, start) >= Window
        BY <2>1, <3>5, <4>1
      <4>2. CASE ~ (Since(clock, start) >= Window)
        <5>1. Remaining(k) = Since(Limit, e.count)
          BY <2>4, <3>2, <4>2 DEF Remaining, WindowRemaining
        <5>2. Rolled(e, clock).count = e.count
          BY <3>2, <4>2 DEF Rolled
        <5>3. Remaining(k) > 0 => e.count < Limit
          BY <3>3, <5>1, ConstFacts DEF Since
        <5>4. QED
          BY <2>1, <3>4, <5>2, <5>3
      <4>3. QED
        BY <4>1, <4>2
    <3>7. /\ clock + TimeUntilReset(k) \in Nat
          /\ Since(clock + TimeUntilReset(k), start) >= Window
      <4>1. TimeUntilReset(k) = IF clock - start < Window
                                THEN Window - (clock - start) ELSE Window
        BY <3>2, <3>3 DEF TimeUntilReset
      <4>2. QED
        BY <2>1, <3>2, <4>1, ConstFacts DEF Since
    <3>8. QED
      BY <3>5, <3>6, <3>7
  <2>5. QED
    BY <2>1, <2>2, <2>3, <2>4 DEF Algorithms
<1>2. QED
  BY <1>1, SpecKept, PTL
-----------------------------------------------------------------------------
\* What an eviction knows of the entries that have been idle for long.

\* The activity of every entry.
Activity == [k \in DOMAIN entries |-> Stamp(entries[k])]

\* Idle since before any reading a call under way with s has seen.
IsOld(s, stamps, k) ==
    k \in DOMAIN stamps /\ stamps[k] # None /\ stamps[k] < s.now - MaxStall

\* The call's list has the entry, as it still is.
IsListed(s, stamps, k) == k \in DOMAIN s.stamps /\ s.stamps[k] = stamps[k]

\* A list misses no old entry of the shards it has seen, and the victims are
\* a batch of which none is younger than an old entry that is not a victim.
ListOK(s, stamps) ==
    /\ IsFiniteSet(DOMAIN s.stamps)
    /\ \A x \in DOMAIN s.stamps : s.stamps[x] <= s.now + MaxStall
    /\ s.phase = "scan" =>
           \A k \in Key \ s.unseen :
               IsOld(s, stamps, k) => IsListed(s, stamps, k)
    /\ s.phase = "evict" =>
           /\ Cardinality(s.victims) <= BatchSize
           /\ \A k \in Key : IsOld(s, stamps, k) =>
                  /\ IsListed(s, stamps, k)
                  /\ \/ k \in s.victims
                     \/ \A v \in s.victims : s.stamps[v] <= s.stamps[k]

ListsKept == \A t \in DOMAIN seekers : ListOK(seekers[t], Activity)

\* What pruning leaves of a log has the log's last stamp, if any.
LEMMA PrunedStamp ==
    ASSUME NEW log \in Seq(Nat), NEW cutoff \in Int
    PROVE  LogStamp(Pruned(log, cutoff)) \in {LogStamp(log), None}
<1> DEFINE p == Pruned(log, cutoff)
<1>1. PICK gone \in 0..Len(log) :
          /\ p \in Seq(Nat) /\ Len(p) = Len(log) - gone
          /\ \A i \in 1..(Len(log) - gone) : p[i] = log[gone + i]
  BY PrunedIs
<1> HIDE DEF p
<1>2. CASE p # <<>>
  <2>1. Len(p) \in Nat /\ Len(p) # 0 /\ Len(log) \in Nat
    BY <1>1, <1>2, EmptySeq, LenProperties
  <2>2. PICK n \in Nat : n = Len(log)
    BY <2>1
  <2>3. n - gone \in 1..(n - gone) /\ gone + (n - gone) = n /\ n # 0
    <3>1. gone \in Nat /\ n - gone \in Nat /\ n - gone # 0
      BY <1>1, <2>1, <2>2
    <3>2. QED
      BY <2>2, <3>1
  <2>4. p[Len(p)] = log[Len(log)] /\ log # <<>>
    BY <1>1, <2>2, <2>3
  <2>5. QED
    BY <1>2, <2>4 DEF LogStamp, p
<1>3. CASE p = <<>>
  BY <1>3 DEF LogStamp, p
<1>4. QED
  BY <1>2, <1>3

\* A check leaves an entry the activity it had, its own, or none.
LEMMA AcquiredStamp ==
    ASSUME algorithm \in Algorithms, NEW e, IsEntry(e), NEW now \in Nat
    PROVE  Stamp(Acquired(e, now).entry) \in {Stamp(e), now, None}
<1>1. CASE algorithm = "token_bucket"
  <2>1. Refilled(e, now).last_refill = now
    BY DEF Refilled
  <2>2. BucketAcquired(e, now).entry.last_refill = now
    BY <2>1 DEF BucketAcquired, Refilled
  <2>3. QED
    BY <1>1, <2>2 DEF Acquired, Stamp, BucketStamp
<1>2. CASE algorithm = "sliding_window"
  <2> DEFINE p == Pruned(e, now - Window)
  <2>1. e \in Seq(Nat) /\ now - Window \in Int
    BY <1>2, ConstFacts DEF IsEntry
  <2>2. p \in Seq(Nat) /\ LogStamp(p) \in {LogStamp(e), None}
    BY <2>1, PrunedType, PrunedStamp
  <2>3. LogStamp(Append(p, now)) = now
    <3> HIDE DEF p
    <3>1. /\ Len(Append(p, now)) = Len(p) + 1
          /\ Append(p, now)[Len(p) + 1] = now
          /\ Len(p) \in Nat
          /\ Append(p, now) \in Seq(Nat)
      BY <2>2, Added, LenProperties
    <3>2. Append(p, now) # <<>>
      BY <3>1
    <3>3. QED
      BY <3>1, <3>2 DEF LogStamp
  <2>4. LogAcquired(e, now).entry \in {p, Append(p, now)}
    BY DEF LogAcquired
  <2> HIDE DEF p
  <2>5. QED
    BY <1>2, <2>2, <2>3, <2>4 DEF Acquired, Stamp
<1>3. CASE algorithm = "fixed_window"
  <2>1. e \in [count : 0..Limit, window_start : Nat]
    BY <1>3 DEF IsEntry
  <2>2. Rolled(e, now).window_start \in {e.window_start, now}
    BY DEF Rolled, NewWindow
  <2>3. WindowAcquired(e, now).entry.window_start = Rolled(e, now).window_start
    BY <2>1 DEF WindowAcquired, Rolled, NewWindow
  <2>4. QED
    BY <1>3, <2>2, <2>3 DEF Acquired, Stamp, WindowStamp
<1>4. QED
  BY <1>1, <1>2, <1>3 DEF Algorithms

\* No entry was used later than now.
LEMMA StampBound ==
    ASSUME TypeOK, EntriesKept, NEW k \in DOMAIN entries
    PROVE  Stamp(entries[k]) \in Nat \cup {None} /\ Stamp(entries[k]) <= clock
<1>1. /\ k \in Key /\ IsEntry(entries[k]) /\ clock \in Nat
      /\ algorithm \in Algorithms
      /\ EntryKept(entries[k], admitted[k], clock)
  BY DEF TypeOK, EntriesKept, KeyKept
<1>2. Stamp(entries[k]) \in Nat \cup {None}
  BY <1>1, StampType
<1>3. CASE algorithm = "token_bucket"
  <2>1. Stamp(entries[k]) = entries[k].last_refill
    BY <1>3 DEF Stamp, BucketStamp
  <2>2. entries[k].last_refill <= clock
    BY <1>1, <1>3 DEF EntryKept, BucketKept
  <2>3. QED
    BY <1>2, <2>1, <2>2
<1>4. CASE algorithm = "sliding_window"
  <2>1. /\ entries[k] \in Seq(Nat)
        /\ \A i \in 1..Len(entries[k]) : entries[k][i] <= clock
    BY <1>1, <1>4 DEF IsEntry, EntryKept, LogKept
  <2>2. entries[k] # <<>> => Len(entries[k]) \in 1..Len(entries[k])
    BY <2>1, EmptySeq, LenProperties
  <2>3. None <= clock
    BY <1>1 DEF None
  <2>4. QED
    BY <1>2, <1>4, <2>1, <2>2, <2>3 DEF Stamp, LogStamp
<1>5. CASE algorithm = "fixed_window"
  <2>1. Stamp(entries[k]) = entries[k].window_start
    BY <1>5 DEF Stamp, WindowStamp
  <2>2. entries[k].window_start <= clock
    BY <1>1, <1>5 DEF EntryKept, WindowKept
  <2>3. QED
    BY <1>2, <2>1, <2>2
<1>6. QED
  BY <1>1, <1>2, <1>3, <1>4, <1>5 DEF Algorithms

\* The entries change under a list: those it has are gone, as they were, of
\* no activity, or used by a call whose reading is not too old.
LEMMA ListMoves ==
    ASSUME NEW s, s.now \in Nat, NEW at \in Nat, s.now <= at,
           NEW old, NEW new, ListOK(s, old),
           \A k \in DOMAIN new :
               \/ k \in DOMAIN old /\ new[k] = old[k]
               \/ new[k] = None
               \/ new[k] \in Nat /\ new[k] >= at - MaxStall
    PROVE  ListOK(s, new)
<1>1. ASSUME NEW k, IsOld(s, new, k)
      PROVE  IsOld(s, old, k) /\ new[k] = old[k]
  <2>1. ~ (new[k] \in Nat /\ new[k] >= at - MaxStall)
    BY <1>1, ConstFacts DEF IsOld
  <2>2. QED
    BY <1>1, <2>1 DEF IsOld
<1>2. \A k : IsOld(s, new, k) =>
          IsOld(s, old, k) /\ (IsListed(s, old, k) => IsListed(s, new, k))
  BY <1>1 DEF IsListed
<1>3. QED
  BY <1>2 DEF ListOK

\* What a step may do to the activity of the entries.
ActivityMoves ==
    \A k \in DOMAIN Activity' :
        \/ k \in DOMAIN Activity /\ Activity'[k] = Activity[k]
        \/ Activity'[k] = None
        \/ Activity'[k] \in Nat /\ Activity'[k] >= clock - MaxStall

\* A step that leaves a call's list alone.
SameList(t) ==
    /\ t \in DOMAIN seekers
    /\ seekers'[t].now = seekers[t].now
    /\ seekers'[t].phase = seekers[t].phase
    /\ seekers'[t].unseen = seekers[t].unseen
    /\ seekers'[t].stamps = seekers[t].stamps
    /\ seekers'[t].victims = seekers[t].victims

\* A step after which every call has the list it had, or a good one.
LEMMA ListsMove ==
    ASSUME TypeOK, CallsOK, ListsKept, ActivityMoves,
           \A t \in DOMAIN seekers' :
               SameList(t) \/ ListOK(seekers'[t], Activity')
    PROVE  ListsKept'
<1>1. ASSUME NEW t \in DOMAIN seekers', SameList(t)
      PROVE  ListOK(seekers'[t], Activity')
  <2>1. t \in DOMAIN seekers /\ clock \in Nat
    BY <1>1 DEF TypeOK, SameList
  <2>2. seekers[t].now \in Nat /\ seekers[t].now <= clock
    BY <2>1 DEF TypeOK, MapTypeOK, IsSeeker, CallsOK
  <2>3. ListOK(seekers[t], Activity)
    BY <2>1 DEF ListsKept
  <2>4. ListOK(seekers[t], Activity')
    BY <2>1, <2>2, <2>3, ListMoves DEF ActivityMoves
  <2>5. QED
    BY <1>1, <2>4 DEF SameList, ListOK, IsOld, IsListed
<1>2. QED
  BY <1>1 DEF ListsKept

\* An entry that is put, with the activity of a call or of before.
LEMMA ActivityPut ==
    ASSUME NEW k \in Key, NEW e, entries' = With(entries, k, e),
           UNCHANGED algorithm,
           \/ k \in DOMAIN entries /\ Stamp(e) = Stamp(entries[k])
           \/ Stamp(e) = None
           \/ Stamp(e) \in Nat /\ Stamp(e) >= clock - MaxStall
    PROVE  ActivityMoves
<1>1. /\ DOMAIN entries' = DOMAIN entries \cup {k}
      /\ entries'[k] = e
      /\ \A x \in DOMAIN entries \ {k} : entries'[x] = entries[x]
  BY DEF With
<1>2. /\ DOMAIN Activity = DOMAIN entries /\ DOMAIN Activity' = DOMAIN entries'
      /\ \A x \in DOMAIN entries : Activity[x] = Stamp(entries[x])
      /\ \A x \in DOMAIN entries' : Activity'[x] = Stamp(entries'[x])
  BY DEF Activity, Stamp
<1>3. Stamp(e)' = Stamp(e)
  BY DEF Stamp
<1>4. ASSUME NEW x \in DOMAIN entries'
      PROVE  \/ x \in DOMAIN Activity /\ Activity'[x] = Activity[x]
             \/ Activity'[x] = None
             \/ Activity'[x] \in Nat /\ Activity'[x] >= clock - MaxStall
  BY <1>1, <1>2
<1>5. QED
  BY <1>2, <1>4 DEF ActivityMoves

LEMMA ActivityTaken ==
    ASSUME NEW k, entries' = Without(entries, k), UNCHANGED algorithm
    PROVE  /\ DOMAIN Activity' = DOMAIN Activity \ {k}
           /\ \A x \in DOMAIN Activity' : Activity'[x] = Activity[x]
           /\ ActivityMoves
<1>1. /\ DOMAIN entries' = DOMAIN entries \ {k}
      /\ \A x \in DOMAIN entries' : entries'[x] = entries[x]
  BY DEF Without
<1>2. /\ DOMAIN Activity = DOMAIN entries /\ DOMAIN Activity' = DOMAIN entries'
      /\ \A x \in DOMAIN entries : Activity[x] = Stamp(entries[x])
      /\ \A x \in DOMAIN entries' : Activity'[x] = Stamp(entries'[x])
  BY DEF Activity, Stamp
<1>3. QED
  BY <1>1, <1>2 DEF ActivityMoves
\* A step that leaves the entries as they are.
LEMMA ActivityStays ==
    ASSUME UNCHANGED <<algorithm, entries>>
    PROVE  Activity' = Activity /\ ActivityMoves
<1>1. Activity' = Activity
  BY DEF Activity, Stamp
<1>2. QED
  BY <1>1 DEF ActivityMoves

\* A step that changes the list of the call of t only.
LEMMA OneListMoves ==
    ASSUME TypeOK, CallsOK, ListsKept, ActivityMoves, NEW t,
           ListOK(seekers'[t], Activity'),
           \A x \in DOMAIN seekers' \ {t} :
               x \in DOMAIN seekers /\ seekers'[x] = seekers[x]
    PROVE  ListsKept'
<1>1. \A x \in DOMAIN seekers' : SameList(x) \/ ListOK(seekers'[x], Activity')
  BY DEF SameList
<1>2. QED
  BY <1>1, ListsMove

LEMMA CallsFacts ==
    ASSUME TypeOK, CallsOK, ListsKept, NEW t \in DOMAIN seekers
    PROVE  /\ IsSeeker(seekers[t]) /\ ListOK(seekers[t], Activity)
           /\ clock \in Nat /\ clock <= seekers[t].now + MaxStall
           /\ seekers[t].now \in Nat
BY DEF TypeOK, MapTypeOK, IsSeeker, CallsOK, ListsKept

LEMMA BeginLists ==
    ASSUME TypeOK, CallsOK, ListsKept,
           NEW t \in Thread, NEW k \in Key, NEW now \in Readings,
           CheckBegin(t, k, now)
    PROVE  ListsKept'
<1> DEFINE s == Seeking(k, now, DOMAIN entries)
<1>1. /\ seekers' = With(seekers, t, s)
      /\ UNCHANGED <<algorithm, entries>>
  BY DEF CheckBegin, Look
<1>2. ListOK(s, Activity)
  <2>1. DOMAIN NoStamps = {} /\ IsFiniteSet({})
    BY FS_EmptySet DEF NoStamps
  <2>2. s.stamps = NoStamps /\ s.phase \in {"enter", "len"}
    BY DEF Seeking
  <2>3. QED
    BY <2>1, <2>2 DEF ListOK
<1> HIDE DEF s
<1>3. /\ seekers'[t] = s
      /\ \A x \in DOMAIN seekers' \ {t} :
             x \in DOMAIN seekers /\ seekers'[x] = seekers[x]
  BY <1>1 DEF With
<1>4. QED
  BY <1>1, <1>2, <1>3, ActivityStays, OneListMoves

LEMMA CountLists ==
    ASSUME TypeOK, CallsOK, ListsKept,
           NEW t \in Thread, NEW k \in Key, CountShard(t, k)
    PROVE  ListsKept'
<1>1. /\ t \in DOMAIN seekers /\ seekers[t].phase = "len"
      /\ UNCHANGED <<algorithm, entries>>
      /\ \E p : ShardCounted(t, k, p)
  BY DEF CountShard, ShardCounted, Visits
<1>2. IsSeeker(seekers[t]) /\ ListOK(seekers[t], Activity)
  BY <1>1, CallsFacts
<1>3. /\ seekers'[t].phase = "len"
      /\ seekers'[t].now = seekers[t].now
      /\ seekers'[t].stamps = seekers[t].stamps
      /\ \A x \in DOMAIN seekers' \ {t} :
             x \in DOMAIN seekers /\ seekers'[x] = seekers[x]
  BY <1>1, <1>2 DEF ShardCounted, IsSeeker
<1>4. ListOK(seekers'[t], Activity)
  BY <1>2, <1>3 DEF ListOK
<1>5. QED
  BY <1>1, <1>3, <1>4, ActivityStays, OneListMoves

LEMMA DecideLists ==
    ASSUME TypeOK, CallsOK, ListsKept, NEW t \in Thread, DecideRoom(t)
    PROVE  ListsKept'
<1>1. /\ t \in DOMAIN seekers /\ Decide(t)
      /\ UNCHANGED <<algorithm, entries>>
  BY DEF DecideRoom, Decide, Visited
<1>2. IsSeeker(seekers[t]) /\ ListOK(seekers[t], Activity)
  BY <1>1, CallsFacts
<1>3. /\ \/ seekers'[t].phase = "enter"
         \/ seekers'[t].phase = "scan" /\ seekers'[t].unseen = Key
      /\ seekers'[t].now = seekers[t].now
      /\ seekers'[t].stamps = seekers[t].stamps
      /\ \A x \in DOMAIN seekers' \ {t} :
             x \in DOMAIN seekers /\ seekers'[x] = seekers[x]
  BY <1>1, <1>2 DEF Decide, IsSeeker
<1>4. ListOK(seekers'[t], Activity)
  BY <1>2, <1>3 DEF ListOK
<1>5. QED
  BY <1>1, <1>3, <1>4, ActivityStays, OneListMoves

LEMMA ListShardLists ==
    ASSUME TypeOK, CallsOK, EntriesKept, ListsKept,
           NEW t \in Thread, NEW k \in Key, ListShard(t, k)
    PROVE  ListsKept'
<1>1. /\ t \in DOMAIN seekers /\ seekers[t].phase = "scan"
      /\ UNCHANGED <<algorithm, entries>>
      /\ k \in DOMAIN entries => ShardListed(t, k, TRUE, Stamp(entries[k]))
      /\ k \notin DOMAIN entries => ShardListed(t, k, FALSE, None)
  BY DEF ListShard, ShardListed, Visits
<1>2. IsSeeker(seekers[t]) /\ ListOK(seekers[t], Activity)
  BY <1>1, CallsFacts
<1>3. /\ seekers'[t].phase = "scan"
      /\ seekers'[t].now = seekers[t].now
      /\ seekers'[t].unseen = seekers[t].unseen \ {k}
      /\ \A x \in DOMAIN seekers' \ {t} :
             x \in DOMAIN seekers /\ seekers'[x] = seekers[x]
  <2>1. \E p, stamp : ShardListed(t, k, p, stamp)
    BY <1>1
  <2>2. QED
    BY <1>1, <1>2, <2>1 DEF ShardListed, IsSeeker
<1>4. /\ DOMAIN Activity = DOMAIN entries
      /\ \A x \in DOMAIN entries : Activity[x] = Stamp(entries[x])
  BY DEF Activity
<1> DEFINE stamps == seekers[t].stamps
<1>5. CASE k \in DOMAIN entries
  <2> DEFINE seen == With(stamps, k, Activity[k])
  <2>1. seekers'[t].stamps = seen
    <3>1. ShardListed(t, k, TRUE, Activity[k])
      BY <1>1, <1>4, <1>5
    <3>2. seekers' = [seekers EXCEPT ![t].unseen = @ \ {k},
                                     ![t].stamps = seen]
      BY <3>1 DEF ShardListed
    <3> HIDE DEF seen
    <3>3. QED
      BY <1>1, <1>2, <3>2 DEF IsSeeker
  <2>2. /\ DOMAIN seen = DOMAIN stamps \cup {k}
        /\ seen[k] = Activity[k]
        /\ \A x \in DOMAIN stamps \ {k} : seen[x] = stamps[x]
    BY DEF With
  <2> HIDE DEF seen
  <2>3. IsFiniteSet(DOMAIN seen)
    BY <1>2, <2>2, FS_AddElement DEF ListOK
  <2>4. Activity[k] <= seekers[t].now + MaxStall
    <3>1. Activity[k] \in Nat \cup {None} /\ Activity[k] <= clock
      BY <1>4, <1>5, StampBound
    <3>2. /\ clock \in Nat /\ clock <= seekers[t].now + MaxStall
          /\ seekers[t].now \in Nat
      BY <1>1, CallsFacts
    <3>3. QED
      BY <3>1, <3>2, ConstFacts DEF None
  <2>5. \A x \in DOMAIN seen :
            seen[x] <= seekers'[t].now + MaxStall
    BY <1>2, <1>3, <2>2, <2>4 DEF ListOK
  <2>6. ASSUME NEW x \in Key \ seekers'[t].unseen,
               IsOld(seekers'[t], Activity, x)
        PROVE  IsListed(seekers'[t], Activity, x)
    <3>1. CASE x = k
      BY <2>1, <2>2, <3>1 DEF IsListed
    <3>2. CASE x # k
      <4>1. x \in Key \ seekers[t].unseen /\ IsOld(seekers[t], Activity, x)
        BY <1>3, <2>6, <3>2 DEF IsOld
      <4>2. IsListed(seekers[t], Activity, x)
        BY <1>1, <1>2, <4>1 DEF ListOK
      <4>3. QED
        BY <2>1, <2>2, <3>2, <4>2 DEF IsListed
    <3>3. QED
      BY <3>1, <3>2
  <2>7. ListOK(seekers'[t], Activity)
    BY <1>3, <2>1, <2>3, <2>5, <2>6 DEF ListOK
  <2>8. QED
    BY <1>1, <1>3, <2>7, ActivityStays, OneListMoves
<1>6. CASE k \notin DOMAIN entries
  <2>1. seekers'[t].stamps = stamps
    BY <1>1, <1>2, <1>6 DEF ShardListed, IsSeeker
  <2>2. ASSUME NEW x \in Key \ seekers'[t].unseen,
               IsOld(seekers'[t], Activity, x)
        PROVE  IsListed(seekers'[t], Activity, x)
    <3>1. x # k /\ IsOld(seekers[t], Activity, x)
      BY <1>3, <1>4, <1>6, <2>2 DEF IsOld
    <3>2. x \in Key \ seekers[t].unseen
      BY <1>3, <3>1
    <3>3. QED
      BY <1>1, <1>2, <2>1, <3>1, <3>2 DEF ListOK, IsListed
  <2>3. ListOK(seekers'[t], Activity)
    BY <1>2, <1>3, <2>1, <2>2 DEF ListOK
  <2>4. QED
    BY <1>1, <1>3, <2>3, ActivityStays, OneListMoves
<1>7. QED
  BY <1>5, <1>6

\* The selection: what is not a victim is no older than any victim.
LEMMA ChooseLists ==
    ASSUME TypeOK, CallsOK, ListsKept,
           NEW t \in Thread, NEW victims \in SUBSET Key,
           ChooseVictims(t, victims)
    PROVE  ListsKept'
<1>1. /\ t \in DOMAIN seekers /\ seekers[t].phase = "scan"
      /\ seekers[t].unseen = {} /\ VictimsChosen(t, victims)
      /\ UNCHANGED <<algorithm, entries>>
  BY DEF ChooseVictims, VictimsChosen, Visited
<1>2. IsSeeker(seekers[t]) /\ ListOK(seekers[t], Activity)
  BY <1>1, CallsFacts
<1>3. /\ seekers'[t].phase = "evict"
      /\ seekers'[t].now = seekers[t].now
      /\ seekers'[t].stamps = seekers[t].stamps
      /\ seekers'[t].victims = victims
      /\ \A x \in DOMAIN seekers' \ {t} :
             x \in DOMAIN seekers /\ seekers'[x] = seekers[x]
  BY <1>1, <1>2 DEF VictimsChosen, IsSeeker
<1>4. /\ victims \subseteq DOMAIN seekers[t].stamps
      /\ Cardinality(victims) = BatchSize \/ Cardinality(victims) < BatchSize
      /\ \A v \in victims, x \in DOMAIN seekers[t].stamps \ victims :
             seekers[t].stamps[v] <= seekers[t].stamps[x]
  BY <1>1 DEF VictimsChosen, IsOldestBatch
<1>5. Cardinality(victims) <= BatchSize
  <2>1. IsFiniteSet(victims)
    BY <1>2, <1>4, FS_Subset DEF ListOK
  <2>2. Cardinality(victims) \in Nat
    BY <2>1, FS_CardinalityType
  <2>3. QED
    BY <1>4, <2>2, CapFacts
<1>6. ASSUME NEW x \in Key, IsOld(seekers'[t], Activity, x)
      PROVE  /\ IsListed(seekers'[t], Activity, x)
             /\ \/ x \in victims
                \/ \A v \in victims :
                      seekers'[t].stamps[v] <= seekers'[t].stamps[x]
  <2>1. IsOld(seekers[t], Activity, x)
    BY <1>3, <1>6 DEF IsOld
  <2>2. IsListed(seekers[t], Activity, x)
    BY <1>1, <1>2, <2>1 DEF ListOK
  <2>3. QED
    BY <1>3, <1>4, <2>2 DEF IsListed
<1>7. ListOK(seekers'[t], Activity)
  BY <1>2, <1>3, <1>5, <1>6 DEF ListOK
<1>8. QED
  BY <1>1, <1>3, <1>7, ActivityStays, OneListMoves

LEMMA RemoveLists ==
    ASSUME TypeOK, CallsOK, ListsKept,
           NEW t \in Thread, NEW v \in Key, RemoveVictim(t, v)
    PROVE  ListsKept'
<1>1. /\ t \in DOMAIN seekers /\ seekers[t].phase = "evict"
      /\ VictimTaken(t, v)
      /\ entries' = Without(entries, v) /\ UNCHANGED algorithm
  BY DEF RemoveVictim, VictimTaken
<1>2. /\ IsSeeker(seekers[t]) /\ ListOK(seekers[t], Activity)
      /\ IsFiniteSet(seekers[t].victims)
  <2>1. IsSeeker(seekers[t]) /\ ListOK(seekers[t], Activity)
    BY <1>1, CallsFacts
  <2>2. QED
    BY <2>1, FS_Subset DEF IsSeeker, ListOK
<1>3. /\ seekers'[t].phase = "evict"
      /\ seekers'[t].now = seekers[t].now
      /\ seekers'[t].stamps = seekers[t].stamps
      /\ seekers'[t].victims = seekers[t].victims \ {v}
      /\ \A x \in DOMAIN seekers' \ {t} :
             x \in DOMAIN seekers /\ seekers'[x] = seekers[x]
  BY <1>1, <1>2 DEF VictimTaken, IsSeeker
<1>4. /\ DOMAIN Activity' = DOMAIN Activity \ {v}
      /\ \A x \in DOMAIN Activity' : Activity'[x] = Activity[x]
      /\ ActivityMoves
  BY <1>1, ActivityTaken
<1>5. Cardinality(seekers[t].victims \ {v}) <= BatchSize
  <2>1. /\ IsFiniteSet(seekers[t].victims \ {v})
        /\ Cardinality(seekers[t].victims \ {v}) \in Nat
        /\ Cardinality(seekers[t].victims) \in Nat
        /\ Cardinality(seekers[t].victims \ {v}) <=
               Cardinality(seekers[t].victims)
    BY <1>2, FS_Subset, FS_CardinalityType
  <2>2. QED
    BY <1>1, <1>2, <2>1, CapFacts DEF ListOK
<1>6. ASSUME NEW x \in Key, IsOld(seekers'[t], Activity', x)
      PROVE  /\ IsListed(seekers'[t], Activity', x)
             /\ \/ x \in seekers'[t].victims
                \/ \A w \in seekers'[t].victims :
                      seekers'[t].stamps[w] <= seekers'[t].stamps[x]
  <2>1. x # v /\ IsOld(seekers[t], Activity, x) /\ Activity'[x] = Activity[x]
    BY <1>3, <1>4, <1>6 DEF IsOld
  <2>2. /\ IsListed(seekers[t], Activity, x)
        /\ \/ x \in seekers[t].victims
           \/ \A w \in seekers[t].victims :
                 seekers[t].stamps[w] <= seekers[t].stamps[x]
    BY <1>1, <1>2, <2>1 DEF ListOK
  <2>3. QED
    BY <1>3, <2>1, <2>2 DEF IsListed
<1>7. ListOK(seekers'[t], Activity')
  BY <1>2, <1>3, <1>5, <1>6 DEF ListOK
<1>8. QED
  BY <1>3, <1>4, <1>7, OneListMoves

LEMMA EndLists ==
    ASSUME TypeOK, CallsOK, ListsKept, NEW t \in Thread, EndEviction(t)
    PROVE  ListsKept'
<1>1. /\ t \in DOMAIN seekers /\ EvictionEnds(t)
      /\ UNCHANGED <<algorithm, entries>>
  BY DEF EndEviction, EvictionEnds
<1>2. IsSeeker(seekers[t])
  BY <1>1, CallsFacts
<1>3. /\ seekers'[t].phase = "enter" /\ seekers'[t].stamps = NoStamps
      /\ \A x \in DOMAIN seekers' \ {t} :
             x \in DOMAIN seekers /\ seekers'[x] = seekers[x]
  BY <1>1, <1>2 DEF EvictionEnds, IsSeeker
<1>4. DOMAIN NoStamps = {} /\ IsFiniteSet({})
  BY FS_EmptySet DEF NoStamps
<1>5. ListOK(seekers'[t], Activity)
  BY <1>3, <1>4 DEF ListOK
<1>6. QED
  BY <1>1, <1>3, <1>5, ActivityStays, OneListMoves

LEMMA EnteredLists ==
    ASSUME TypeOK, CallsOK, ListsKept, NEW t \in Thread, CheckEntered(t)
    PROVE  ListsKept'
<1> DEFINE k   == seekers[t].key
           now == Reading(t)
           e   == Acquired(Entry(k, now), now).entry
<1>1. /\ t \in DOMAIN seekers /\ UNCHANGED algorithm
      /\ entries' = With(entries, k, e)
      /\ \E isNew : seekers' = Overtaken(Without(seekers, t), isNew)
  BY DEF CheckEntered, Entered
<1>2. /\ k \in Key /\ now \in Nat /\ clock \in Nat
      /\ clock <= now + MaxStall /\ algorithm \in Algorithms
  <2>1. /\ IsSeeker(seekers[t]) /\ clock \in Nat
        /\ clock <= seekers[t].now + MaxStall /\ seekers[t].now \in Nat
    BY <1>1, CallsFacts
  <2>2. clock <= clock + MaxStall
    BY <2>1, ConstFacts
  <2>3. QED
    BY <2>1, <2>2 DEF IsSeeker, Reading, TypeOK
<1>3. \/ k \in DOMAIN entries /\ Stamp(e) = Stamp(entries[k])
      \/ Stamp(e) = None
      \/ Stamp(e) \in Nat /\ Stamp(e) >= clock - MaxStall
  <2>1. IsEntry(Entry(k, now))
    BY <1>2, EntryType
  <2>2. Stamp(e) \in {Stamp(Entry(k, now)), now, None}
    <3> HIDE DEF k, now
    <3>1. QED
      BY <1>2, <2>1, AcquiredStamp DEF e
  <2>3. now >= clock - MaxStall
    <3> HIDE DEF now
    <3>1. QED
      BY <1>2, ConstFacts
  <2>4. k \notin DOMAIN entries => Stamp(Entry(k, now)) \in {now, None}
    <3> HIDE DEF k, now
    <3>1. SUFFICES Stamp(Fresh(now)) \in {now, None}
      BY DEF Entry
    <3>2. QED
      BY <1>2 DEF Fresh, Stamp, Algorithms, NewBucket, NewWindow, BucketStamp,
                  LogStamp, WindowStamp
  <2>5. k \in DOMAIN entries => Entry(k, now) = entries[k]
    BY DEF Entry
  <2> HIDE DEF k, now, e
  <2>6. QED
    BY <1>2, <2>2, <2>3, <2>4, <2>5
<1> HIDE DEF k, now, e
<1>4. \A x \in DOMAIN seekers' : SameList(x)
  <2>1. \A x \in DOMAIN seekers : IsSeeker(seekers[x])
    BY DEF TypeOK, MapTypeOK
  <2>2. QED
    BY <1>1, <2>1 DEF Overtaken, Without, IsSeeker, SameList
<1>5. ActivityMoves
  BY <1>1, <1>2, <1>3, ActivityPut
<1>6. QED
  BY <1>4, <1>5, ListsMove

LEMMA UnaskedLists ==
    ASSUME TypeOK, CallsOK, ListsKept, NEW k \in Key,
           \/ ResetBucket(k) \/ ResetRemoves(k)
           \/ \E now \in Readings : CleanAndCount(k, now)
    PROVE  ListsKept'
<1>1. \A x \in DOMAIN seekers' : SameList(x)
  <2>1. seekers' = seekers \/ \E isNew : seekers' = Overtaken(seekers, isNew)
    BY DEF ResetBucket, ResetRemoves, CleanAndCount, EnteredUnasked
  <2>2. \A x \in DOMAIN seekers : IsSeeker(seekers[x])
    BY DEF TypeOK, MapTypeOK
  <2>3. QED
    BY <2>1, <2>2 DEF Overtaken, IsSeeker, SameList
<1>2. clock \in Nat /\ clock >= clock - MaxStall
  BY ConstFacts DEF TypeOK
<1>3. CASE ResetBucket(k)
  <2>1. /\ entries' = With(entries, k, NewBucket(clock)) /\ UNCHANGED algorithm
        /\ Stamp(NewBucket(clock)) = clock
    BY <1>3 DEF ResetBucket, Stamp, NewBucket, BucketStamp
  <2>2. ActivityMoves
    BY <1>2, <2>1, ActivityPut
  <2>3. QED
    BY <1>1, <2>2, ListsMove
<1>4. CASE ResetRemoves(k)
  <2>1. /\ DOMAIN Activity' = DOMAIN Activity \ {k}
        /\ ActivityMoves
    BY <1>4, ActivityTaken DEF ResetRemoves
  <2>2. QED
    BY <1>1, <2>1, ListsMove
<1>5. CASE \E now \in Readings : CleanAndCount(k, now)
  <2>1. PICK now \in Readings : CleanAndCount(k, now)
    BY <1>5
  <2> DEFINE e == Pruned(Entry(k, now), now - Window)
  <2>2. /\ entries' = With(entries, k, e) /\ UNCHANGED algorithm
        /\ algorithm = "sliding_window"
        /\ now \in Nat /\ now - Window \in Int
    BY <1>2, <2>1, ConstFacts DEF CleanAndCount, Readings
  <2>3. Entry(k, now) \in Seq(Nat)
    BY <2>2, EntryType DEF IsEntry
  <2>4. Stamp(e) \in {Stamp(Entry(k, now)), None}
    BY <2>2, <2>3, PrunedStamp DEF Stamp
  <2>5. k \notin DOMAIN entries => Stamp(Entry(k, now)) = None
    BY <2>2 DEF Entry, Fresh, Stamp, LogStamp
  <2>6. k \in DOMAIN entries => Entry(k, now) = entries[k]
    BY DEF Entry
  <2> HIDE DEF e
  <2>7. ActivityMoves
    BY <2>2, <2>4, <2>5, <2>6, ActivityPut
  <2>8. QED
    BY <1>1, <2>7, ListsMove
<1>6. QED
  BY <1>3, <1>4, <1>5

LEMMA ListsStep ==
    ASSUME TypeOK, CallsOK, EntriesKept, ListsKept, [Next]_vars
    PROVE  ListsKept'
<1>1. ASSUME UNCHANGED <<seekers, algorithm, entries>>
      PROVE  ListsKept'
  BY <1>1, ActivityStays DEF ListsKept
<1>2. CASE Tick
  BY <1>1, <1>2 DEF Tick
<1>3. CASE UNCHANGED vars
  BY <1>1, <1>3 DEF vars
<1>4. QED
  BY <1>2, <1>3, BeginLists, CountLists, DecideLists, ListShardLists,
     ChooseLists, RemoveLists, EndLists, EnteredLists, UnaskedLists DEF Next

ListInv == KeptInv /\ ListsKept

LEMMA SpecListed == Spec => []ListInv
<1>1. Init => ListsKept
  BY DEF Init, MapInit, ListsKept
<1>2. KeptInv /\ ListsKept /\ [Next]_vars => ListsKept'
  BY ListsStep DEF KeptInv
<1>3. QED
  BY <1>1, <1>2, SpecKept, PTL DEF Spec, ListInv

\* Evict the least recently active entries (mod.rs:36): however old its list,
\* an eviction that removes an entry unused since it was listed leaves fewer
\* than a batch of entries idle for longer, by more than two stalls.
THEOREM SparedCorrect == Spec => ActiveSpared
<1>1. ASSUME ListInv, NEW t \in DOMAIN seekers, NEW v \in DOMAIN entries,
             RemoveVictim(t, v), Stamp(entries[v]) = seekers[t].stamps[v]
      PROVE  Cardinality({k \in DOMAIN entries' :
                              /\ Stamp(entries[k]) # None
                              /\ Stamp(entries[k]) <
                                     Stamp(entries[v]) - 2 * MaxStall})
                 < BatchSize
  <2> DEFINE s == seekers[t]
             left == {k \in DOMAIN entries' :
                          /\ Stamp(entries[k]) # None
                          /\ Stamp(entries[k]) <
                                 Stamp(entries[v]) - 2 * MaxStall}
  <2>1. /\ TypeOK /\ CallsOK /\ EntriesKept /\ ListsKept
        /\ DOMAIN entries \subseteq Key
    BY <1>1 DEF ListInv, KeptInv, TypeOK
  <2>2. IsSeeker(s) /\ ListOK(s, Activity) /\ s.now \in Nat
    BY <2>1, CallsFacts
  <2>3. /\ s.phase = "evict" /\ v \in s.victims
        /\ DOMAIN entries' = DOMAIN entries \ {v}
    BY <1>1 DEF RemoveVictim, VictimTaken, Without
  <2>4. v \in DOMAIN s.stamps
    BY <2>2, <2>3 DEF IsSeeker
  <2>5. s.stamps[v] <= s.now + MaxStall
    BY <2>2, <2>4 DEF ListOK
  <2>6. Stamp(entries[v]) \in Int
    BY <2>1, StampBound DEF None
  <2>7. ASSUME NEW k \in left PROVE k \in s.victims \ {v}
    <3>1. /\ k \in DOMAIN entries /\ k \in Key /\ k # v
          /\ Stamp(entries[k]) # None
          /\ Stamp(entries[k]) < Stamp(entries[v]) - 2 * MaxStall
      BY <2>1, <2>3
    <3>2. Stamp(entries[k]) \in Int
      BY <2>1, <3>1, StampBound DEF None
    <3>3. Activity[k] = Stamp(entries[k]) /\ k \in DOMAIN Activity
      BY <3>1 DEF Activity
    <3>4. Stamp(entries[k]) < s.now - MaxStall
      BY <1>1, <2>2, <2>5, <2>6, <3>1, <3>2, ConstFacts
    <3>5. IsOld(s, Activity, k)
      BY <3>1, <3>3, <3>4 DEF IsOld
    <3>6. /\ IsListed(s, Activity, k)
          /\ k \in s.victims \/ s.stamps[v] <= s.stamps[k]
      BY <2>2, <2>3, <3>1, <3>5 DEF ListOK
    <3>7. s.stamps[k] = Stamp(entries[k])
      BY <3>3, <3>6 DEF IsListed
    <3>8. ~ (s.stamps[v] <= s.stamps[k])
      BY <1>1, <2>6, <3>1, <3>2, <3>7, ConstFacts
    <3>9. QED
      BY <3>1, <3>6, <3>8
  <2>8. /\ IsFiniteSet(s.victims)
        /\ Cardinality(s.victims) \in Nat
        /\ Cardinality(s.victims \ {v}) = Cardinality(s.victims) - 1
        /\ IsFiniteSet(s.victims \ {v})
    <3>1. IsFiniteSet(s.victims)
      BY <2>2, FS_Subset DEF IsSeeker, ListOK
    <3>2. QED
      BY <2>3, <3>1, FS_RemoveElement, FS_CardinalityType
  <2>9. left \subseteq s.victims \ {v}
    BY <2>7
  <2>10. Cardinality(left) <= Cardinality(s.victims \ {v})
         /\ Cardinality(left) \in Nat
    <3> HIDE DEF left, s
    <3>1. QED
      BY <2>8, <2>9, FS_Subset, FS_CardinalityType
  <2>11. Cardinality(s.victims) <= BatchSize
    BY <2>2, <2>3 DEF ListOK
  <2>12. Cardinality(left) < BatchSize
    <3> HIDE DEF left, s
    <3>1. QED
      BY <2>8, <2>10, <2>11, CapFacts
  <2>13. QED
    BY <2>12
<1>2. ListInv /\ [Next]_vars =>
          [\A t \in DOMAIN seekers, v \in DOMAIN entries :
             (RemoveVictim(t, v)
                 /\ Stamp(entries[v]) = seekers[t].stamps[v]) =>
             Cardinality({k \in DOMAIN entries' :
                 /\ Stamp(entries[k]) # None
                 /\ Stamp(entries[k]) < Stamp(entries[v]) - 2 * MaxStall})
                     < BatchSize]_vars
  BY <1>1
<1>3. QED
  BY <1>2, SpecListed, PTL DEF Spec, ActiveSpared
=============================================================================
