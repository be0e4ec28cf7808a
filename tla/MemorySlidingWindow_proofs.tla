--------------------- MODULE MemorySlidingWindow_proofs ---------------------
(***************************************************************************)
(* Proofs about MemorySlidingWindow, for every value of its constants.     *)
(***************************************************************************)
EXTENDS MemorySlidingWindow, CleanupPass_proofs, SequenceTheorems,
        WellFoundedInduction

LEMMA ConstFacts ==
    /\ MaxRequests \in Nat /\ 1 <= MaxRequests
    /\ Window \in Nat /\ 1 <= Window
    /\ MaxClock \in Nat
    /\ MaxStall \in Nat
    /\ IdleTTL \in Nat
BY SlidingAssumption, CleanupAssumption

-----------------------------------------------------------------------------
\* What the pop_front loop leaves.

\* A set of positions has a first one.
LEMMA FirstPosition ==
    ASSUME NEW S \in SUBSET Nat, S # {}
    PROVE  LET first == CHOOSE i \in S : \A j \in S : i <= j
           IN  /\ first \in S
               /\ \A j \in S : first <= j
<1>1. PICK i \in S : \A j \in S : ~(<<j, i>> \in OpToRel(<, Nat))
  BY NatLessThanWellFounded, WFMin
<1>2. \A j \in S : ~(j < i)
  BY <1>1 DEF OpToRel
<1>3. \E x \in S : \A j \in S : x <= j
  BY <1>2
<1>4. QED
  BY <1>3

\* Pruning takes stamps from the front of the log, all of them older than
\* the cutoff, and stops at the first that is not.
LEMMA PrunedIs ==
    ASSUME NEW log \in Seq(Nat), NEW cutoff \in Int
    PROVE  \E gone \in 0..Len(log) :
               /\ Pruned(log, cutoff) \in Seq(Nat)
               /\ Len(Pruned(log, cutoff)) = Len(log) - gone
               /\ \A i \in 1..(Len(log) - gone) :
                      Pruned(log, cutoff)[i] = log[gone + i]
               /\ \A i \in 1..gone : log[i] < cutoff
               /\ gone < Len(log) => log[gone + 1] >= cutoff
<1> DEFINE kept == {i \in 1..Len(log) : log[i] >= cutoff}
<1>1. /\ Len(log) \in Nat
      /\ \A i \in 1..Len(log) : log[i] \in Nat
  BY ElementOfSeq, LenProperties
<1>2. CASE kept = {}
  <2>1. Pruned(log, cutoff) = <<>>
    BY <1>2 DEF Pruned
  <2>2. \A i \in 1..Len(log) : log[i] < cutoff
    BY <1>1, <1>2
  <2>3. Len(log) \in 0..Len(log)
    BY <1>1
  <2>4. /\ Pruned(log, cutoff) \in Seq(Nat)
        /\ Len(Pruned(log, cutoff)) = Len(log) - Len(log)
        /\ \A i \in 1..(Len(log) - Len(log)) :
               Pruned(log, cutoff)[i] = log[Len(log) + i]
    BY <1>1, <2>1
  <2>5. QED
    BY <1>1, <2>2, <2>3, <2>4
<1>3. CASE kept # {}
  <2> DEFINE first == CHOOSE i \in kept : \A j \in kept : i <= j
  <2>1. first \in kept /\ \A j \in kept : first <= j
    <3>1. kept \in SUBSET Nat
      BY <1>1
    <3> HIDE DEF kept
    <3>2. QED
      BY <1>3, <3>1, FirstPosition
  <2>2. Pruned(log, cutoff) = SubSeq(log, first, Len(log))
    BY <1>3 DEF Pruned
  <2>3. first \in 1..Len(log) /\ log[first] >= cutoff
    BY <2>1
  <2>4. \A i \in 1..(first - 1) : log[i] < cutoff
    <3> SUFFICES ASSUME NEW i \in 1..(first - 1) PROVE log[i] < cutoff
      OBVIOUS
    <3>1. i \in 1..Len(log) /\ ~ (first <= i)
      <4> HIDE DEF first, kept
      <4>1. QED
        BY <1>1, <2>3
    <3>2. i \notin kept
      BY <2>1, <3>1
    <3>3. QED
      BY <1>1, <3>1, <3>2
  <2> HIDE DEF first, kept
  <2>5. \A i \in first..Len(log) : log[i] \in Nat
    BY <1>1, <2>3
  <2>6. /\ SubSeq(log, first, Len(log)) \in Seq(Nat)
        /\ Len(SubSeq(log, first, Len(log))) = Len(log) - (first - 1)
        /\ \A i \in 1..(Len(log) - first + 1) :
               SubSeq(log, first, Len(log))[i] = log[first + i - 1]
    BY <1>1, <2>3, <2>5, SubSeqProperties
  <2>7. PICK gone \in 0..Len(log) : gone = first - 1
    BY <1>1, <2>3
  <2>8. /\ Len(Pruned(log, cutoff)) = Len(log) - gone
        /\ \A i \in 1..(Len(log) - gone) :
               Pruned(log, cutoff)[i] = log[gone + i]
        /\ \A i \in 1..gone : log[i] < cutoff
        /\ log[gone + 1] >= cutoff
    BY <1>1, <2>2, <2>3, <2>4, <2>6, <2>7
  <2>9. QED
    BY <2>2, <2>6, <2>8
<1>4. QED
  BY <1>2, <1>3

-----------------------------------------------------------------------------
\* The history of a key and the log the store keeps of it.

\* Admissions are in order, and none is later than the clock.
Ordered(times, at) ==
    /\ \A i, j \in 1..Len(times) : i <= j => times[i] <= times[j]
    /\ \A i \in 1..Len(times) : times[i] <= at

\* The stamps of the log belong to the latest admissions, in their order:
\* each was read before the admission, by a stall at most.
Matched(log, times) ==
    LET gone == Len(times) - Len(log)
    IN  /\ gone >= 0
        /\ \A i \in 1..Len(log) : /\ log[i] <= times[gone + i]
                                  /\ times[gone + i] <= log[i] + MaxStall

\* The admissions the log has lost are out of every window that a check may
\* still be held to.
Expired(log, times, at) ==
    IdleTTL > Window =>
        \A i \in 1..(Len(times) - Len(log)) : at - times[i] > Window - MaxStall

KeyInv(log, times, at) ==
    /\ Ordered(times, at)
    /\ Matched(log, times)
    /\ Expired(log, times, at)

\* Time passes.
LEMMA KeyTicks ==
    ASSUME NEW log \in Seq(Nat), NEW times \in Seq(Nat), NEW at \in Nat,
           KeyInv(log, times, at)
    PROVE  KeyInv(log, times, at + 1)
<1>1. /\ Len(log) \in Nat /\ Len(times) \in Nat
      /\ \A i \in 1..Len(times) : times[i] \in Nat
  BY ElementOfSeq, LenProperties
<1>2. Len(times) - Len(log) <= Len(times)
  BY <1>1
<1>3. Ordered(times, at + 1)
  BY <1>1 DEF KeyInv, Ordered
<1>4. Expired(log, times, at + 1)
  BY <1>1, <1>2, ConstFacts DEF KeyInv, Expired
<1>5. QED
  BY <1>3, <1>4 DEF KeyInv

\* A check prunes the log.
LEMMA KeyPruned ==
    ASSUME NEW log \in Seq(Nat), NEW times \in Seq(Nat), NEW at \in Nat,
           KeyInv(log, times, at),
           NEW now \in Nat, now <= at
    PROVE  /\ Pruned(log, now - Window) \in Seq(Nat)
           /\ Len(Pruned(log, now - Window)) <= Len(log)
           /\ \A i \in 1..Len(Pruned(log, now - Window)) :
                  \E j \in 1..Len(log) : Pruned(log, now - Window)[i] = log[j]
           /\ KeyInv(Pruned(log, now - Window), times, at)
<1> DEFINE live == Pruned(log, now - Window)
           lost == Len(times) - Len(log)
<1>1. /\ Len(log) \in Nat /\ Len(times) \in Nat
      /\ \A i \in 1..Len(times) : times[i] \in Nat
      /\ \A i \in 1..Len(log) : log[i] \in Nat
  BY ElementOfSeq, LenProperties
<1>2. now - Window \in Int
  BY ConstFacts
<1>3. PICK gone \in 0..Len(log) :
          /\ live \in Seq(Nat)
          /\ Len(live) = Len(log) - gone
          /\ \A i \in 1..(Len(log) - gone) : live[i] = log[gone + i]
          /\ \A i \in 1..gone : log[i] < now - Window
  BY <1>2, PrunedIs
<1> HIDE DEF live
<1>4. /\ lost >= 0 /\ lost \in Nat
      /\ \A i \in 1..Len(log) : /\ log[i] <= times[lost + i]
                                /\ times[lost + i] <= log[i] + MaxStall
  BY <1>1 DEF KeyInv, Matched
<1>5. \A i \in 1..Len(live) : gone + i \in 1..Len(log) /\ live[i] = log[gone + i]
  BY <1>1, <1>3
<1>6. Matched(live, times)
  <2>1. Len(times) - Len(live) = lost + gone
    BY <1>1, <1>3
  <2>2. \A i \in 1..Len(live) :
            /\ live[i] <= times[(lost + gone) + i]
            /\ times[(lost + gone) + i] <= live[i] + MaxStall
    <3> SUFFICES ASSUME NEW i \in 1..Len(live)
                 PROVE  /\ live[i] <= times[(lost + gone) + i]
                        /\ times[(lost + gone) + i] <= live[i] + MaxStall
      OBVIOUS
    <3>1. /\ log[gone + i] <= times[lost + (gone + i)]
          /\ times[lost + (gone + i)] <= log[gone + i] + MaxStall
      BY <1>4, <1>5
    <3>2. lost + (gone + i) = (lost + gone) + i
      BY <1>1, <1>3
    <3>3. QED
      BY <1>5, <3>1, <3>2
  <2>3. QED
    BY <1>1, <1>3, <1>4, <2>1, <2>2 DEF Matched
<1>7. Expired(live, times, at)
  <2> SUFFICES ASSUME IdleTTL > Window, NEW i \in 1..(Len(times) - Len(live))
               PROVE  at - times[i] > Window - MaxStall
    BY DEF Expired
  <2>1. i \in 1..(lost + gone) /\ i \in 1..Len(times)
    BY <1>1, <1>3, <1>4
  <2>2. CASE i <= lost
    BY <2>1, <2>2, <1>4 DEF KeyInv, Expired
  <2>3. CASE i > lost
    <3>1. /\ i - lost \in 1..gone /\ i - lost \in 1..Len(log)
          /\ lost + (i - lost) = i
      BY <1>1, <1>3, <1>4, <2>1, <2>3
    <3>2. log[i - lost] < now - Window /\ times[i] <= log[i - lost] + MaxStall
      BY <1>3, <1>4, <3>1
    <3>3. log[i - lost] \in Nat /\ times[i] \in Nat
      BY <1>1, <2>1, <3>1
    <3>4. PICK stamp \in Nat : stamp = log[i - lost]
      BY <3>3
    <3>5. PICK time \in Nat : time = times[i]
      BY <3>3
    <3>6. stamp < now - Window /\ time <= stamp + MaxStall
      BY <3>2, <3>4, <3>5
    <3>7. at - time > Window - MaxStall
      <4> HIDE DEF lost, live
      <4>1. now <= at /\ Window \in Nat /\ MaxStall \in Nat
        BY ConstFacts
      <4>2. QED
        BY <3>6, <4>1
    <3>8. QED
      BY <3>5, <3>7
  <2>4. QED
    BY <1>4, <2>1, <2>2, <2>3
<1>8. Ordered(times, at)
  BY DEF KeyInv
<1>9. live \in Seq(Nat) /\ Len(live) <= Len(log)
  BY <1>1, <1>3
<1>10. QED
  BY <1>5, <1>6, <1>7, <1>8, <1>9 DEF KeyInv, live

\* A check is admitted: its stamp is no later than the admission, and no
\* earlier than a stall before it.
LEMMA KeyAdmitted ==
    ASSUME NEW log \in Seq(Nat), NEW times \in Seq(Nat), NEW at \in Nat,
           KeyInv(log, times, at),
           NEW now \in Nat, now <= at, at <= now + MaxStall
    PROVE  KeyInv(Append(log, now), Append(times, at), at)
<1> DEFINE log2   == Append(log, now)
           times2 == Append(times, at)
           lost   == Len(times) - Len(log)
<1>1. /\ Len(log) \in Nat /\ Len(times) \in Nat
      /\ \A i \in 1..Len(times) : times[i] \in Nat
  BY ElementOfSeq, LenProperties
<1>2. /\ Len(log2) = Len(log) + 1
      /\ \A i \in 1..Len(log) : log2[i] = log[i]
      /\ log2[Len(log) + 1] = now
  BY AppendProperties
<1>3. /\ Len(times2) = Len(times) + 1
      /\ \A i \in 1..Len(times) : times2[i] = times[i]
      /\ times2[Len(times) + 1] = at
  BY AppendProperties
<1> HIDE DEF log2, times2
<1>4. /\ lost \in Nat
      /\ \A i \in 1..Len(log) : /\ log[i] <= times[lost + i]
                                /\ times[lost + i] <= log[i] + MaxStall
  BY <1>1 DEF KeyInv, Matched
<1>5. Len(times2) - Len(log2) = lost
  BY <1>1, <1>2, <1>3
<1>6. Matched(log2, times2)
  <2> SUFFICES \A i \in 1..Len(log2) :
                   /\ log2[i] <= times2[lost + i]
                   /\ times2[lost + i] <= log2[i] + MaxStall
    <3>1. lost >= 0
      BY <1>4
    <3> HIDE DEF lost
    <3>2. QED
      BY <1>5, <3>1 DEF Matched
  <2> TAKE i \in 1..Len(log2)
  <2>1. CASE i \in 1..Len(log)
    <3>1. lost + i \in 1..Len(times)
      BY <1>1, <1>4, <2>1
    <3>2. log2[i] = log[i]
      BY <1>2, <2>1
    <3>3. times2[lost + i] = times[lost + i]
      BY <1>3, <3>1
    <3>4. log[i] <= times[lost + i] /\ times[lost + i] <= log[i] + MaxStall
      BY <1>4, <2>1
    <3>5. QED
      BY <3>2, <3>3, <3>4
  <2>2. CASE i = Len(log) + 1
    <3>1. lost + i = Len(times) + 1
      BY <1>1, <2>2
    <3>2. QED
      BY <1>2, <1>3, <2>2, <3>1
  <2>3. QED
    BY <1>1, <1>2, <2>1, <2>2
<1>7. Ordered(times2, at)
  <2>1. \A i \in 1..Len(times2) :
            \/ i \in 1..Len(times) /\ times2[i] = times[i] /\ times[i] <= at
            \/ i = Len(times) + 1 /\ times2[i] = at
    BY <1>1, <1>3 DEF KeyInv, Ordered
  <2>2. \A i \in 1..Len(times2) : times2[i] <= at
    BY <2>1
  <2>3. ASSUME NEW i \in 1..Len(times2), NEW j \in 1..Len(times2), i <= j
        PROVE  times2[i] <= times2[j]
    <3>1. CASE j \in 1..Len(times)
      <4>1. i \in 1..Len(times)
        BY <1>1, <1>3, <2>3, <3>1
      <4>2. QED
        BY <1>3, <2>3, <3>1, <4>1 DEF KeyInv, Ordered
    <3>2. CASE j = Len(times) + 1
      BY <1>3, <2>2, <3>2
    <3>3. QED
      BY <2>1, <3>1, <3>2
  <2>4. QED
    BY <2>2, <2>3 DEF Ordered
<1>8. Expired(log2, times2, at)
  <2> SUFFICES ASSUME IdleTTL > Window, NEW i \in 1..lost
               PROVE  at - times2[i] > Window - MaxStall
    BY <1>5 DEF Expired
  <2>1. i \in 1..Len(times)
    BY <1>1, <1>4
  <2>2. QED
    BY <1>3, <2>1 DEF KeyInv, Expired
<1>9. QED
  BY <1>6, <1>7, <1>8 DEF KeyInv, log2, times2

\* The pass drops a log whose last stamp is idle: no admission is later than
\* a stall after it.
LEMMA KeyDropped ==
    ASSUME NEW log \in Seq(Nat), NEW times \in Seq(Nat), NEW at \in Nat,
           KeyInv(log, times, at), Len(log) >= 1,
           NEW now \in Nat, now <= at, Since(now, log[Len(log)]) >= IdleTTL
    PROVE  KeyInv(<<>>, times, at)
<1>1. /\ Len(log) \in Nat /\ Len(times) \in Nat
      /\ \A i \in 1..Len(times) : times[i] \in Nat
      /\ log[Len(log)] \in Nat
  BY ElementOfSeq, LenProperties
<1>2. Len(<<>>) = 0
  OBVIOUS
<1>3. Matched(<<>>, times)
  BY <1>1, <1>2 DEF Matched
<1>4. ASSUME IdleTTL > Window, NEW i \in 1..Len(times)
      PROVE  at - times[i] > Window - MaxStall
  <2>1. Len(times) - Len(log) >= 0
    BY DEF KeyInv, Matched
  <2>2. times[Len(times)] <= log[Len(log)] + MaxStall
    <3>1. times[(Len(times) - Len(log)) + Len(log)] <= log[Len(log)] + MaxStall
      BY <1>1 DEF KeyInv, Matched
    <3>2. (Len(times) - Len(log)) + Len(log) = Len(times)
      BY <1>1
    <3>3. QED
      BY <3>1, <3>2
  <2>3. times[i] <= times[Len(times)] /\ times[Len(times)] \in Nat
    BY <1>1 DEF KeyInv, Ordered
  <2>4. now - log[Len(log)] >= IdleTTL
    BY <1>1, <1>4, ConstFacts DEF Since
  <2>5. times[i] \in Nat
    BY <1>1
  <2>6. times[i] <= log[Len(log)] + MaxStall
    BY <1>1, <2>2, <2>3, <2>5, ConstFacts
  <2>7. PICK last \in Nat, m \in Nat : last = log[Len(log)] /\ m = times[i]
    BY <1>1, <2>5
  <2>8. /\ now - last >= IdleTTL /\ IdleTTL > Window
        /\ m <= last + MaxStall
    BY <1>4, <2>4, <2>6, <2>7
  <2>9. at - m > Window - MaxStall
    BY <2>8, ConstFacts
  <2>10. QED
    BY <2>7, <2>9
<1>5. Expired(<<>>, times, at)
  BY <1>1, <1>2, <1>4 DEF Expired
<1>6. QED
  BY <1>3, <1>5 DEF KeyInv

\* A key starts, and is forgotten, with neither log nor history.
LEMMA KeyForgotten ==
    ASSUME NEW at \in Nat
    PROVE  KeyInv(<<>>, <<>>, at)
BY DEF KeyInv, Ordered, Matched, Expired

-----------------------------------------------------------------------------
\* The invariant.

\* A waiting check has read the clock, and is late by a stall at most.
CallsOK ==
    /\ IsPartialMap(call, Thread, Call)
    /\ \A t \in DOMAIN call : /\ call[t].now <= clock
                              /\ clock <= call[t].now + MaxStall

\* A log in the map is neither empty nor over the limit, its stamps are no
\* later than the clock, and it is what KeyInv says of the key's history.
LogsOK ==
    /\ clock \in 0..MaxClock
    /\ IsPartialMap(logs, Key, Seq(Nat))
    /\ \A k \in DOMAIN logs : /\ Len(logs[k]) \in 1..MaxRequests
                              /\ \A i \in 1..Len(logs[k]) :
                                     logs[k][i] <= clock
    /\ admitted \in [Key -> Seq(Nat)]
    /\ \A k \in Key : KeyInv(Log(k), admitted[k], clock)

Inv ==
    /\ PassTypeOK
    /\ cleaner.now <= clock
    /\ CallsOK
    /\ LogsOK

\* What Inv says of a key and of a waiting check.
LEMMA InvFacts ==
    ASSUME Inv
    PROVE  /\ clock \in Nat
           /\ cleaner.now \in Nat
           /\ \A k \in DOMAIN logs : /\ k \in Key
                                     /\ logs[k] \in Seq(Nat)
                                     /\ Len(logs[k]) \in 1..MaxRequests
           /\ \A k \in Key : /\ Log(k) \in Seq(Nat)
                             /\ Len(Log(k)) \in 0..MaxRequests
                             /\ \A i \in 1..Len(Log(k)) : Log(k)[i] <= clock
                             /\ admitted[k] \in Seq(Nat)
           /\ \A t \in DOMAIN call : call[t].key \in Key /\ call[t].now \in Nat
<1>1. clock \in Nat /\ cleaner.now \in Nat
  BY DEF Inv, LogsOK, PassTypeOK, IsPass
<1>2. \A k \in DOMAIN logs : /\ k \in Key
                            /\ logs[k] \in Seq(Nat)
                            /\ Len(logs[k]) \in 1..MaxRequests
                            /\ \A i \in 1..Len(logs[k]) : logs[k][i] <= clock
  <2>1. IsPartialMap(logs, Key, Seq(Nat))
    BY DEF Inv, LogsOK
  <2>2. DOMAIN logs \subseteq Key /\ \A k \in DOMAIN logs : logs[k] \in Seq(Nat)
    BY <2>1, PartialMapFacts
  <2>3. QED
    BY <2>2 DEF Inv, LogsOK
<1>3. \A k \in Key : /\ Log(k) \in Seq(Nat)
                    /\ Len(Log(k)) \in 0..MaxRequests
                    /\ \A i \in 1..Len(Log(k)) : Log(k)[i] <= clock
  <2> SUFFICES ASSUME NEW k \in Key
               PROVE  /\ Log(k) \in Seq(Nat)
                      /\ Len(Log(k)) \in 0..MaxRequests
                      /\ \A i \in 1..Len(Log(k)) : Log(k)[i] <= clock
    OBVIOUS
  <2>1. CASE k \in DOMAIN logs
    <3>1. Len(logs[k]) \in 0..MaxRequests
      BY <1>2, <2>1, ConstFacts
    <3>2. QED
      BY <1>2, <2>1, <3>1 DEF Log
  <2>2. CASE k \notin DOMAIN logs
    <3>1. Log(k) = <<>>
      BY <2>2 DEF Log
    <3>2. QED
      BY <3>1, ConstFacts
  <2>3. QED
    BY <2>1, <2>2
<1>4. \A t \in DOMAIN call : call[t].key \in Key /\ call[t].now \in Nat
  <2>1. IsPartialMap(call, Thread, Call)
    BY DEF Inv, CallsOK
  <2>2. \A t \in DOMAIN call : call[t] \in Call
    BY <2>1, PartialMapFacts
  <2>3. QED
    BY <2>2 DEF Call
<1>5. \A k \in Key : admitted[k] \in Seq(Nat)
  BY DEF Inv, LogsOK
<1>6. QED
  BY <1>1, <1>2, <1>3, <1>4, <1>5

\* Put and Removed, for the map of logs.
LEMMA LogPut ==
    ASSUME IsPartialMap(logs, Key, Seq(Nat)), NEW k \in Key, NEW log \in Seq(Nat),
           logs' = With(logs, k, log)
    PROVE  /\ IsPartialMap(logs', Key, Seq(Nat))
           /\ DOMAIN logs' = DOMAIN logs \cup {k}
           /\ logs'[k] = log
           /\ \A x \in DOMAIN logs \ {k} : logs'[x] = logs[x]
<1>1. IsPartialMap(logs', Key, Seq(Nat))
  BY Put
<1>2. /\ DOMAIN logs' = DOMAIN logs \cup {k}
      /\ logs'[k] = log
      /\ \A x \in DOMAIN logs \ {k} : logs'[x] = logs[x]
  BY DEF With
<1>3. QED
  BY <1>1, <1>2

LEMMA LogCut ==
    ASSUME IsPartialMap(logs, Key, Seq(Nat)), NEW k, logs' = Without(logs, k)
    PROVE  /\ IsPartialMap(logs', Key, Seq(Nat))
           /\ DOMAIN logs' = DOMAIN logs \ {k}
           /\ \A x \in DOMAIN logs \ {k} : logs'[x] = logs[x]
<1>1. IsPartialMap(logs', Key, Seq(Nat))
  BY Removed
<1>2. /\ DOMAIN logs' = DOMAIN logs \ {k}
      /\ \A x \in DOMAIN logs \ {k} : logs'[x] = logs[x]
  BY DEF Without
<1>3. QED
  BY <1>1, <1>2

\* A step that leaves the clock, the logs and the history alone.
LEMMA LogsStable ==
    ASSUME LogsOK, UNCHANGED <<clock, logs, admitted>>
    PROVE  LogsOK'
BY DEF LogsOK, Log

\* A step that writes one key's log, and its history.
LEMMA LogWritten ==
    ASSUME Inv, UNCHANGED clock, NEW k \in Key,
           NEW log \in Seq(Nat), Len(log) \in 1..MaxRequests,
           \A i \in 1..Len(log) : log[i] <= clock,
           logs' = With(logs, k, log),
           NEW times \in Seq(Nat), admitted' = [admitted EXCEPT ![k] = times],
           KeyInv(log, times, clock)
    PROVE  LogsOK'
<1>1. IsPartialMap(logs, Key, Seq(Nat))
  BY DEF Inv, LogsOK
<1>2. /\ IsPartialMap(logs', Key, Seq(Nat))
      /\ DOMAIN logs' = DOMAIN logs \cup {k}
      /\ logs'[k] = log
      /\ \A x \in DOMAIN logs \ {k} : logs'[x] = logs[x]
  BY <1>1, LogPut
<1>3. \A x \in DOMAIN logs' : /\ Len(logs'[x]) \in 1..MaxRequests
                             /\ \A i \in 1..Len(logs'[x]) :
                                    logs'[x][i] <= clock
  BY <1>2 DEF Inv, LogsOK
<1>4. /\ admitted' \in [Key -> Seq(Nat)]
      /\ admitted'[k] = times
      /\ \A x \in Key \ {k} : admitted'[x] = admitted[x]
  BY DEF Inv, LogsOK
<1>5. Log(k)' = log /\ \A x \in Key \ {k} : Log(x)' = Log(x)
  BY <1>2 DEF Log
<1>6. \A x \in Key : KeyInv(Log(x)', admitted'[x], clock)
  BY <1>4, <1>5 DEF Inv, LogsOK
<1>7. QED
  BY <1>2, <1>3, <1>4, <1>6 DEF Inv, LogsOK

\* A step that removes one key's log, if it has one.
LEMMA LogRemoved ==
    ASSUME Inv, UNCHANGED clock, NEW k \in Key, logs' = Without(logs, k),
           NEW times \in Seq(Nat), admitted' = [admitted EXCEPT ![k] = times],
           KeyInv(<<>>, times, clock)
    PROVE  LogsOK'
<1>1. IsPartialMap(logs, Key, Seq(Nat))
  BY DEF Inv, LogsOK
<1>2. /\ IsPartialMap(logs', Key, Seq(Nat))
      /\ DOMAIN logs' = DOMAIN logs \ {k}
      /\ \A x \in DOMAIN logs \ {k} : logs'[x] = logs[x]
  BY <1>1, LogCut
<1>3. \A x \in DOMAIN logs' : /\ Len(logs'[x]) \in 1..MaxRequests
                             /\ \A i \in 1..Len(logs'[x]) :
                                    logs'[x][i] <= clock
  BY <1>2 DEF Inv, LogsOK
<1>4. /\ admitted' \in [Key -> Seq(Nat)]
      /\ admitted'[k] = times
      /\ \A x \in Key \ {k} : admitted'[x] = admitted[x]
  BY DEF Inv, LogsOK
<1>5. Log(k)' = <<>> /\ \A x \in Key \ {k} : Log(x)' = Log(x)
  BY <1>2 DEF Log
<1>6. \A x \in Key : KeyInv(Log(x)', admitted'[x], clock)
  BY <1>4, <1>5 DEF Inv, LogsOK
<1>7. QED
  BY <1>2, <1>3, <1>4, <1>6 DEF Inv, LogsOK

\* A check finds the log pruned, and what it leaves is never empty.
LEMMA CheckKeeps ==
    ASSUME Inv, NEW t \in Thread, CheckLocked(t)
    PROVE  LogsOK'
<1> DEFINE k    == call[t].key
           now  == call[t].now
           live == LiveLog(k, now)
<1>1. /\ k \in Key /\ now \in Nat
      /\ now <= clock /\ clock <= now + MaxStall
      /\ clock \in Nat
  BY InvFacts DEF CheckLocked, Inv, CallsOK
<1>2. /\ Log(k) \in Seq(Nat) /\ Len(Log(k)) \in 0..MaxRequests
      /\ \A i \in 1..Len(Log(k)) : Log(k)[i] <= clock
      /\ admitted[k] \in Seq(Nat)
      /\ KeyInv(Log(k), admitted[k], clock)
  BY <1>1, InvFacts DEF Inv, LogsOK
<1>3. /\ live \in Seq(Nat)
      /\ Len(live) <= Len(Log(k))
      /\ \A i \in 1..Len(live) : \E j \in 1..Len(Log(k)) : live[i] = Log(k)[j]
      /\ KeyInv(live, admitted[k], clock)
  BY <1>1, <1>2, KeyPruned DEF LiveLog
<1>4. /\ IF Len(live) < MaxRequests
         THEN /\ logs' = With(logs, k, Append(live, now))
              /\ admitted' = [admitted EXCEPT ![k] = Append(@, clock)]
         ELSE /\ logs' = With(logs, k, live)
              /\ UNCHANGED admitted
      /\ UNCHANGED clock
  BY DEF CheckLocked, Admits
<1> HIDE DEF k, now, live
<1>5. /\ \A i \in 1..Len(live) : live[i] <= clock
      /\ Len(live) \in Nat
  BY <1>2, <1>3, LenProperties
<1>6. CASE Len(live) < MaxRequests
  <2> DEFINE log   == Append(live, now)
             times == Append(admitted[k], clock)
  <2>1. /\ log \in Seq(Nat)
        /\ Len(log) = Len(live) + 1
        /\ \A i \in 1..Len(live) : log[i] = live[i]
        /\ log[Len(live) + 1] = now
        /\ times \in Seq(Nat)
    BY <1>1, <1>2, <1>3, AppendProperties
  <2>2. KeyInv(log, times, clock)
    BY <1>1, <1>2, <1>3, KeyAdmitted
  <2>3. logs' = With(logs, k, log) /\ admitted' = [admitted EXCEPT ![k] = times]
    BY <1>4, <1>6
  <2> HIDE DEF log, times
  <2>4. /\ Len(log) \in 1..MaxRequests
        /\ \A i \in 1..Len(log) : log[i] <= clock
    BY <1>1, <1>5, <1>6, <2>1, ConstFacts
  <2>5. QED
    BY <1>1, <1>4, <2>1, <2>2, <2>3, <2>4, LogWritten
<1>7. CASE ~ (Len(live) < MaxRequests)
  <2>1. Len(live) \in 1..MaxRequests
    BY <1>2, <1>3, <1>5, <1>7, ConstFacts
  <2>2. admitted' = [admitted EXCEPT ![k] = admitted[k]]
    BY <1>4, <1>7 DEF Inv, LogsOK
  <2>3. logs' = With(logs, k, live)
    BY <1>4, <1>7
  <2>4. QED
    BY <1>1, <1>2, <1>3, <1>4, <1>5, <2>1, <2>2, <2>3, LogWritten
<1>8. QED
  BY <1>6, <1>7

\* The pass drops idle logs only, and keeps their history.
LEMMA RetainKeeps ==
    ASSUME Inv, NEW k \in Key, RetainShard(k)
    PROVE  LogsOK'
<1>1. UNCHANGED <<clock, admitted>>
  BY DEF RetainShard
<1>2. CASE ~ Doomed(k)
  <2>1. logs' = logs
    BY <1>2 DEF RetainShard
  <2>2. QED
    BY <1>1, <2>1, LogsStable DEF Inv
<1>3. CASE Doomed(k)
  <2>1. logs' = Without(logs, k)
    BY <1>3 DEF RetainShard
  <2>2. /\ k \in DOMAIN logs /\ Log(k) = logs[k]
        /\ logs[k] \in Seq(Nat) /\ Len(logs[k]) \in 1..MaxRequests
    BY <1>3, InvFacts DEF Doomed, Log
  <2>3. Since(cleaner.now, logs[k][Len(logs[k])]) >= IdleTTL
    <3>1. logs[k] # <<>>
      BY <2>2, ConstFacts
    <3>2. QED
      BY <1>3, <3>1 DEF Doomed, IsIdle, LastStamp
  <2>4. KeyInv(<<>>, admitted[k], clock)
    <3>1. KeyInv(logs[k], admitted[k], clock)
      BY <2>2 DEF Inv, LogsOK
    <3>2. /\ clock \in Nat /\ cleaner.now \in Nat /\ cleaner.now <= clock
          /\ admitted[k] \in Seq(Nat)
      BY InvFacts DEF Inv
    <3>3. Len(logs[k]) >= 1
      BY <2>2, ConstFacts
    <3>4. QED
      BY <2>2, <2>3, <3>1, <3>2, <3>3, KeyDropped
  <2>5. /\ admitted' = [admitted EXCEPT ![k] = admitted[k]]
        /\ admitted[k] \in Seq(Nat)
    BY <1>1 DEF Inv, LogsOK
  <2>6. QED
    BY <1>1, <2>1, <2>4, <2>5, LogRemoved
<1>4. QED
  BY <1>2, <1>3

\* A step that forgets a key: a reset, or the removal of a victim.
LEMMA ForgetKeeps ==
    ASSUME Inv, NEW k \in Key, UNCHANGED clock, logs' = Without(logs, k),
           admitted' = [admitted EXCEPT ![k] = <<>>]
    PROVE  LogsOK'
<1>1. <<>> \in Seq(Nat) /\ KeyInv(<<>>, <<>>, clock)
  BY InvFacts, KeyForgotten
<1>2. QED
  BY <1>1, LogRemoved

\* The steps keep the invariant.
LEMMA InvStep ==
    ASSUME Inv, [Next]_vars
    PROVE  Inv'
<1>0. PassTypeOK /\ clock \in Nat /\ cleaner.now <= clock /\ CallsOK /\ LogsOK
  BY InvFacts DEF Inv
<1>1. ASSUME UNCHANGED <<clock, call>> PROVE CallsOK'
  BY <1>0, <1>1 DEF CallsOK
<1>2. ASSUME UNCHANGED <<cleaner, inserted>> PROVE PassTypeOK'
  BY <1>0, <1>2 DEF PassTypeOK
<1>3. CASE Tick
  <2>1. clock' = clock + 1 /\ UNCHANGED <<cleaner, inserted, logs, call, admitted>>
    BY <1>3 DEF Tick
  <2>2. cleaner'.now <= clock'
    BY <1>0, <2>1, InvFacts
  <2>3. CallsOK'
    <3>1. \A t \in DOMAIN call : /\ call[t].now <= clock + 1
                                /\ clock + 1 <= call[t].now + MaxStall
      BY <1>0, <1>3, InvFacts, ConstFacts DEF Tick, CallsOK
    <3>2. QED
      BY <1>0, <2>1, <3>1 DEF CallsOK
  <2>4. LogsOK'
    <3>1. clock + 1 \in 0..MaxClock
      BY <1>0, <1>3, ConstFacts DEF Tick
    <3>2. \A k \in DOMAIN logs : \A i \in 1..Len(logs[k]) : logs[k][i] <= clock + 1
      <4> SUFFICES ASSUME NEW k \in DOMAIN logs, NEW i \in 1..Len(logs[k])
                   PROVE  logs[k][i] <= clock + 1
        OBVIOUS
      <4>1. logs[k][i] <= clock
        BY <1>0 DEF LogsOK
      <4>2. logs[k][i] \in Nat
        BY InvFacts, ElementOfSeq
      <4>3. QED
        BY <1>0, <4>1, <4>2
    <3>3. \A k \in Key : KeyInv(Log(k), admitted[k], clock + 1)
      BY <1>0, InvFacts, KeyTicks DEF LogsOK
    <3>4. \A k \in Key : Log(k)' = Log(k)
      BY <2>1 DEF Log
    <3>5. QED
      BY <1>0, <2>1, <3>1, <3>2, <3>3, <3>4 DEF LogsOK
  <2>5. QED
    BY <1>2, <2>1, <2>2, <2>3, <2>4 DEF Inv
<1>4. ASSUME NEW t \in Thread, NEW k \in Key, CheckBegin(t, k) PROVE Inv'
  <2>1. UNCHANGED <<cleaner, inserted, clock, logs, admitted>>
    BY <1>4 DEF CheckBegin
  <2>2. CallsOK'
    <3>1. [key |-> k, now |-> clock] \in Call
      BY <1>0 DEF Call
    <3>2. call' = With(call, t, [key |-> k, now |-> clock])
      BY <1>4 DEF CheckBegin
    <3>3. IsPartialMap(call', Thread, Call)
      BY <1>0, <3>1, <3>2, Put DEF CallsOK
    <3>4. \A x \in DOMAIN call' : /\ call'[x].now <= clock
                                 /\ clock <= call'[x].now + MaxStall
      BY <1>0, <3>2, ConstFacts DEF CallsOK, With
    <3>5. QED
      BY <2>1, <3>3, <3>4 DEF CallsOK
  <2>3. QED
    BY <1>0, <1>2, <2>1, <2>2, LogsStable DEF Inv
<1>5. ASSUME NEW t \in Thread, CheckLocked(t) PROVE Inv'
  <2>1. UNCHANGED <<cleaner, clock>> /\ call' = Without(call, t)
    BY <1>5 DEF CheckLocked
  <2>2. PassTypeOK'
    BY <1>0, <1>5, InsertedType DEF CheckLocked
  <2>3. CallsOK'
    <3>1. IsPartialMap(call', Thread, Call)
      BY <1>0, <2>1, Removed DEF CallsOK
    <3>2. QED
      BY <1>0, <2>1, <3>1 DEF CallsOK, Without
  <2>4. QED
    BY <1>0, <1>5, <2>1, <2>2, <2>3, CheckKeeps DEF Inv
<1>6. ASSUME NEW k \in Key, Reset(k) PROVE Inv'
  BY <1>0, <1>1, <1>2, <1>6, ForgetKeeps DEF Inv, Reset
<1>7. CASE BeginCleanup \/ BeginCap \/ DecideCap \/ SortStamps \/ EndCleanup
  <2>1. UNCHANGED <<clock, logs, call, admitted>>
    BY <1>7 DEF BeginCleanup, BeginCap, DecideCap, SortStamps, EndCleanup
  <2>2. \/ CleanupBegin(clock) \/ CapBegin \/ CapDecide \/ CapSort \/ CleanupEnd
    BY <1>7 DEF BeginCleanup, BeginCap, DecideCap, SortStamps, EndCleanup
  <2>3. PassTypeOK' /\ cleaner'.now <= clock
    BY <1>0, <2>2, PassStepType, PassTimely
  <2>4. QED
    BY <1>0, <1>1, <2>1, <2>3, LogsStable DEF Inv
<1>8. ASSUME NEW k \in Key, RetainShard(k) PROVE Inv'
  <2>1. PassTypeOK' /\ cleaner'.now <= clock
    BY <1>0, <1>8, ShardRetainedType, PassTimely DEF RetainShard
  <2>2. UNCHANGED <<clock, call>>
    BY <1>8 DEF RetainShard
  <2>3. QED
    BY <1>1, <1>8, <2>1, <2>2, RetainKeeps DEF Inv
<1>9. ASSUME NEW k \in Key, CountShard(k) PROVE Inv'
  <2>1. ShardCounted(k, k \in DOMAIN logs) /\ inserted' = inserted
    BY <1>9 DEF CountShard
  <2>2. PassTypeOK' /\ cleaner'.now <= clock
    <3>1. (k \in DOMAIN logs) \in BOOLEAN
      OBVIOUS
    <3>2. PassTypeOK'
      BY <1>0, <2>1, <3>1, ShardCountedType
    <3>3. \E present : ShardCounted(k, present)
      BY <2>1, <3>1
    <3>4. QED
      BY <1>0, <3>2, <3>3, PassTimely
  <2>3. QED
    BY <1>0, <1>1, <1>9, <2>2, LogsStable DEF CountShard, Inv
<1>10. ASSUME NEW k \in Key, ListShard(k) PROVE Inv'
  <2>1. PICK listed \in BOOLEAN, stamp \in Nat : ShardListed(k, listed, stamp)
    <3>1. CASE Log(k) # <<>>
      <4>1. /\ ShardListed(k, TRUE, LastStamp(k))
            /\ k \in DOMAIN logs
        BY <1>10, <3>1 DEF ListShard, Log
      <4>2. logs[k] \in Seq(Nat) /\ Len(logs[k]) \in 1..MaxRequests
        BY <4>1, InvFacts
      <4>3. LastStamp(k) \in Nat
        BY <4>2, ElementOfSeq, ConstFacts DEF LastStamp
      <4>4. QED
        BY <4>1, <4>3
    <3>2. CASE Log(k) = <<>>
      BY <1>10, <3>2 DEF ListShard
    <3>3. QED
      BY <3>1, <3>2
  <2>2. inserted' = inserted
    BY <1>10 DEF ListShard
  <2>3. PassTypeOK' /\ cleaner'.now <= clock
    BY <1>0, <2>1, <2>2, ShardListedType, PassTimely
  <2>4. QED
    BY <1>0, <1>1, <1>10, <2>3, LogsStable DEF ListShard, Inv
<1>11. ASSUME NEW k \in Key, RemoveVictim(k) PROVE Inv'
  <2>1. PassTypeOK' /\ cleaner'.now <= clock
    BY <1>0, <1>11, VictimTakenType, PassTimely DEF RemoveVictim
  <2>2. UNCHANGED <<clock, call>> /\ logs' = Without(logs, k)
    BY <1>11 DEF RemoveVictim
  <2>3. LogsOK'
    <3>1. CASE k \in DOMAIN logs
      BY <1>11, <2>2, <3>1, ForgetKeeps DEF RemoveVictim
    <3>2. CASE k \notin DOMAIN logs
      <4>1. Log(k) = <<>> /\ admitted' = admitted
        BY <1>11, <3>2 DEF RemoveVictim, Log
      <4>2. /\ admitted' = [admitted EXCEPT ![k] = admitted[k]]
            /\ admitted[k] \in Seq(Nat)
            /\ KeyInv(<<>>, admitted[k], clock)
        BY <1>0, <4>1 DEF LogsOK
      <4>3. QED
        BY <2>2, <4>2, LogRemoved
    <3>3. QED
      BY <3>1, <3>2
  <2>4. QED
    BY <1>1, <2>1, <2>2, <2>3 DEF Inv
<1>12. CASE UNCHANGED vars
  BY <1>0, <1>1, <1>2, <1>12, LogsStable DEF vars, Inv
<1>13. QED
  BY <1>3, <1>4, <1>5, <1>6, <1>7, <1>8, <1>9, <1>10, <1>11, <1>12
     DEF Next, Cleanup

\* The store starts with no logs and no history.
LEMMA InvInit == Init => Inv
<1> SUFFICES ASSUME Init PROVE Inv
  OBVIOUS
<1>1. PassTypeOK /\ cleaner.now <= clock
  BY PassInitType DEF Init, PassInit, Resting
<1>2. ASSUME NEW S, NEW T, NEW f, f \in [{} -> T] PROVE IsPartialMap(f, S, T)
  BY <1>2 DEF IsPartialMap
<1>3. CallsOK
  BY <1>2 DEF Init, CallsOK
<1>4. LogsOK
  <2>1. IsPartialMap(logs, Key, Seq(Nat)) /\ DOMAIN logs = {}
    BY <1>2 DEF Init
  <2>2. \A k \in Key : Log(k) = <<>> /\ admitted[k] = <<>>
    BY <2>1 DEF Init, Log
  <2>3. clock \in 0..MaxClock /\ clock \in Nat
    BY ConstFacts DEF Init
  <2>4. <<>> \in Seq(Nat) /\ KeyInv(<<>>, <<>>, clock)
    BY <2>3, KeyForgotten
  <2>5. admitted \in [Key -> Seq(Nat)]
    BY <2>4 DEF Init
  <2>6. QED
    BY <2>1, <2>2, <2>3, <2>4, <2>5 DEF LogsOK
<1>5. QED
  BY <1>1, <1>3, <1>4 DEF Inv

LEMMA InvCorrect == Spec => []Inv
<1>1. Init => Inv
  BY InvInit
<1>2. Inv /\ [Next]_vars => Inv'
  BY InvStep
<1>3. QED
  BY <1>1, <1>2, PTL DEF Spec

-----------------------------------------------------------------------------
\* Theorems.

\* Logs hold readings of the clock, between one and max_requests of them: no
\* interleaving of checks, resets and passes leaves an empty log in the map,
\* which retain would drop and the cap would not list (memory.rs:395, 209).
THEOREM TypeCorrect == Spec => []TypeOK
<1>1. Inv => TypeOK
  BY DEF Inv, CallsOK, LogsOK, TypeOK
<1>2. QED
  BY <1>1, InvCorrect, PTL

\* The recent admissions of a key are among those its log has stamps of.
LEMMA RecentInLog ==
    ASSUME NEW log \in Seq(Nat), NEW times \in Seq(Nat), NEW at \in Nat,
           KeyInv(log, times, at), IdleTTL > Window
    PROVE  /\ Within(times, Window - MaxStall, at) \in Nat
           /\ Within(times, Window - MaxStall, at) <= Len(log)
<1> DEFINE recent == {i \in DOMAIN times : at - times[i] <= Window - MaxStall}
           lost   == Len(times) - Len(log)
<1>1. /\ Len(log) \in Nat /\ Len(times) \in Nat
      /\ DOMAIN times = 1..Len(times)
      /\ \A i \in 1..Len(times) : times[i] \in Nat
  BY ElementOfSeq, LenProperties
<1>2. lost \in Nat
  BY <1>1 DEF KeyInv, Matched
<1>3. recent \subseteq (lost + 1)..Len(times)
  <2> SUFFICES ASSUME NEW i \in recent PROVE i \in (lost + 1)..Len(times)
    OBVIOUS
  <2>1. i \in 1..Len(times) /\ at - times[i] <= Window - MaxStall
    BY <1>1
  <2>2. i \notin 1..lost
    <3>1. i \in 1..lost => at - times[i] > Window - MaxStall
      BY DEF KeyInv, Expired
    <3>2. times[i] \in Nat
      BY <1>1, <2>1
    <3>3. QED
      BY <2>1, <3>1, <3>2, ConstFacts
  <2>3. QED
    BY <1>1, <1>2, <2>1, <2>2
<1>4. /\ IsFiniteSet((lost + 1)..Len(times))
      /\ Cardinality((lost + 1)..Len(times)) = Len(log)
  <2>1. lost + 1 \in Int /\ Len(times) \in Int
    BY <1>1, <1>2
  <2>2. /\ IsFiniteSet((lost + 1)..Len(times))
        /\ Cardinality((lost + 1)..Len(times))
             = IF lost + 1 > Len(times) THEN 0 ELSE Len(times) - (lost + 1) + 1
    BY <2>1, FS_Interval
  <2>3. QED
    BY <1>1, <1>2, <2>2
<1> HIDE DEF recent, lost
<1>5. Cardinality(recent) \in Nat /\ Cardinality(recent) <= Len(log)
  BY <1>3, <1>4, PartSmaller
<1>6. QED
  BY <1>5 DEF Within, recent

\* No stretch of time of the window's length, less the longest stall, sees
\* more than max_requests requests of a key admitted (lib.rs:59), if idle_ttl
\* is longer than the window, as memory.rs:23 takes it to be.
THEOREM WindowCorrect == Spec => []WindowBound
<1>1. Inv => WindowBound
  <2> SUFFICES ASSUME Inv, IdleTTL > Window, NEW k \in Key
               PROVE  Within(admitted[k], Window - MaxStall, clock) <= MaxRequests
    BY DEF WindowBound
  <2>1. /\ Log(k) \in Seq(Nat) /\ admitted[k] \in Seq(Nat) /\ clock \in Nat
        /\ Len(Log(k)) \in 0..MaxRequests
    BY InvFacts
  <2>2. KeyInv(Log(k), admitted[k], clock)
    BY DEF Inv, LogsOK
  <2>3. /\ Within(admitted[k], Window - MaxStall, clock) \in Nat
        /\ Within(admitted[k], Window - MaxStall, clock) <= Len(Log(k))
    BY <2>1, <2>2, RecentInLog
  <2>4. QED
    BY <2>1, <2>3, ConstFacts
<1>2. QED
  BY <1>1, InvCorrect, PTL

\* What a pruned log holds has been admitted recently, although its stamps
\* need not be in order: its first stamp is in the window, and every
\* admission since is no earlier than that one's.
LEMMA LiveIsRecent ==
    ASSUME NEW log \in Seq(Nat), NEW times \in Seq(Nat), NEW at \in Nat,
           KeyInv(log, times, at),
           NEW now \in Nat, now <= at, at <= now + MaxStall
    PROVE  /\ Within(times, Window + MaxStall, at) \in Nat
           /\ Len(Pruned(log, now - Window))
                  <= Within(times, Window + MaxStall, at)
<1> DEFINE recent == {i \in DOMAIN times : at - times[i] <= Window + MaxStall}
           lost   == Len(times) - Len(log)
           live   == Pruned(log, now - Window)
<1>1. /\ Len(log) \in Nat /\ Len(times) \in Nat
      /\ DOMAIN times = 1..Len(times)
      /\ \A i \in 1..Len(times) : times[i] \in Nat
      /\ \A i \in 1..Len(log) : log[i] \in Nat
  BY ElementOfSeq, LenProperties
<1>2. now - Window \in Int
  BY ConstFacts
<1>3. PICK gone \in 0..Len(log) :
          /\ Len(live) = Len(log) - gone
          /\ gone < Len(log) => log[gone + 1] >= now - Window
  BY <1>2, PrunedIs
<1>4. /\ lost \in Nat
      /\ \A i \in 1..Len(log) : log[i] <= times[lost + i]
      /\ \A i, j \in 1..Len(times) : i <= j => times[i] <= times[j]
  BY <1>1 DEF KeyInv, Matched, Ordered
<1>5. (lost + gone + 1)..Len(times) \subseteq recent
  <2> SUFFICES ASSUME NEW i \in (lost + gone + 1)..Len(times)
               PROVE  i \in recent
    OBVIOUS
  <2>1. /\ i \in 1..Len(times)
        /\ gone + 1 \in 1..Len(log) /\ gone < Len(log)
        /\ lost + (gone + 1) \in 1..Len(times) /\ lost + (gone + 1) <= i
    <3>1. Len(times) = lost + Len(log)
      BY <1>1
    <3>2. i \in Int /\ lost + gone + 1 <= i /\ i <= Len(times)
      BY <1>1, <1>4
    <3> HIDE DEF lost, recent, live
    <3>3. QED
      BY <1>1, <1>4, <3>1, <3>2
  <2>2. /\ log[gone + 1] >= now - Window
        /\ log[gone + 1] <= times[lost + (gone + 1)]
        /\ times[lost + (gone + 1)] <= times[i]
    BY <1>3, <1>4, <2>1
  <2>3. PICK a \in Nat, b \in Nat, c \in Nat :
            a = log[gone + 1] /\ b = times[lost + (gone + 1)] /\ c = times[i]
    BY <1>1, <2>1
  <2>4. a >= now - Window /\ a <= b /\ b <= c
    BY <2>2, <2>3
  <2>5. at - c <= Window + MaxStall
    BY <2>4, ConstFacts
  <2>6. QED
    BY <1>1, <2>1, <2>3, <2>5
<1>6. Cardinality((lost + gone + 1)..Len(times)) = Len(live)
  <2>1. lost + gone + 1 \in Int /\ Len(times) \in Int
    BY <1>1, <1>3, <1>4
  <2>2. Cardinality((lost + gone + 1)..Len(times))
            = IF lost + gone + 1 > Len(times)
              THEN 0 ELSE Len(times) - (lost + gone + 1) + 1
    BY <2>1, FS_Interval
  <2>3. QED
    BY <1>1, <1>3, <1>4, <2>2
<1>7. IsFiniteSet(recent)
  <2>1. IsFiniteSet(1..Len(times)) /\ recent \subseteq 1..Len(times)
    BY <1>1, FS_Interval
  <2> HIDE DEF recent
  <2>2. QED
    BY <2>1, FS_Subset
<1> HIDE DEF recent, lost, live
<1>8. Cardinality(recent) \in Nat /\ Len(live) <= Cardinality(recent)
  BY <1>5, <1>6, <1>7, PartSmaller
<1>9. QED
  BY <1>8 DEF Within, recent, live

\* No request is denied for nothing: max_requests requests of the key have
\* been admitted within the window and the longest stall.
THEOREM DenialCorrect == Spec => DenialJustified
<1> DEFINE Justified ==
        \A t \in DOMAIN call :
            CheckLocked(t) /\ UNCHANGED admitted =>
                Within(admitted[call[t].key], Window + MaxStall, clock)
                    >= MaxRequests
<1>1. Inv /\ [Next]_vars => [Justified]_vars
  <2> SUFFICES ASSUME Inv, NEW t \in DOMAIN call, CheckLocked(t),
                      UNCHANGED admitted
               PROVE  Within(admitted[call[t].key], Window + MaxStall, clock)
                          >= MaxRequests
    OBVIOUS
  <2>1. PICK k, now : k = call[t].key /\ now = call[t].now
    OBVIOUS
  <2>2. /\ k \in Key /\ now \in Nat
        /\ now <= clock /\ clock <= now + MaxStall
        /\ clock \in Nat
    BY <2>1, InvFacts DEF Inv, CallsOK
  <2>3. /\ Log(k) \in Seq(Nat) /\ Len(Log(k)) \in 0..MaxRequests
        /\ admitted[k] \in Seq(Nat)
        /\ KeyInv(Log(k), admitted[k], clock)
    BY <2>2, InvFacts DEF Inv, LogsOK
  <2>4. ~ Admits(k, now)
    <3> SUFFICES ASSUME Admits(k, now) PROVE FALSE
      OBVIOUS
    <3>1. admitted' = [admitted EXCEPT ![k] = Append(@, clock)]
      BY <2>1 DEF CheckLocked
    <3>2. admitted[k] = Append(admitted[k], clock)
      BY <2>2, <3>1 DEF Inv, LogsOK
    <3>3. Len(Append(admitted[k], clock)) = Len(admitted[k]) + 1
      BY <2>2, <2>3, AppendProperties
    <3>4. Len(admitted[k]) \in Nat
      BY <2>3, LenProperties
    <3>5. QED
      BY <3>2, <3>3, <3>4
  <2>5. /\ LiveLog(k, now) \in Seq(Nat)
        /\ Len(LiveLog(k, now)) <= Within(admitted[k], Window + MaxStall, clock)
        /\ Within(admitted[k], Window + MaxStall, clock) \in Nat
    BY <2>2, <2>3, KeyPruned, LiveIsRecent DEF LiveLog
  <2>6. Len(LiveLog(k, now)) \in Nat /\ Len(LiveLog(k, now)) >= MaxRequests
    BY <2>4, <2>5, ConstFacts, LenProperties DEF Admits
  <2>7. QED
    BY <2>1, <2>5, <2>6, ConstFacts
<1>2. QED
  BY <1>1, InvCorrect, PTL DEF Spec, DenialJustified

\* remaining hides no request a known key could make now: it counts stamps
\* in the window, the check all stamps behind the first of them.
THEOREM RemainingCorrect == Spec => []RemainingShows
<1>1. Inv => RemainingShows
  <2> SUFFICES ASSUME Inv, NEW k \in DOMAIN logs, Admits(k, clock)
               PROVE  Remaining(k) > 0
    BY DEF RemainingShows
  <2> DEFINE log  == Log(k)
             live == {i \in 1..Len(log) : Since(clock, log[i]) < Window}
  <2>1. /\ clock \in Nat /\ log \in Seq(Nat)
        /\ \A i \in 1..Len(log) : log[i] <= clock
    BY InvFacts
  <2>2. /\ Len(log) \in Nat /\ clock - Window \in Int
        /\ \A i \in 1..Len(log) : log[i] \in Nat
    BY <2>1, ConstFacts, ElementOfSeq, LenProperties
  <2>3. PICK gone \in 0..Len(log) :
            /\ Len(Pruned(log, clock - Window)) = Len(log) - gone
            /\ \A i \in 1..gone : log[i] < clock - Window
    BY <2>1, <2>2, PrunedIs
  <2>4. Len(log) - gone < MaxRequests
    BY <2>3 DEF Admits, LiveLog
  <2>5. live \subseteq (gone + 1)..Len(log)
    <3> SUFFICES ASSUME NEW i \in live PROVE i \in (gone + 1)..Len(log)
      OBVIOUS
    <3>1. i \in 1..Len(log) /\ Since(clock, log[i]) < Window
      OBVIOUS
    <3>2. i \in 1..gone => log[i] < clock - Window
      BY <2>3
    <3>3. log[i] \in Nat /\ log[i] <= clock
      BY <2>1, <2>2, <3>1
    <3>4. PICK m \in Nat : m = log[i]
      BY <3>3
    <3> HIDE DEF log, live
    <3>5. i \notin 1..gone
      BY <2>1, <3>1, <3>2, <3>3, <3>4, ConstFacts DEF Since
    <3>6. QED
      BY <2>2, <3>1, <3>5
  <2>6. /\ IsFiniteSet((gone + 1)..Len(log))
        /\ Cardinality((gone + 1)..Len(log)) = Len(log) - gone
    <3>1. /\ IsFiniteSet((gone + 1)..Len(log))
          /\ Cardinality((gone + 1)..Len(log))
               = IF gone + 1 > Len(log) THEN 0 ELSE Len(log) - (gone + 1) + 1
      <4>1. gone + 1 \in Int /\ Len(log) \in Int
        BY <2>2
      <4> HIDE DEF log
      <4>2. QED
        BY <4>1, FS_Interval
    <3> HIDE DEF log
    <3>2. QED
      BY <2>2, <3>1
  <2> HIDE DEF live
  <2>7. Cardinality(live) \in Nat /\ Cardinality(live) <= Len(log) - gone
    BY <2>5, <2>6, PartSmaller
  <2>8. Since(MaxRequests, Cardinality(live)) > 0
    BY <2>2, <2>4, <2>7, ConstFacts DEF Since
  <2>9. QED
    BY <2>8 DEF Remaining, live
<1>2. QED
  BY <1>1, InvCorrect, PTL

-----------------------------------------------------------------------------
\* The cap.

\* What the pass has counted bounds the logs, at every step.
MapCounted == CapInv(cleaner, inserted, DOMAIN logs)

LEMMA MapCountedStep ==
    ASSUME Inv, MapCounted, [Next]_vars
    PROVE  MapCounted'
<1>0. PassTypeOK /\ clock \in Nat
  BY InvFacts DEF Inv
<1>1. ASSUME UNCHANGED <<cleaner, inserted, logs>> PROVE MapCounted'
  BY <1>1 DEF MapCounted
<1>2. ASSUME NEW k, logs' = Without(logs, k)
      PROVE  /\ DOMAIN logs' = DOMAIN logs \ {k}
             /\ CapInv(cleaner, inserted, DOMAIN logs')
  <2>1. DOMAIN logs' = DOMAIN logs \ {k}
    BY <1>2 DEF Without
  <2>2. CapInv(cleaner, inserted, DOMAIN logs \ {k})
    BY <1>0, CapRemoved DEF MapCounted
  <2>3. QED
    BY <2>1, <2>2
<1>3. CASE Tick
  BY <1>1, <1>3 DEF Tick
<1>4. ASSUME NEW t \in Thread, NEW k \in Key, CheckBegin(t, k)
      PROVE  MapCounted'
  BY <1>1, <1>4 DEF CheckBegin
<1>5. ASSUME NEW t \in Thread, CheckLocked(t) PROVE MapCounted'
  <2>1. PICK k : k = call[t].key
    OBVIOUS
  <2>2. k \in Key
    BY <1>5, <2>1, InvFacts DEF CheckLocked
  <2>3. DOMAIN logs' = DOMAIN logs \cup {k}
    BY <1>5, <2>1 DEF CheckLocked, With
  <2>4. Inserted(k \notin DOMAIN logs) /\ UNCHANGED cleaner
    BY <1>5, <2>1 DEF CheckLocked
  <2>5. CapInv(cleaner', inserted', DOMAIN logs \cup {k})
    BY <1>0, <2>2, <2>4, CapInserted DEF MapCounted
  <2>6. QED
    BY <2>3, <2>5 DEF MapCounted
<1>6. ASSUME NEW k \in Key, Reset(k) PROVE MapCounted'
  <2>1. CapInv(cleaner, inserted, DOMAIN logs')
    BY <1>2, <1>6 DEF Reset
  <2>2. QED
    BY <1>6, <2>1 DEF Reset, MapCounted
<1>7. CASE BeginCleanup \/ BeginCap \/ DecideCap \/ SortStamps \/ EndCleanup
  <2>1. /\ logs' = logs
        /\ \/ CleanupBegin(clock) \/ CapBegin \/ CapDecide
           \/ CapSort \/ CleanupEnd
    BY <1>7 DEF BeginCleanup, BeginCap, DecideCap, SortStamps, EndCleanup
  <2>2. CapInv(cleaner', inserted', DOMAIN logs)
    BY <1>0, <2>1, CapStep DEF MapCounted
  <2>3. QED
    BY <2>1, <2>2 DEF MapCounted
<1>8. ASSUME NEW k \in Key, RetainShard(k) PROVE MapCounted'
  <2>1. CapInv(cleaner, inserted, DOMAIN logs')
    BY <1>2, <1>8 DEF RetainShard, MapCounted
  <2>2. CapInv(cleaner', inserted, DOMAIN logs')
    BY <1>0, <1>8, <2>1, CapRetained DEF RetainShard
  <2>3. QED
    BY <1>8, <2>2 DEF RetainShard, MapCounted
<1>9. ASSUME NEW k \in Key, CountShard(k) PROVE MapCounted'
  BY <1>0, <1>9, CapCounted DEF CountShard, MapCounted
<1>10. ASSUME NEW k \in Key, ListShard(k) PROVE MapCounted'
  <2>1. \E stamp : ShardListed(k, k \in DOMAIN logs, stamp)
    <3>1. CASE k \in DOMAIN logs
      <4>1. Log(k) # <<>>
        BY <3>1, InvFacts, ConstFacts DEF Log
      <4>2. ShardListed(k, TRUE, LastStamp(k)) /\ (k \in DOMAIN logs) = TRUE
        BY <1>10, <3>1, <4>1 DEF ListShard
      <4>3. QED
        BY <4>2
    <3>2. CASE k \notin DOMAIN logs
      <4>1. Log(k) = <<>>
        BY <3>2 DEF Log
      <4>2. ShardListed(k, FALSE, 0)
        BY <1>10, <4>1 DEF ListShard
      <4>3. (k \in DOMAIN logs) = FALSE
        BY <3>2
      <4>4. QED
        BY <4>2, <4>3
    <3>3. QED
      BY <3>1, <3>2
  <2>2. CapInv(cleaner', inserted, DOMAIN logs)
    BY <1>0, <2>1, CapListed DEF MapCounted
  <2>3. QED
    BY <1>10, <2>2 DEF ListShard, MapCounted
<1>11. ASSUME NEW k \in Key, RemoveVictim(k) PROVE MapCounted'
  <2>1. CapInv(cleaner', inserted, DOMAIN logs \ {k})
    BY <1>0, <1>11, CapVictim DEF RemoveVictim, MapCounted
  <2>2. DOMAIN logs' = DOMAIN logs \ {k} /\ inserted' = inserted
    BY <1>11 DEF RemoveVictim, Without
  <2>3. QED
    BY <2>1, <2>2 DEF MapCounted
<1>12. CASE UNCHANGED vars
  BY <1>1, <1>12 DEF vars
<1>13. QED
  BY <1>3, <1>4, <1>5, <1>6, <1>7, <1>8, <1>9, <1>10, <1>11, <1>12
     DEF Next, Cleanup

\* Outside its cap the map holds no more than max_keys logs and those
\* inserted since the cap of the last pass began (memory.rs:402): although
\* the cap skips empty logs, it skips none.
THEOREM CapCorrect == Spec => []CapRestored
<1>1. Init => MapCounted
  <2>1. Init => DOMAIN logs = {}
    BY DEF Init
  <2>2. QED
    BY <2>1, CapInit DEF Init, MapCounted
<1>2. Inv /\ MapCounted /\ [Next]_vars => MapCounted'
  BY MapCountedStep
<1>3. MapCounted => CapRestored
  BY CapInvSuffices DEF MapCounted, CapRestored
<1>4. QED
  BY <1>1, <1>2, <1>3, InvCorrect, PTL DEF Spec
=============================================================================
