---------------------- MODULE MemoryFixedWindow_proofs ----------------------
(***************************************************************************)
(* Proofs about MemoryFixedWindow, for every value of its constants.       *)
(***************************************************************************)
EXTENDS MemoryFixedWindow, CleanupPass_proofs, SequenceTheorems

LEMMA ConstFacts ==
    /\ MaxRequests \in Nat /\ 1 <= MaxRequests
    /\ Window \in Nat /\ 1 <= Window
    /\ WallOffset \in Nat
    /\ MaxClock \in Nat
    /\ MaxStall \in Nat
    /\ IdleTTL \in Nat
BY FixedAssumption, CleanupAssumption

-----------------------------------------------------------------------------
\* The history of a key and the window the store keeps of it.

\* Admissions are in order, and none is later than the clock.
Ordered(times, at) ==
    /\ \A i, j \in 1..Len(times) : i <= j => times[i] <= times[j]
    /\ \A i \in 1..Len(times) : times[i] <= at

\* The window counts the latest admissions, all of them since it started; the
\* others came before the check that started it got its lock, which was no
\* more than a stall after its reading.
Counts(entry, times) ==
    LET before == Len(times) - entry.count
    IN  /\ before >= 0
        /\ \A i \in 1..before : times[i] <= entry.window_start + MaxStall
        /\ \A i \in (before + 1)..Len(times) : times[i] >= entry.window_start

\* With `count` admissions in the current window and max_requests in the one
\* before it, the others are as old as a window, less a stall.
Expired(count, times, at) ==
    IdleTTL >= Window =>
        \A i \in 1..(Len(times) - count - MaxRequests) :
            at - times[i] >= Window - MaxStall

HeldInv(entry, times, at) ==
    /\ Ordered(times, at)
    /\ entry.window_start <= at
    /\ Counts(entry, times)
    /\ Expired(entry.count, times, at)

GoneInv(times, at) ==
    /\ Ordered(times, at)
    /\ Expired(0, times, at)

LEMMA EntryParts ==
    ASSUME NEW entry \in FixedWindow
    PROVE  /\ entry.count \in Nat /\ entry.count <= MaxRequests
           /\ entry.window_start \in Nat
BY ConstFacts DEF FixedWindow

LEMMA TimesParts ==
    ASSUME NEW times \in Seq(Nat)
    PROVE  /\ Len(times) \in Nat
           /\ DOMAIN times = 1..Len(times)
           /\ \A i \in 1..Len(times) : times[i] \in Nat
BY ElementOfSeq, LenProperties

\* Time passes.
LEMMA OrderedTicks ==
    ASSUME NEW times \in Seq(Nat), NEW at \in Nat, Ordered(times, at)
    PROVE  Ordered(times, at + 1)
BY TimesParts DEF Ordered

LEMMA ExpiredTicks ==
    ASSUME NEW times \in Seq(Nat), NEW at \in Nat, NEW count \in Nat,
           Expired(count, times, at)
    PROVE  Expired(count, times, at + 1)
<1> SUFFICES ASSUME IdleTTL >= Window,
                    NEW i \in 1..(Len(times) - count - MaxRequests)
             PROVE  (at + 1) - times[i] >= Window - MaxStall
  BY DEF Expired
<1>1. i \in 1..Len(times) /\ times[i] \in Nat
  BY TimesParts, ConstFacts
<1>2. at - times[i] >= Window - MaxStall
  BY DEF Expired
<1>3. QED
  BY <1>1, <1>2, ConstFacts

\* A request is admitted.
LEMMA Added ==
    ASSUME NEW times \in Seq(Nat), NEW at \in Nat
    PROVE  /\ Append(times, at) \in Seq(Nat)
           /\ Len(Append(times, at)) = Len(times) + 1
           /\ \A i \in 1..Len(times) : Append(times, at)[i] = times[i]
           /\ Append(times, at)[Len(times) + 1] = at
BY AppendProperties

LEMMA OrderedAdded ==
    ASSUME NEW times \in Seq(Nat), NEW at \in Nat, Ordered(times, at)
    PROVE  Ordered(Append(times, at), at)
<1> DEFINE times2 == Append(times, at)
<1>1. /\ Len(times) \in Nat
      /\ Len(times2) = Len(times) + 1
      /\ \A i \in 1..Len(times) : times2[i] = times[i]
      /\ times2[Len(times) + 1] = at
  BY Added, TimesParts
<1> HIDE DEF times2
<1>2. \A i \in 1..Len(times2) :
          \/ i \in 1..Len(times) /\ times2[i] = times[i] /\ times[i] <= at
          \/ i = Len(times) + 1 /\ times2[i] = at
  BY <1>1 DEF Ordered
<1>3. \A i \in 1..Len(times2) : times2[i] <= at
  BY <1>2
<1>4. ASSUME NEW i \in 1..Len(times2), NEW j \in 1..Len(times2), i <= j
      PROVE  times2[i] <= times2[j]
  <2>1. CASE j \in 1..Len(times)
    <3>1. i \in 1..Len(times)
      BY <1>1, <1>4, <2>1
    <3>2. QED
      BY <1>1, <1>4, <2>1, <3>1 DEF Ordered
  <2>2. CASE j = Len(times) + 1
    BY <1>1, <1>3, <2>2
  <2>3. QED
    BY <1>2, <2>1, <2>2
<1>5. QED
  BY <1>3, <1>4 DEF Ordered, times2

\* A window that admits a request counts it.
LEMMA HeldAdmits ==
    ASSUME NEW entry \in FixedWindow, NEW times \in Seq(Nat), NEW at \in Nat,
           HeldInv(entry, times, at)
    PROVE  HeldInv([entry EXCEPT !.count = @ + 1], Append(times, at), at)
<1> DEFINE times2 == Append(times, at)
           entry2 == [entry EXCEPT !.count = @ + 1]
           before == Len(times) - entry.count
<1>1. /\ entry.count \in Nat /\ entry.window_start \in Nat
      /\ entry2.count = entry.count + 1
      /\ entry2.window_start = entry.window_start
  BY EntryParts DEF FixedWindow
<1>2. /\ Len(times) \in Nat
      /\ \A i \in 1..Len(times) : times[i] \in Nat
      /\ Len(times2) = Len(times) + 1
      /\ \A i \in 1..Len(times) : times2[i] = times[i]
      /\ times2[Len(times) + 1] = at
  BY Added, TimesParts
<1>3. /\ before >= 0 /\ before \in Nat
      /\ \A i \in 1..before : times[i] <= entry.window_start + MaxStall
      /\ \A i \in (before + 1)..Len(times) : times[i] >= entry.window_start
      /\ entry.window_start <= at
      /\ Ordered(times, at)
  BY <1>1, <1>2 DEF HeldInv, Counts
<1>4. Ordered(times2, at)
  BY <1>3, OrderedAdded
<1> HIDE DEF times2, entry2
<1>5. Len(times2) - entry2.count = before
  <2>1. PICK n \in Nat, c \in Nat : n = Len(times) /\ c = entry.count
    BY <1>1, <1>2
  <2>2. Len(times2) = n + 1 /\ entry2.count = c + 1 /\ before = n - c
    BY <1>1, <1>2, <2>1
  <2>3. QED
    BY <2>2
<1>6. Counts(entry2, times2)
  <2>1. \A i \in 1..before : times2[i] <= entry2.window_start + MaxStall
    BY <1>1, <1>2, <1>3
  <2>2. ASSUME NEW i \in (before + 1)..Len(times2)
        PROVE  times2[i] >= entry2.window_start
    <3>1. i \in (before + 1)..Len(times) \/ i = Len(times) + 1
      BY <1>1, <1>2, <1>3
    <3>2. i \in (before + 1)..Len(times) => i \in 1..Len(times)
      BY <1>2, <1>3
    <3>3. QED
      BY <1>1, <1>2, <1>3, <3>1, <3>2
  <2>3. QED
    BY <1>3, <1>5, <2>1, <2>2 DEF Counts
<1>7. Expired(entry2.count, times2, at)
  <2> SUFFICES ASSUME IdleTTL >= Window, NEW i \in 1..(before - MaxRequests)
               PROVE  at - times2[i] >= Window - MaxStall
    BY <1>5 DEF Expired
  <2>1. at - times[i] >= Window - MaxStall
    BY DEF HeldInv, Expired
  <2>2. i \in 1..Len(times)
    BY <1>1, <1>2, <1>3, ConstFacts
  <2>3. QED
    BY <1>2, <2>1, <2>2
<1>8. QED
  BY <1>1, <1>3, <1>4, <1>6, <1>7 DEF HeldInv, times2, entry2

\* A check that finds no window starts one.
LEMMA HeldStarts ==
    ASSUME NEW times \in Seq(Nat), NEW at \in Nat, GoneInv(times, at),
           NEW now \in Nat, now <= at, at <= now + MaxStall
    PROVE  HeldInv([count |-> 0, window_start |-> now], times, at)
<1>1. /\ Len(times) \in Nat
      /\ \A i \in 1..Len(times) : times[i] \in Nat /\ times[i] <= at
  BY TimesParts DEF GoneInv, Ordered
<1>2. \A i \in 1..(Len(times) - 0) : times[i] <= now + MaxStall
  BY <1>1, ConstFacts
<1>3. (Len(times) - 0) + 1 > Len(times)
  BY <1>1
<1>4. Counts([count |-> 0, window_start |-> now], times)
  BY <1>1, <1>2, <1>3 DEF Counts
<1>5. QED
  BY <1>4 DEF GoneInv, HeldInv

\* The admissions that came before a window are as old as it is, less a stall.
LEMMA OldWindow ==
    ASSUME NEW entry \in FixedWindow, NEW times \in Seq(Nat), NEW at \in Nat,
           HeldInv(entry, times, at),
           NEW now \in Nat, now <= at, now - entry.window_start >= Window
    PROVE  Expired(0, times, at)
<1> SUFFICES ASSUME NEW i \in 1..(Len(times) - 0 - MaxRequests)
             PROVE  at - times[i] >= Window - MaxStall
  BY DEF Expired
<1>1. /\ entry.count \in Nat /\ entry.count <= MaxRequests
      /\ entry.window_start \in Nat
  BY EntryParts
<1>2. i \in 1..(Len(times) - entry.count) /\ i \in 1..Len(times)
  BY <1>1, TimesParts, ConstFacts
<1>3. times[i] \in Nat /\ times[i] <= entry.window_start + MaxStall
  BY <1>2, TimesParts DEF HeldInv, Counts
<1>4. PICK m \in Nat, start \in Nat : m = times[i] /\ start = entry.window_start
  BY <1>1, <1>3
<1>5. m <= start + MaxStall /\ now - start >= Window
  BY <1>3, <1>4
<1>6. at - m >= Window - MaxStall
  BY <1>5, ConstFacts
<1>7. QED
  BY <1>4, <1>6

\* What retain drops is idle.
LEMMA HeldDropped ==
    ASSUME NEW entry \in FixedWindow, NEW times \in Seq(Nat), NEW at \in Nat,
           HeldInv(entry, times, at),
           NEW now \in Nat, now <= at, Since(now, entry.window_start) >= IdleTTL
    PROVE  GoneInv(times, at)
<1>1. entry.window_start \in Nat
  BY EntryParts
<1>2. CASE IdleTTL >= Window
  <2>1. now - entry.window_start >= Window
    BY <1>1, <1>2, ConstFacts DEF Since
  <2>2. QED
    BY <2>1, OldWindow DEF HeldInv, GoneInv
<1>3. CASE ~ (IdleTTL >= Window)
  BY <1>3 DEF Expired, HeldInv, GoneInv
<1>4. QED
  BY <1>2, <1>3

\* A window that is over rolls, and one that is not stays.
LEMMA HeldRolls ==
    ASSUME NEW entry \in FixedWindow, NEW times \in Seq(Nat), NEW at \in Nat,
           HeldInv(entry, times, at),
           NEW now \in Nat, now <= at, at <= now + MaxStall
    PROVE  HeldInv(Rolled(entry, now), times, at)
<1>1. entry.window_start \in Nat
  BY EntryParts
<1>2. CASE Since(now, entry.window_start) >= Window
  <2>1. now - entry.window_start >= Window
    BY <1>1, <1>2, ConstFacts DEF Since
  <2>2. GoneInv(times, at)
    BY <2>1, OldWindow DEF HeldInv, GoneInv
  <2>3. QED
    BY <1>2, <2>2, HeldStarts DEF Rolled
<1>3. CASE ~ (Since(now, entry.window_start) >= Window)
  BY <1>3 DEF Rolled
<1>4. QED
  BY <1>2, <1>3

\* A key starts, and is forgotten, without a window and without a history.
LEMMA GoneForgotten ==
    ASSUME NEW at \in Nat
    PROVE  GoneInv(<<>>, at)
BY ConstFacts DEF GoneInv, Ordered, Expired

-----------------------------------------------------------------------------
\* The invariant.

\* A waiting check has read the clock, and is late by a stall at most.
CallsOK ==
    /\ IsPartialMap(call, Thread, Call)
    /\ \A t \in DOMAIN call : /\ call[t].now <= clock
                              /\ clock <= call[t].now + MaxStall

KeyInv(k) ==
    IF k \in DOMAIN windows THEN HeldInv(windows[k], admitted[k], clock)
                            ELSE GoneInv(admitted[k], clock)

WindowsOK ==
    /\ clock \in 0..MaxClock
    /\ IsPartialMap(windows, Key, FixedWindow)
    /\ admitted \in [Key -> Seq(Nat)]
    /\ \A k \in Key : KeyInv(k)

Inv ==
    /\ PassTypeOK
    /\ cleaner.now <= clock
    /\ CallsOK
    /\ retryAt \in [Key -> Nat]
    /\ WindowsOK

\* What Inv says of a key and of a waiting check.
LEMMA InvFacts ==
    ASSUME Inv
    PROVE  /\ clock \in Nat
           /\ cleaner.now \in Nat
           /\ \A k \in DOMAIN windows : k \in Key /\ windows[k] \in FixedWindow
           /\ \A k \in Key : admitted[k] \in Seq(Nat)
           /\ \A t \in DOMAIN call : call[t].key \in Key /\ call[t].now \in Nat
<1>1. clock \in Nat /\ cleaner.now \in Nat
  BY DEF Inv, WindowsOK, PassTypeOK, IsPass
<1>2. \A k \in DOMAIN windows : k \in Key /\ windows[k] \in FixedWindow
  BY PartialMapFacts DEF Inv, WindowsOK
<1>3. \A k \in Key : admitted[k] \in Seq(Nat)
  BY DEF Inv, WindowsOK
<1>4. \A t \in DOMAIN call : call[t].key \in Key /\ call[t].now \in Nat
  <2>1. \A t \in DOMAIN call : call[t] \in Call
    BY PartialMapFacts DEF Inv, CallsOK
  <2>2. QED
    BY <2>1 DEF Call
<1>5. QED
  BY <1>1, <1>2, <1>3, <1>4

\* A step that leaves the clock, the windows and the history alone.
LEMMA WindowsStable ==
    ASSUME WindowsOK, UNCHANGED <<clock, windows, admitted>>
    PROVE  WindowsOK'
BY DEF WindowsOK, KeyInv

\* A step that writes one key's window, and its history.
LEMMA WindowWritten ==
    ASSUME Inv, UNCHANGED clock, NEW k \in Key, NEW entry \in FixedWindow,
           windows' = With(windows, k, entry),
           NEW times \in Seq(Nat), admitted' = [admitted EXCEPT ![k] = times],
           HeldInv(entry, times, clock)
    PROVE  WindowsOK'
<1>1. IsPartialMap(windows', Key, FixedWindow)
  BY Put DEF Inv, WindowsOK
<1>2. /\ DOMAIN windows' = DOMAIN windows \cup {k}
      /\ windows'[k] = entry
      /\ \A x \in DOMAIN windows \ {k} : windows'[x] = windows[x]
  BY DEF With
<1>3. /\ admitted' \in [Key -> Seq(Nat)]
      /\ admitted'[k] = times
      /\ \A x \in Key \ {k} : admitted'[x] = admitted[x]
  BY DEF Inv, WindowsOK
<1>4. \A x \in Key : KeyInv(x)'
  BY <1>2, <1>3 DEF Inv, WindowsOK, KeyInv
<1>5. QED
  BY <1>1, <1>3, <1>4 DEF Inv, WindowsOK

\* A step that removes one key's window, if it has one.
LEMMA WindowRemoved ==
    ASSUME Inv, UNCHANGED clock, NEW k \in Key, windows' = Without(windows, k),
           NEW times \in Seq(Nat), admitted' = [admitted EXCEPT ![k] = times],
           GoneInv(times, clock)
    PROVE  WindowsOK'
<1>1. IsPartialMap(windows', Key, FixedWindow)
  BY Removed DEF Inv, WindowsOK
<1>2. /\ DOMAIN windows' = DOMAIN windows \ {k}
      /\ \A x \in DOMAIN windows \ {k} : windows'[x] = windows[x]
  BY DEF Without
<1>3. /\ admitted' \in [Key -> Seq(Nat)]
      /\ admitted'[k] = times
      /\ \A x \in Key \ {k} : admitted'[x] = admitted[x]
  BY DEF Inv, WindowsOK
<1>4. \A x \in Key : KeyInv(x)'
  BY <1>2, <1>3 DEF Inv, WindowsOK, KeyInv
<1>5. QED
  BY <1>1, <1>3, <1>4 DEF Inv, WindowsOK

\* The time a denied client is told to come back is a time.
LEMMA RetryAfterType ==
    ASSUME NEW at \in Nat
    PROVE  at + RetryAfter(at) \in Nat
<1> DEFINE now == at + WallOffset
<1>1. /\ Window \in Nat /\ 1 <= Window /\ now \in Nat
  BY ConstFacts
<1>2. /\ now \div Window \in Nat
      /\ now = Window * (now \div Window) + (now % Window)
      /\ 0 <= now % Window /\ now % Window < Window
  <2> HIDE DEF now
  <2>1. QED
    BY <1>1
<1>3. ((now \div Window) + 1) * Window = Window * (now \div Window) + Window
  <2> HIDE DEF now
  <2>1. QED
    BY <1>1, <1>2
<1>4. Window * (now \div Window) \in Nat
  <2> HIDE DEF now
  <2>1. QED
    BY <1>1, <1>2
<1>5. now % Window \in Nat
  <2> HIDE DEF now
  <2>1. QED
    BY <1>1, <1>2
<1>6. ((now \div Window) + 1) * Window - now \in Nat
  <2> HIDE DEF now
  <2>1. QED
    BY <1>1, <1>2, <1>3, <1>4, <1>5
<1>7. QED
  BY <1>6 DEF RetryAfter

\* The window a check finds, once it has rolled.
LEMMA RolledType ==
    ASSUME NEW entry \in FixedWindow, NEW now \in Nat
    PROVE  Rolled(entry, now) \in FixedWindow
BY ConstFacts DEF Rolled, FixedWindow

LEMMA Found ==
    ASSUME Inv, NEW t \in DOMAIN call, NEW k, k = call[t].key,
           NEW now, now = call[t].now
    PROVE  /\ k \in Key /\ now \in Nat
           /\ now <= clock /\ clock <= now + MaxStall
           /\ Entry(k, now) \in FixedWindow
           /\ Rolled(Entry(k, now), now) \in FixedWindow
           /\ HeldInv(Entry(k, now), admitted[k], clock)
           /\ HeldInv(Rolled(Entry(k, now), now), admitted[k], clock)
<1>1. /\ k \in Key /\ now \in Nat
      /\ now <= clock /\ clock <= now + MaxStall
      /\ clock \in Nat /\ admitted[k] \in Seq(Nat)
  BY InvFacts DEF Inv, CallsOK
<1>2. KeyInv(k)
  BY <1>1 DEF Inv, WindowsOK
<1>3. /\ Entry(k, now) \in FixedWindow
      /\ HeldInv(Entry(k, now), admitted[k], clock)
  <2>1. CASE k \in DOMAIN windows
    BY <1>2, <2>1, InvFacts DEF Entry, KeyInv
  <2>2. CASE k \notin DOMAIN windows
    <3>1. HeldInv([count |-> 0, window_start |-> now], admitted[k], clock)
      BY <1>1, <1>2, <2>2, HeldStarts DEF KeyInv
    <3>2. [count |-> 0, window_start |-> now] \in FixedWindow
      BY <1>1, ConstFacts DEF FixedWindow
    <3>3. QED
      BY <2>2, <3>1, <3>2 DEF Entry
  <2>3. QED
    BY <2>1, <2>2
<1>4. Rolled(Entry(k, now), now) \in FixedWindow
  BY <1>1, <1>3, RolledType
<1>5. HeldInv(Rolled(Entry(k, now), now), admitted[k], clock)
  BY <1>1, <1>3, HeldRolls
<1>6. QED
  BY <1>1, <1>3, <1>4, <1>5

\* A check counts what it admits.
LEMMA CheckKeeps ==
    ASSUME Inv, NEW t \in Thread, CheckLocked(t)
    PROVE  WindowsOK' /\ retryAt' \in [Key -> Nat]
<1>0. PICK k, now : k = call[t].key /\ now = call[t].now
  OBVIOUS
<1> DEFINE entry == Rolled(Entry(k, now), now)
<1>1. /\ k \in Key /\ now \in Nat /\ clock \in Nat
      /\ entry \in FixedWindow
      /\ HeldInv(entry, admitted[k], clock)
      /\ admitted[k] \in Seq(Nat)
  BY <1>0, Found, InvFacts DEF CheckLocked
<1>2. /\ IF Admits(entry)
         THEN /\ windows' = With(windows, k, [entry EXCEPT !.count = @ + 1])
              /\ admitted' = [admitted EXCEPT ![k] = Append(@, clock)]
              /\ retryAt' = [retryAt EXCEPT ![k] = NotTold]
         ELSE /\ windows' = With(windows, k, entry)
              /\ retryAt' = [retryAt EXCEPT ![k] = clock + RetryAfter(clock)]
              /\ UNCHANGED admitted
      /\ UNCHANGED clock
  BY <1>0 DEF CheckLocked
<1> HIDE DEF entry
<1>3. retryAt' \in [Key -> Nat]
  <2>1. clock + RetryAfter(clock) \in Nat
    BY <1>1, RetryAfterType
  <2>2. QED
    BY <1>2, <2>1 DEF Inv, NotTold
<1>4. CASE Admits(entry)
  <2> DEFINE entry2 == [entry EXCEPT !.count = @ + 1]
             times2 == Append(admitted[k], clock)
  <2>1. entry2 \in FixedWindow
    BY <1>1, <1>4, ConstFacts DEF Admits, FixedWindow
  <2>2. times2 \in Seq(Nat)
    BY <1>1, Added
  <2>3. HeldInv(entry2, times2, clock)
    BY <1>1, HeldAdmits
  <2>4. windows' = With(windows, k, entry2)
    BY <1>2, <1>4
  <2>5. admitted' = [admitted EXCEPT ![k] = times2]
    BY <1>2, <1>4
  <2> HIDE DEF entry2, times2
  <2>6. WindowsOK'
    BY <1>1, <1>2, <2>1, <2>2, <2>3, <2>4, <2>5, WindowWritten
  <2>7. QED
    BY <1>3, <2>6
<1>5. CASE ~ Admits(entry)
  <2>1. admitted' = [admitted EXCEPT ![k] = admitted[k]]
    BY <1>2, <1>5 DEF Inv, WindowsOK
  <2>2. windows' = With(windows, k, entry)
    BY <1>2, <1>5
  <2>3. WindowsOK'
    BY <1>1, <1>2, <2>1, <2>2, WindowWritten
  <2>4. QED
    BY <1>3, <2>3
<1>6. QED
  BY <1>4, <1>5

\* The pass drops idle windows only, and keeps their history.
LEMMA RetainKeeps ==
    ASSUME Inv, NEW k \in Key, RetainShard(k)
    PROVE  WindowsOK'
<1>1. UNCHANGED <<clock, admitted>>
  BY DEF RetainShard
<1>2. CASE ~ Doomed(k)
  <2>1. windows' = windows
    BY <1>2 DEF RetainShard
  <2>2. QED
    BY <1>1, <2>1, WindowsStable DEF Inv
<1>3. CASE Doomed(k)
  <2>1. windows' = Without(windows, k)
    BY <1>3 DEF RetainShard
  <2>2. /\ k \in DOMAIN windows
        /\ Since(cleaner.now, windows[k].window_start) >= IdleTTL
    BY <1>3 DEF Doomed, IsIdle
  <2>3. /\ clock \in Nat /\ cleaner.now \in Nat /\ cleaner.now <= clock
        /\ admitted[k] \in Seq(Nat) /\ windows[k] \in FixedWindow
    BY <2>2, InvFacts DEF Inv
  <2>4. HeldInv(windows[k], admitted[k], clock)
    BY <2>2 DEF Inv, WindowsOK, KeyInv
  <2>5. GoneInv(admitted[k], clock)
    BY <2>2, <2>3, <2>4, HeldDropped
  <2>6. admitted' = [admitted EXCEPT ![k] = admitted[k]]
    BY <1>1 DEF Inv, WindowsOK
  <2>7. QED
    BY <1>1, <2>1, <2>3, <2>5, <2>6, WindowRemoved
<1>4. QED
  BY <1>2, <1>3

\* A step that forgets a key: a reset, or the removal of a victim.
LEMMA ForgetKeeps ==
    ASSUME Inv, NEW k \in Key, UNCHANGED clock, Forgotten(k)
    PROVE  WindowsOK' /\ retryAt' \in [Key -> Nat]
<1>1. <<>> \in Seq(Nat) /\ GoneInv(<<>>, clock)
  BY InvFacts, GoneForgotten
<1>2. /\ windows' = Without(windows, k)
      /\ admitted' = [admitted EXCEPT ![k] = <<>>]
      /\ retryAt' = [retryAt EXCEPT ![k] = NotTold]
  BY DEF Forgotten
<1>3. WindowsOK'
  BY <1>1, <1>2, WindowRemoved
<1>4. QED
  BY <1>2, <1>3 DEF Inv, NotTold

\* The steps keep the invariant.
LEMMA InvStep ==
    ASSUME Inv, [Next]_vars
    PROVE  Inv'
<1>0. /\ PassTypeOK /\ clock \in Nat /\ cleaner.now <= clock
      /\ CallsOK /\ WindowsOK /\ retryAt \in [Key -> Nat]
  BY InvFacts DEF Inv
<1>1. ASSUME UNCHANGED <<clock, call>> PROVE CallsOK'
  BY <1>0, <1>1 DEF CallsOK
<1>2. ASSUME UNCHANGED <<cleaner, inserted>> PROVE PassTypeOK'
  BY <1>0, <1>2 DEF PassTypeOK
<1>3. CASE Tick
  <2>1. /\ clock' = clock + 1
        /\ UNCHANGED <<cleaner, inserted, windows, call, retryAt, admitted>>
    BY <1>3 DEF Tick
  <2>2. cleaner'.now <= clock'
    BY <1>0, <2>1, InvFacts
  <2>3. CallsOK'
    <3>1. \A t \in DOMAIN call : /\ call[t].now <= clock + 1
                                /\ clock + 1 <= call[t].now + MaxStall
      BY <1>0, <1>3, InvFacts, ConstFacts DEF Tick, CallsOK
    <3>2. QED
      BY <1>0, <2>1, <3>1 DEF CallsOK
  <2>4. WindowsOK'
    <3>1. clock + 1 \in 0..MaxClock
      BY <1>0, <1>3, ConstFacts DEF Tick
    <3>2. ASSUME NEW k \in Key PROVE KeyInv(k)'
      <4>1. admitted[k] \in Seq(Nat) /\ KeyInv(k)
        BY <1>0, InvFacts DEF WindowsOK
      <4>2. CASE k \in DOMAIN windows
        <5>1. /\ HeldInv(windows[k], admitted[k], clock)
              /\ windows[k].count \in Nat /\ windows[k].window_start \in Nat
          BY <4>1, <4>2, InvFacts, EntryParts DEF KeyInv
        <5>2. HeldInv(windows[k], admitted[k], clock + 1)
          BY <1>0, <4>1, <5>1, OrderedTicks, ExpiredTicks DEF HeldInv
        <5>3. QED
          BY <2>1, <4>2, <5>2 DEF KeyInv
      <4>3. CASE k \notin DOMAIN windows
        <5>1. GoneInv(admitted[k], clock + 1)
          BY <1>0, <4>1, <4>3, OrderedTicks, ExpiredTicks DEF KeyInv, GoneInv
        <5>2. QED
          BY <2>1, <4>3, <5>1 DEF KeyInv
      <4>4. QED
        BY <4>2, <4>3
    <3>3. QED
      BY <1>0, <2>1, <3>1, <3>2 DEF WindowsOK
  <2>5. QED
    BY <1>0, <1>2, <2>1, <2>2, <2>3, <2>4 DEF Inv
<1>4. ASSUME NEW t \in Thread, NEW k \in Key, CheckBegin(t, k) PROVE Inv'
  <2>1. UNCHANGED <<cleaner, inserted, clock, windows, retryAt, admitted>>
    BY <1>4 DEF CheckBegin
  <2>2. CallsOK'
    <3>1. [key |-> k, now |-> clock] \in Call
      BY <1>0 DEF Call
    <3>2. call' = With(call, t, [key |-> k, now |-> clock])
      BY <1>4 DEF CheckBegin
    <3>3. IsPartialMap(call', Thread, Call)
      BY <1>0, <3>1, <3>2, Put DEF CallsOK
    <3>4. \A x \in DOMAIN call' : /\ call'[x].now <= clock
                                 /\ clock <= call'[x].now + MaxStall
      BY <1>0, <3>2, ConstFacts DEF CallsOK, With
    <3>5. QED
      BY <2>1, <3>3, <3>4 DEF CallsOK
  <2>3. QED
    BY <1>0, <1>2, <2>1, <2>2, WindowsStable DEF Inv
<1>5. ASSUME NEW t \in Thread, CheckLocked(t) PROVE Inv'
  <2>1. UNCHANGED <<cleaner, clock>> /\ call' = Without(call, t)
    BY <1>5 DEF CheckLocked
  <2>2. PassTypeOK'
    BY <1>0, <1>5, InsertedType DEF CheckLocked
  <2>3. CallsOK'
    <3>1. IsPartialMap(call', Thread, Call)
      BY <1>0, <2>1, Removed DEF CallsOK
    <3>2. QED
      BY <1>0, <2>1, <3>1 DEF CallsOK, Without
  <2>4. QED
    BY <1>0, <1>5, <2>1, <2>2, <2>3, CheckKeeps DEF Inv
<1>6. ASSUME NEW k \in Key, Reset(k) PROVE Inv'
  BY <1>0, <1>1, <1>2, <1>6, ForgetKeeps DEF Inv, Reset
<1>7. CASE BeginCleanup \/ BeginCap \/ DecideCap \/ SortStamps \/ EndCleanup
  <2>1. UNCHANGED <<clock, windows, call, retryAt, admitted>>
    BY <1>7 DEF BeginCleanup, BeginCap, DecideCap, SortStamps, EndCleanup
  <2>2. \/ CleanupBegin(clock) \/ CapBegin \/ CapDecide \/ CapSort \/ CleanupEnd
    BY <1>7 DEF BeginCleanup, BeginCap, DecideCap, SortStamps, EndCleanup
  <2>3. PassTypeOK' /\ cleaner'.now <= clock
    BY <1>0, <2>2, PassStepType, PassTimely
  <2>4. QED
    BY <1>0, <1>1, <2>1, <2>3, WindowsStable DEF Inv
<1>8. ASSUME NEW k \in Key, RetainShard(k) PROVE Inv'
  <2>1. PassTypeOK' /\ cleaner'.now <= clock
    BY <1>0, <1>8, ShardRetainedType, PassTimely DEF RetainShard
  <2>2. UNCHANGED <<clock, call, retryAt>>
    BY <1>8 DEF RetainShard
  <2>3. QED
    BY <1>0, <1>1, <1>8, <2>1, <2>2, RetainKeeps DEF Inv
<1>9. ASSUME NEW k \in Key, CountShard(k) PROVE Inv'
  <2>1. ShardCounted(k, k \in DOMAIN windows) /\ inserted' = inserted
    BY <1>9 DEF CountShard
  <2>2. PassTypeOK' /\ cleaner'.now <= clock
    <3>1. (k \in DOMAIN windows) \in BOOLEAN
      OBVIOUS
    <3>2. PassTypeOK'
      BY <1>0, <2>1, <3>1, ShardCountedType
    <3>3. \E present : ShardCounted(k, present)
      BY <2>1, <3>1
    <3>4. QED
      BY <1>0, <3>2, <3>3, PassTimely
  <2>3. QED
    BY <1>0, <1>1, <1>9, <2>2, WindowsStable DEF CountShard, Inv
<1>10. ASSUME NEW k \in Key, ListShard(k) PROVE Inv'
  <2>1. PICK listed \in BOOLEAN, stamp \in Nat : ShardListed(k, listed, stamp)
    <3>1. CASE k \in DOMAIN windows
      BY <1>10, <3>1, InvFacts, EntryParts DEF ListShard
    <3>2. CASE k \notin DOMAIN windows
      BY <1>10, <3>2 DEF ListShard
    <3>3. QED
      BY <3>1, <3>2
  <2>2. inserted' = inserted
    BY <1>10 DEF ListShard
  <2>3. PassTypeOK' /\ cleaner'.now <= clock
    BY <1>0, <2>1, <2>2, ShardListedType, PassTimely
  <2>4. QED
    BY <1>0, <1>1, <1>10, <2>3, WindowsStable DEF ListShard, Inv
<1>11. ASSUME NEW k \in Key, RemoveVictim(k) PROVE Inv'
  <2>1. PassTypeOK' /\ cleaner'.now <= clock
    BY <1>0, <1>11, VictimTakenType, PassTimely DEF RemoveVictim
  <2>2. UNCHANGED <<clock, call>>
    BY <1>11 DEF RemoveVictim
  <2>3. WindowsOK' /\ retryAt' \in [Key -> Nat]
    <3>1. CASE k \in DOMAIN windows
      BY <1>11, <2>2, <3>1, ForgetKeeps DEF RemoveVictim
    <3>2. CASE k \notin DOMAIN windows
      BY <1>0, <1>11, <2>2, <3>2, WindowsStable DEF RemoveVictim
    <3>3. QED
      BY <3>1, <3>2
  <2>4. QED
    BY <1>1, <2>1, <2>2, <2>3 DEF Inv
<1>12. CASE UNCHANGED vars
  BY <1>0, <1>1, <1>2, <1>12, WindowsStable DEF vars, Inv
<1>13. QED
  BY <1>3, <1>4, <1>5, <1>6, <1>7, <1>8, <1>9, <1>10, <1>11, <1>12
     DEF Next, Cleanup

\* The store starts with no windows and no history.
LEMMA InvInit == Init => Inv
<1> SUFFICES ASSUME Init PROVE Inv
  OBVIOUS
<1>1. PassTypeOK /\ cleaner.now <= clock
  BY PassInitType DEF Init, PassInit, Resting
<1>2. ASSUME NEW S, NEW T, NEW f, f \in [{} -> T] PROVE IsPartialMap(f, S, T)
  BY <1>2 DEF IsPartialMap
<1>3. CallsOK
  BY <1>2 DEF Init, CallsOK
<1>4. WindowsOK
  <2>1. IsPartialMap(windows, Key, FixedWindow) /\ DOMAIN windows = {}
    BY <1>2 DEF Init
  <2>2. clock \in 0..MaxClock /\ clock \in Nat
    BY ConstFacts DEF Init
  <2>3. <<>> \in Seq(Nat) /\ GoneInv(<<>>, clock)
    BY <2>2, GoneForgotten
  <2>4. admitted \in [Key -> Seq(Nat)]
    BY <2>3 DEF Init
  <2>5. \A k \in Key : KeyInv(k)
    BY <2>1, <2>3 DEF Init, KeyInv
  <2>6. QED
    BY <2>1, <2>2, <2>4, <2>5 DEF WindowsOK
<1>5. retryAt \in [Key -> Nat]
  BY DEF Init, NotTold
<1>6. QED
  BY <1>1, <1>3, <1>4, <1>5 DEF Inv

LEMMA InvCorrect == Spec => []Inv
<1>1. Init => Inv
  BY InvInit
<1>2. Inv /\ [Next]_vars => Inv'
  BY InvStep
<1>3. QED
  BY <1>1, <1>2, PTL DEF Spec

-----------------------------------------------------------------------------
\* Theorems.

\* No window counts more than max_requests requests, whatever checks, resets
\* and passes do between one another's locks (memory.rs:311).
THEOREM TypeCorrect == Spec => []TypeOK
<1>1. Inv => TypeOK
  BY DEF Inv, CallsOK, WindowsOK, TypeOK
<1>2. QED
  BY <1>1, InvCorrect, PTL

\* The recent admissions of a key are those of two windows.
LEMMA RecentCounted ==
    ASSUME NEW times \in Seq(Nat), NEW at \in Nat, NEW count \in Nat,
           count <= MaxRequests, Expired(count, times, at), IdleTTL >= Window
    PROVE  /\ Within(times, Window - MaxStall - 1, at) \in Nat
           /\ Within(times, Window - MaxStall - 1, at) <= 2 * MaxRequests
<1> DEFINE recent == {i \in DOMAIN times : at - times[i] <= Window - MaxStall - 1}
           old    == Len(times) - count - MaxRequests
<1>1. /\ Len(times) \in Nat /\ DOMAIN times = 1..Len(times)
      /\ \A i \in 1..Len(times) : times[i] \in Nat
  BY TimesParts
<1>2. PICK from \in Nat : from >= old /\ (from = 0 \/ from = old)
  <2>1. old \in Int
    BY <1>1, ConstFacts
  <2> HIDE DEF old
  <2>2. CASE old >= 0
    BY <2>1, <2>2
  <2>3. CASE ~ (old >= 0)
    BY <2>1, <2>3
  <2>4. QED
    BY <2>2, <2>3
<1>3. recent \subseteq (from + 1)..Len(times)
  <2> SUFFICES ASSUME NEW i \in recent PROVE i \in (from + 1)..Len(times)
    OBVIOUS
  <2>1. /\ i \in 1..Len(times) /\ times[i] \in Nat
        /\ at - times[i] <= Window - MaxStall - 1
    BY <1>1
  <2>2. i \in 1..old => at - times[i] >= Window - MaxStall
    BY DEF Expired
  <2>3. old \in Int
    BY <1>1, ConstFacts
  <2> HIDE DEF recent, old
  <2>4. i \notin 1..old
    <3>1. PICK m \in Nat : m = times[i]
      BY <2>1
    <3>2. at - m <= Window - MaxStall - 1
      BY <2>1, <3>1
    <3>3. i \in 1..old => at - m >= Window - MaxStall
      BY <2>2, <3>1
    <3>4. QED
      BY <3>2, <3>3, ConstFacts
  <2>5. QED
    BY <1>1, <1>2, <2>1, <2>3, <2>4
<1>4. /\ IsFiniteSet((from + 1)..Len(times))
      /\ Cardinality((from + 1)..Len(times)) \in Nat
      /\ Cardinality((from + 1)..Len(times)) <= count + MaxRequests
  <2>1. from + 1 \in Int /\ Len(times) \in Int
    BY <1>1
  <2>2. /\ IsFiniteSet((from + 1)..Len(times))
        /\ Cardinality((from + 1)..Len(times))
             = IF from + 1 > Len(times) THEN 0 ELSE Len(times) - (from + 1) + 1
    BY <2>1, FS_Interval
  <2>3. from >= Len(times) - count - MaxRequests
    BY <1>2
  <2>4. QED
    BY <1>1, <2>2, <2>3, ConstFacts
<1> HIDE DEF recent
<1>5. Cardinality(recent) \in Nat /\ Cardinality(recent) <= count + MaxRequests
  <2>1. /\ Cardinality(recent) \in Nat
        /\ Cardinality(recent) <= Cardinality((from + 1)..Len(times))
    BY <1>3, <1>4, PartSmaller
  <2>2. QED
    BY <1>4, <2>1, ConstFacts
<1>6. Cardinality(recent) <= 2 * MaxRequests
  BY <1>5, ConstFacts
<1>7. QED
  BY <1>5, <1>6 DEF Within, recent

\* Doubling at the boundary of two windows, and no more (fixed_window.rs:17):
\* whatever is reordered on the way to the lock, reset, retained or evicted.
THEOREM DoubledCorrect == Spec => []AtMostDoubled
<1>1. Inv => AtMostDoubled
  <2> SUFFICES ASSUME Inv, IdleTTL >= Window, NEW k \in Key
               PROVE  Within(admitted[k], Window - MaxStall - 1, clock)
                          <= 2 * MaxRequests
    BY DEF AtMostDoubled
  <2>1. admitted[k] \in Seq(Nat) /\ clock \in Nat /\ KeyInv(k)
    BY InvFacts DEF Inv, WindowsOK
  <2>2. PICK count \in Nat :
            count <= MaxRequests /\ Expired(count, admitted[k], clock)
    <3>1. CASE k \in DOMAIN windows
      BY <2>1, <3>1, InvFacts, EntryParts DEF KeyInv, HeldInv
    <3>2. CASE k \notin DOMAIN windows
      BY <2>1, <3>2, ConstFacts DEF KeyInv, GoneInv
    <3>3. QED
      BY <3>1, <3>2
  <2>3. QED
    BY <2>1, <2>2, RecentCounted
<1>2. QED
  BY <1>1, InvCorrect, PTL

\* The requests that a running window counts have been admitted recently.
LEMMA CountedAreRecent ==
    ASSUME NEW entry \in FixedWindow, NEW times \in Seq(Nat), NEW at \in Nat,
           HeldInv(entry, times, at),
           NEW now \in Nat, at <= now + MaxStall,
           Since(now, entry.window_start) < Window
    PROVE  /\ Within(times, Window + MaxStall, at) \in Nat
           /\ entry.count <= Within(times, Window + MaxStall, at)
<1> DEFINE recent == {i \in DOMAIN times : at - times[i] <= Window + MaxStall}
           before == Len(times) - entry.count
<1>1. /\ Len(times) \in Nat /\ DOMAIN times = 1..Len(times)
      /\ \A i \in 1..Len(times) : times[i] \in Nat
      /\ entry.count \in Nat /\ entry.window_start \in Nat
  BY TimesParts, EntryParts
<1>2. /\ before \in Nat
      /\ \A i \in (before + 1)..Len(times) : times[i] >= entry.window_start
  BY <1>1 DEF HeldInv, Counts
<1>3. (before + 1)..Len(times) \subseteq recent
  <2> SUFFICES ASSUME NEW i \in (before + 1)..Len(times) PROVE i \in recent
    OBVIOUS
  <2>1. i \in 1..Len(times) /\ times[i] \in Nat
    BY <1>1, <1>2
  <2>2. times[i] >= entry.window_start
    BY <1>2
  <2>3. PICK m \in Nat, start \in Nat : m = times[i] /\ start = entry.window_start
    BY <1>1, <2>1
  <2>4. m >= start /\ now < start + Window
    BY <2>2, <2>3, ConstFacts DEF Since
  <2>5. at - m <= Window + MaxStall
    BY <2>4, ConstFacts
  <2>6. QED
    BY <1>1, <2>1, <2>3, <2>5
<1>4. Cardinality((before + 1)..Len(times)) = entry.count
  <2>1. before + 1 \in Int /\ Len(times) \in Int
    BY <1>1, <1>2
  <2>2. Cardinality((before + 1)..Len(times))
            = IF before + 1 > Len(times) THEN 0 ELSE Len(times) - (before + 1) + 1
    BY <2>1, FS_Interval
  <2>3. PICK n \in Nat, c \in Nat : n = Len(times) /\ c = entry.count
    BY <1>1
  <2>4. QED
    BY <1>2, <2>2, <2>3
<1>5. IsFiniteSet(recent)
  <2>1. IsFiniteSet(1..Len(times)) /\ recent \subseteq 1..Len(times)
    BY <1>1, FS_Interval
  <2> HIDE DEF recent
  <2>2. QED
    BY <2>1, FS_Subset
<1> HIDE DEF recent, before
<1>6. Cardinality(recent) \in Nat /\ entry.count <= Cardinality(recent)
  BY <1>3, <1>4, <1>5, PartSmaller
<1>7. QED
  BY <1>6 DEF Within, recent

\* No request is denied for nothing: the window is running and has counted
\* max_requests requests, all admitted within it and the longest stall.
THEOREM DenialCorrect == Spec => DenialJustified
<1> DEFINE Justified ==
        \A t \in DOMAIN call :
            CheckLocked(t) /\ UNCHANGED admitted =>
                Within(admitted[call[t].key], Window + MaxStall, clock)
                    >= MaxRequests
<1>1. Inv /\ [Next]_vars => [Justified]_vars
  <2> SUFFICES ASSUME Inv, NEW t \in DOMAIN call, CheckLocked(t),
                      UNCHANGED admitted
               PROVE  Within(admitted[call[t].key], Window + MaxStall, clock)
                          >= MaxRequests
    OBVIOUS
  <2>1. PICK k, now : k = call[t].key /\ now = call[t].now
    OBVIOUS
  <2> DEFINE found == Entry(k, now)
             entry == Rolled(found, now)
  <2>2. /\ k \in Key /\ now \in Nat /\ clock \in Nat
        /\ clock <= now + MaxStall
        /\ found \in FixedWindow /\ entry \in FixedWindow
        /\ HeldInv(entry, admitted[k], clock)
        /\ admitted[k] \in Seq(Nat)
    BY <2>1, Found, InvFacts
  <2>3. ~ Admits(entry)
    <3> SUFFICES ASSUME Admits(entry) PROVE FALSE
      OBVIOUS
    <3>1. admitted' = [admitted EXCEPT ![k] = Append(@, clock)]
      BY <2>1 DEF CheckLocked
    <3>2. admitted[k] = Append(admitted[k], clock)
      BY <2>2, <3>1 DEF Inv, WindowsOK
    <3>3. /\ Len(Append(admitted[k], clock)) = Len(admitted[k]) + 1
          /\ Len(admitted[k]) \in Nat
      BY <2>2, Added, TimesParts
    <3>4. QED
      BY <3>2, <3>3
  <2>4. entry.count \in Nat /\ entry.count >= MaxRequests
    BY <2>2, <2>3, EntryParts, ConstFacts DEF Admits
  <2>5. Since(now, entry.window_start) < Window
    <3>1. CASE Since(now, found.window_start) >= Window
      <4>1. entry.count = 0
        BY <3>1 DEF Rolled
      <4>2. QED
        BY <2>4, <4>1, ConstFacts
    <3>2. CASE ~ (Since(now, found.window_start) >= Window)
      <4>1. entry = found
        BY <3>2 DEF Rolled
      <4>2. found.window_start \in Nat
        BY <2>2, EntryParts
      <4>3. PICK start \in Nat : start = found.window_start
        BY <4>2
      <4>4. Since(now, start) < Window
        BY <2>2, <3>2, <4>3, ConstFacts DEF Since
      <4>5. QED
        BY <4>1, <4>3, <4>4
    <3>3. QED
      BY <3>1, <3>2
  <2> HIDE DEF found, entry
  <2>6. /\ Within(admitted[k], Window + MaxStall, clock) \in Nat
        /\ entry.count <= Within(admitted[k], Window + MaxStall, clock)
    BY <2>2, <2>5, CountedAreRecent
  <2>7. QED
    BY <2>1, <2>4, <2>6, ConstFacts
<1>2. QED
  BY <1>1, InvCorrect, PTL DEF Spec, DenialJustified

-----------------------------------------------------------------------------
\* The cap.

\* What the pass has counted bounds the windows, at every step.
MapCounted == CapInv(cleaner, inserted, DOMAIN windows)

LEMMA MapCountedStep ==
    ASSUME Inv, MapCounted, [Next]_vars
    PROVE  MapCounted'
<1>0. PassTypeOK /\ clock \in Nat
  BY InvFacts DEF Inv
<1>1. ASSUME UNCHANGED <<cleaner, inserted, windows>> PROVE MapCounted'
  BY <1>1 DEF MapCounted
<1>2. ASSUME NEW k, windows' = Without(windows, k)
      PROVE  /\ DOMAIN windows' = DOMAIN windows \ {k}
             /\ CapInv(cleaner, inserted, DOMAIN windows')
  <2>1. DOMAIN windows' = DOMAIN windows \ {k}
    BY <1>2 DEF Without
  <2>2. CapInv(cleaner, inserted, DOMAIN windows \ {k})
    BY <1>0, CapRemoved DEF MapCounted
  <2>3. QED
    BY <2>1, <2>2
<1>3. CASE Tick
  BY <1>1, <1>3 DEF Tick
<1>4. ASSUME NEW t \in Thread, NEW k \in Key, CheckBegin(t, k)
      PROVE  MapCounted'
  BY <1>1, <1>4 DEF CheckBegin
<1>5. ASSUME NEW t \in Thread, CheckLocked(t) PROVE MapCounted'
  <2>1. PICK k : k = call[t].key
    OBVIOUS
  <2>2. k \in Key
    BY <1>5, <2>1, InvFacts DEF CheckLocked
  <2>3. DOMAIN windows' = DOMAIN windows \cup {k}
    BY <1>5, <2>1 DEF CheckLocked, With
  <2>4. Inserted(k \notin DOMAIN windows) /\ UNCHANGED cleaner
    BY <1>5, <2>1 DEF CheckLocked
  <2>5. CapInv(cleaner', inserted', DOMAIN windows \cup {k})
    BY <1>0, <2>2, <2>4, CapInserted DEF MapCounted
  <2>6. QED
    BY <2>3, <2>5 DEF MapCounted
<1>6. ASSUME NEW k \in Key, Reset(k) PROVE MapCounted'
  <2>1. CapInv(cleaner, inserted, DOMAIN windows')
    BY <1>2, <1>6 DEF Reset, Forgotten
  <2>2. QED
    BY <1>6, <2>1 DEF Reset, MapCounted
<1>7. CASE BeginCleanup \/ BeginCap \/ DecideCap \/ SortStamps \/ EndCleanup
  <2>1. /\ windows' = windows
        /\ \/ CleanupBegin(clock) \/ CapBegin \/ CapDecide
           \/ CapSort \/ CleanupEnd
    BY <1>7 DEF BeginCleanup, BeginCap, DecideCap, SortStamps, EndCleanup
  <2>2. CapInv(cleaner', inserted', DOMAIN windows)
    BY <1>0, <2>1, CapStep DEF MapCounted
  <2>3. QED
    BY <2>1, <2>2 DEF MapCounted
<1>8. ASSUME NEW k \in Key, RetainShard(k) PROVE MapCounted'
  <2>1. CapInv(cleaner, inserted, DOMAIN windows')
    BY <1>2, <1>8 DEF RetainShard, MapCounted
  <2>2. CapInv(cleaner', inserted', DOMAIN windows')
    BY <1>0, <1>8, <2>1, CapRetained DEF RetainShard
  <2>3. QED
    BY <1>8, <2>2 DEF RetainShard, MapCounted
<1>9. ASSUME NEW k \in Key, CountShard(k) PROVE MapCounted'
  BY <1>0, <1>9, CapCounted DEF CountShard, MapCounted
<1>10. ASSUME NEW k \in Key, ListShard(k) PROVE MapCounted'
  <2>1. \E stamp : ShardListed(k, k \in DOMAIN windows, stamp)
    <3>1. CASE k \in DOMAIN windows
      <4>1. /\ ShardListed(k, TRUE, windows[k].window_start)
            /\ (k \in DOMAIN windows) = TRUE
        BY <1>10, <3>1 DEF ListShard
      <4>2. QED
        BY <4>1
    <3>2. CASE k \notin DOMAIN windows
      <4>1. ShardListed(k, FALSE, 0)
        BY <1>10, <3>2 DEF ListShard
      <4>2. (k \in DOMAIN windows) = FALSE
        BY <3>2
      <4>3. QED
        BY <4>1, <4>2
    <3>3. QED
      BY <3>1, <3>2
  <2>2. CapInv(cleaner', inserted, DOMAIN windows)
    BY <1>0, <2>1, CapListed DEF MapCounted
  <2>3. QED
    BY <1>10, <2>2 DEF ListShard, MapCounted
<1>11. ASSUME NEW k \in Key, RemoveVictim(k) PROVE MapCounted'
  <2>1. CapInv(cleaner', inserted', DOMAIN windows \ {k})
    BY <1>0, <1>11, CapVictim DEF RemoveVictim, MapCounted
  <2>2. DOMAIN windows' = DOMAIN windows \ {k} /\ inserted' = inserted
    BY <1>11 DEF RemoveVictim, Forgotten, Without
  <2>3. QED
    BY <2>1, <2>2 DEF MapCounted
<1>12. CASE UNCHANGED vars
  BY <1>1, <1>12 DEF vars
<1>13. QED
  BY <1>3, <1>4, <1>5, <1>6, <1>7, <1>8, <1>9, <1>10, <1>11, <1>12
     DEF Next, Cleanup

\* Outside its cap the map holds no more than max_keys windows and those
\* inserted since the cap of the last pass began (memory.rs:402).
THEOREM CapCorrect == Spec => []CapRestored
<1>1. Init => MapCounted
  <2>1. Init => DOMAIN windows = {}
    BY DEF Init
  <2>2. QED
    BY <2>1, CapInit DEF Init, MapCounted
<1>2. Inv /\ MapCounted /\ [Next]_vars => MapCounted'
  BY MapCountedStep
<1>3. MapCounted => CapRestored
  BY CapInvSuffices DEF MapCounted, CapRestored
<1>4. QED
  BY <1>1, <1>2, <1>3, InvCorrect, PTL DEF Spec
=============================================================================
