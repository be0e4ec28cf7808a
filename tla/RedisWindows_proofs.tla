------------------------- MODULE RedisWindows_proofs -------------------------
(***************************************************************************)
(* Proofs about RedisWindows, for every value of its constants.            *)
(***************************************************************************)
EXTENDS RedisWindows, FiniteSetTheorems, TLAPS

-----------------------------------------------------------------------------
\* The inductive invariant.

\* When window w starts, by the clock of whoever numbers it.
Start(w) == w * Window

ResetState ==
    [phase : {"idle", "scan", "sweep", "done"},
     batch : SUBSET (Nat \ {0}), last : BOOLEAN, left : SUBSET Nat]

\* Types and times.
Sane ==
    /\ TypeOK
    /\ clock >= MaxSkew + Window
    /\ \A c \in DOMAIN sent :
          /\ sent[c].at <= clock /\ clock - sent[c].at <= MaxDelay
          /\ sent[c].at - MaxSkew <= sent[c].now
          /\ sent[c].now <= sent[c].at + MaxSkew
          /\ Window <= sent[c].now
    /\ log = [members |-> log.members, expires |-> log.expires]
    /\ IsFiniteSet(log.members)
    /\ log.expires <= clock + TTL
    /\ log.members # {} => /\ clock < log.expires
                           /\ seq.expires = log.expires
                           /\ log.expires <= swmax.expires
    /\ swmax.value \in {0, Limit}
    /\ DOMAIN counters \subseteq Nat \ {0}
    /\ resetting \in ResetState
    /\ resetting.phase = "sweep" /\ resetting.last =>
           resetting.left \subseteq resetting.batch
    /\ resetting.phase = "done" => resetting.left = {}
    /\ IsFiniteSet(admitted)
    /\ \A a \in admitted : a.at <= clock

\* The log's member of an admitted request; a reading may be Spread older than
\* one that reaches Redis with it.
Held(a) ==
    \E m \in log.members :
        m.seq = a.nth /\ a.at - MaxSkew - MaxDelay <= m.score

\* What log and history say of each other: every member is an admitted
\* request's, or too old to count; and with enough slack every admitted request
\* has a member, or is older than a window less the spread.
SlidingInv ==
    algorithm = "sliding" =>
        /\ pointer = Gone
        /\ \A a \in admitted : a.window = 0
        /\ \A m \in log.members : m.seq <= seq.value
        /\ \A m, n \in log.members : m.seq = n.seq => m = n
        /\ \A m \in log.members :
              \/ \E a \in admitted : a.nth = m.seq /\ m.score <= a.at + MaxSkew
              \/ m.score + Window + Spread <= clock + MaxSkew
        /\ Slack >= Spread =>
              /\ \A a \in admitted :
                    /\ a.nth <= seq.value /\ a.at + TTL <= seq.expires
                    /\ Held(a) \/ a.at + Window <= clock + Spread
              /\ \A a, b \in admitted : a.nth = b.nth => a = b
              /\ SlidingBound

\* The same of counters and history.
FixedInv ==
    algorithm = "fixed" =>
        /\ \A w \in DOMAIN counters :
              /\ Start(w) <= clock + MaxSkew
              /\ Start(w) + TTL <= counters[w].expires + MaxSkew
              /\ \A n \in 1..Limit :
                    n <= counters[w].value =>
                        \/ \E a \in admitted : a.window = w /\ a.nth = n
                        \/ Start(w) + Window + Spread <= clock + MaxSkew
        /\ \A a \in admitted :
              /\ a.window # 0 /\ a.nth \in 1..Limit
              /\ Start(a.window) <= a.at + MaxSkew
              /\ a.at < Start(a.window) + Window + MaxSkew + MaxDelay
        /\ Slack >= Spread =>
              /\ \A a \in admitted :
                    \/ /\ a.window \in DOMAIN counters
                       /\ a.nth <= counters[a.window].value
                    \/ Start(a.window) + Window + MaxSkew + MaxDelay <= clock
              /\ \A a, b \in admitted :
                    a.window = b.window /\ a.nth = b.nth => a = b
        /\ pointer # Gone =>
              \A w \in DOMAIN counters :
                  Start(w) < Start(pointer.value) + Window + Spread

Inv == Sane /\ SlidingInv /\ FixedInv

-----------------------------------------------------------------------------
\* Times.

LEMMA ConstFacts ==
    /\ Limit \in Nat /\ 1 <= Limit
    /\ Window \in Nat /\ 1 <= Window
    /\ Slack \in Nat /\ MaxSkew \in Nat /\ MaxDelay \in Nat
    /\ TTL = Window + Slack /\ TTL \in Nat
    /\ Spread = MaxSkew + MaxSkew + MaxDelay /\ Spread \in Nat
BY WindowsAssumption DEF TTL, Spread

LEMMA StartType ==
    ASSUME NEW w \in Nat
    PROVE  Start(w) \in Nat
BY ConstFacts DEF Start

\* A reading is in its window,
LEMMA ReadingInWindow ==
    ASSUME NEW now \in Nat
    PROVE  /\ WindowId(now) \in Nat
           /\ Start(WindowId(now)) <= now
           /\ now < Start(WindowId(now)) + Window
<1>1. Window \in Nat /\ 1 <= Window
  BY ConstFacts
<1>2. /\ now \div Window \in Nat
      /\ now = Window * (now \div Window) + (now % Window)
      /\ 0 <= now % Window /\ now % Window < Window
  BY <1>1
<1>3. Start(WindowId(now)) = Window * (now \div Window)
  BY <1>1, <1>2 DEF Start, WindowId
<1>4. Start(WindowId(now)) \in Nat /\ now % Window \in Nat
  BY <1>1, <1>2, <1>3, StartType DEF WindowId
<1>5. QED
  BY <1>1, <1>2, <1>3, <1>4 DEF WindowId

\* and one window is over when a later one starts.
LEMMA WindowsInOrder ==
    ASSUME NEW v \in Nat, NEW w \in Nat, v < w
    PROVE  Start(v) + Window <= Start(w)
<1>1. Window \in Nat /\ 1 <= Window
  BY ConstFacts
<1>2. PICK d \in Nat : w = v + 1 + d
  <2>1. w - v - 1 \in Nat
    OBVIOUS
  <2>2. w = v + 1 + (w - v - 1)
    OBVIOUS
  <2>3. QED
    BY <2>1, <2>2
<1>3. w * Window = v * Window + Window + d * Window
  BY <1>1, <1>2
<1>4. d * Window \in Nat /\ v * Window \in Nat
  BY <1>1
<1>5. QED
  BY <1>1, <1>3, <1>4 DEF Start

LEMMA ReadingFacts ==
    ASSUME Sane, NEW c \in DOMAIN sent
    PROVE  /\ sent[c].now \in Nat /\ Window <= sent[c].now
           /\ sent[c].now <= clock + MaxSkew
           /\ clock <= sent[c].now + MaxSkew + MaxDelay
<1>1. /\ sent[c] \in [now : Nat, at : Nat] /\ clock \in Nat
      /\ sent[c].at <= clock /\ clock - sent[c].at <= MaxDelay
      /\ sent[c].at - MaxSkew <= sent[c].now
      /\ sent[c].now <= sent[c].at + MaxSkew
      /\ Window <= sent[c].now
  BY DEF Sane, TypeOK
<1>2. QED
  BY <1>1, ConstFacts

\* A reading's window is not number 0, which the log's requests have.
LEMMA WindowNotZero ==
    ASSUME NEW now \in Nat, Window <= now
    PROVE  WindowId(now) # 0
<1>1. Start(0) = 0
  BY ConstFacts DEF Start
<1>2. now < Start(WindowId(now)) + Window
  BY ReadingInWindow
<1>3. QED
  BY <1>1, <1>2, ConstFacts

-----------------------------------------------------------------------------
\* Counting.

\* Requests that each have a member of their own are no more than the members.
LEMMA MembersCount ==
    ASSUME NEW A, NEW M, IsFiniteSet(M),
           \A a \in A : \E m \in M : m.seq = a.nth,
           \A a, b \in A : a.nth = b.nth => a = b
    PROVE  IsFiniteSet(A) /\ Cardinality(A) <= Cardinality(M)
<1> DEFINE f == [a \in A |-> CHOOSE m \in M : m.seq = a.nth]
<1>1. \A a \in A : f[a] \in M /\ f[a].seq = a.nth
  OBVIOUS
<1>2. f \in Injection(A, M)
  BY <1>1 DEF Injection, IsInjective
<1>3. QED
  BY <1>2, FS_Injection

\* Members that each have a request of their own are no more than these.
LEMMA RequestsCount ==
    ASSUME NEW A, NEW M, IsFiniteSet(A),
           \A m \in M : \E a \in A : a.nth = m.seq,
           \A m, n \in M : m.seq = n.seq => m = n
    PROVE  Cardinality(M) <= Cardinality(A)
<1> DEFINE f == [m \in M |-> CHOOSE a \in A : a.nth = m.seq]
<1>1. \A m \in M : f[m] \in A /\ f[m].nth = m.seq
  OBVIOUS
<1>2. f \in Injection(M, A)
  BY <1>1 DEF Injection, IsInjective
<1>3. QED
  BY <1>2, FS_Injection

\* If all of 1..n are numbers of requests, there are n of these.
LEMMA NumbersCount ==
    ASSUME NEW A, IsFiniteSet(A), NEW n \in Nat,
           \A i \in 1..n : \E a \in A : a.nth = i
    PROVE  n <= Cardinality(A)
<1> DEFINE f == [i \in 1..n |-> CHOOSE a \in A : a.nth = i]
<1>1. \A i \in 1..n : f[i] \in A /\ f[i].nth = i
  OBVIOUS
<1>2. f \in Injection(1..n, A)
  BY <1>1 DEF Injection, IsInjective
<1>3. Cardinality(1..n) = n
  BY FS_Interval
<1>4. QED
  BY <1>2, <1>3, FS_Injection

\* Two windows' requests, numbered up to the limit, are twice the limit.
LEMMA TwoWindowsCount ==
    ASSUME NEW A, NEW v,
           \A a \in A : a.nth \in 1..Limit,
           \A a, b \in A : a.window = b.window /\ a.nth = b.nth => a = b,
           \A a, b \in A : a.window # v /\ b.window # v => a.window = b.window
    PROVE  IsFiniteSet(A) /\ Cardinality(A) <= 2 * Limit
<1> DEFINE f == [a \in A |-> IF a.window = v THEN a.nth ELSE Limit + a.nth]
<1>1. \A a \in A : f[a] \in 1..2 * Limit
  BY ConstFacts
<1>2. ASSUME NEW a \in A, NEW b \in A, f[a] = f[b]
      PROVE  a = b
  BY <1>2, ConstFacts
<1>3. f \in Injection(A, 1..2 * Limit)
  BY <1>1, <1>2 DEF Injection, IsInjective
<1>4. IsFiniteSet(1..2 * Limit) /\ Cardinality(1..2 * Limit) = 2 * Limit
  BY FS_Interval, ConstFacts
<1>5. QED
  BY <1>3, <1>4, FS_Injection

-----------------------------------------------------------------------------
\* The first state.

LEMMA InitInv == Init => Inv
<1> SUFFICES ASSUME Init
             PROVE  Inv
  OBVIOUS
<1>1. IsFiniteSet({}) /\ Cardinality({}) = 0
  BY FS_EmptySet
<1>2. /\ DOMAIN sent = {} /\ DOMAIN counters = {} /\ admitted = {}
      /\ log.members = {} /\ log.expires = 0
  BY DEF Init, NoLog
<1>3. Sane
  BY <1>1, <1>2, ConstFacts
     DEF Init, Sane, TypeOK, Gone, NoLog, Resting, ResetState
<1>4. SlidingInv
  BY <1>2 DEF Init, SlidingInv, SlidingBound
<1>5. FixedInv
  BY <1>2 DEF Init, FixedInv
<1>6. QED
  BY <1>3, <1>4, <1>5 DEF Inv

-----------------------------------------------------------------------------
\* Steps that leave Redis, its clock and the history alone.

LEMMA QuietInv ==
    ASSUME Inv, Sane', UNCHANGED <<algorithm, clock, redis, admitted>>
    PROVE  Inv'
<1>1. UNCHANGED <<algorithm, clock, log, seq, counters, pointer, admitted>>
  BY DEF redis
<1>2. SlidingInv'
  BY <1>1 DEF Inv, SlidingInv, Held, SlidingBound, AdmittedIn
<1>3. FixedInv'
  BY <1>1 DEF Inv, FixedInv
<1>4. QED
  BY <1>2, <1>3 DEF Inv

LEMMA SendInv ==
    ASSUME Inv, NEW c \in Caller,
           NEW now \in clock - MaxSkew .. clock + MaxSkew, Send(c, now)
    PROVE  Inv'
<1>1. /\ UNCHANGED <<algorithm, clock, redis, resetting, admitted>>
      /\ UNCHANGED <<log, seq, swmax, counters, pointer>>
  BY DEF Send, redis
<1>2. /\ DOMAIN sent' = DOMAIN sent \cup {c}
      /\ sent'[c] = [now |-> now, at |-> clock]
      /\ \A x \in DOMAIN sent : sent'[x] = sent[x]
  BY DEF Send
<1>3. clock \in Nat /\ MaxSkew + Window <= clock
  BY DEF Inv, Sane, TypeOK
<1>4. now \in Nat /\ Window <= now /\ clock - MaxSkew <= now
      /\ now <= clock + MaxSkew /\ clock - clock <= MaxDelay
  BY <1>3, ConstFacts
<1>5. TypeOK'
  BY <1>1, <1>2, <1>3, <1>4 DEF Inv, Sane, TypeOK
<1>6. \A x \in DOMAIN sent' :
          /\ sent'[x].at <= clock /\ clock - sent'[x].at <= MaxDelay
          /\ sent'[x].at - MaxSkew <= sent'[x].now
          /\ sent'[x].now <= sent'[x].at + MaxSkew
          /\ Window <= sent'[x].now
  BY <1>2, <1>3, <1>4 DEF Inv, Sane
<1>7. Sane'
  BY <1>1, <1>5, <1>6 DEF Inv, Sane
<1>8. QED
  BY <1>1, <1>7, QuietInv

\* A caller whose script has arrived, or never will, leaves the others.
LEMMA ArrivedFacts ==
    ASSUME Sane, NEW c, Arrived(c)
    PROVE  /\ DOMAIN sent' \subseteq DOMAIN sent
           /\ \A x \in DOMAIN sent' : sent'[x] = sent[x]
BY DEF Arrived, Only

LEMMA LoseInv ==
    ASSUME Inv, NEW c \in Caller, Lose(c)
    PROVE  Inv'
<1>1. /\ UNCHANGED <<algorithm, clock, redis, resetting, admitted>>
      /\ UNCHANGED <<log, seq, swmax, counters, pointer>>
  BY DEF Lose, redis
<1>2. /\ DOMAIN sent' \subseteq DOMAIN sent
      /\ \A x \in DOMAIN sent' : sent'[x] = sent[x]
  BY ArrivedFacts DEF Lose, Inv
<1>3. TypeOK'
  BY <1>1, <1>2 DEF Inv, Sane, TypeOK
<1>4. Sane'
  BY <1>1, <1>2, <1>3 DEF Inv, Sane
<1>5. QED
  BY <1>1, <1>4, QuietInv

LEMMA ScanInv ==
    ASSUME Inv, NEW ids \in SUBSET DOMAIN counters, NEW last \in BOOLEAN,
           ScanAnswers(ids, last)
    PROVE  Inv'
<1>1. /\ UNCHANGED <<algorithm, clock, sent, redis, admitted>>
      /\ UNCHANGED <<log, seq, swmax, counters, pointer>>
  BY DEF ScanAnswers, redis
<1>2. /\ resetting \in ResetState
      /\ DOMAIN counters \subseteq Nat \ {0}
  BY DEF Inv, Sane
<1>3. /\ resetting'.left = resetting.left
      /\ resetting'.batch = ids
      /\ resetting'.last = last
      /\ resetting'.phase = IF ids = {} THEN AfterEmptyBatch(last) ELSE "sweep"
      /\ last => resetting.left \subseteq ids
  BY <1>2 DEF ScanAnswers
<1>4. resetting' \in ResetState
  BY <1>2 DEF ScanAnswers, AfterEmptyBatch, ResetState
<1>5. /\ resetting'.phase = "sweep" /\ resetting'.last =>
             resetting'.left \subseteq resetting'.batch
      /\ resetting'.phase = "done" => resetting'.left = {}
  BY <1>3 DEF AfterEmptyBatch
<1>6. TypeOK'
  BY <1>1, <1>3, <1>4 DEF Inv, Sane, TypeOK, ResetState
<1>7. Sane'
  BY <1>1, <1>4, <1>5, <1>6 DEF Inv, Sane
<1>8. QED
  BY <1>1, <1>7, QuietInv

LEMMA ResetReturnsInv ==
    ASSUME Inv, ResetReturns
    PROVE  Inv'
<1>1. /\ UNCHANGED <<algorithm, clock, sent, redis, admitted>>
      /\ UNCHANGED <<log, seq, swmax, counters, pointer>>
      /\ resetting' = Resting
  BY DEF ResetReturns, redis
<1>2. TypeOK'
  BY <1>1 DEF Inv, Sane, TypeOK, Resting
<1>3. Sane'
  BY <1>1, <1>2 DEF Inv, Sane, Resting, ResetState
<1>4. QED
  BY <1>1, <1>3, QuietInv

LEMMA StutterInv ==
    ASSUME Inv, UNCHANGED vars
    PROVE  Inv'
<1>1. /\ UNCHANGED <<algorithm, clock, sent, redis, resetting, admitted>>
      /\ UNCHANGED <<log, seq, swmax, counters, pointer>>
  BY DEF vars, redis
<1>2. TypeOK'
  BY <1>1 DEF Inv, Sane, TypeOK
<1>3. Sane'
  BY <1>1, <1>2 DEF Inv, Sane
<1>4. QED
  BY <1>1, <1>3, QuietInv

-----------------------------------------------------------------------------
\* reset takes away counts and the history of what they counted.

LEMMA ResetBeginInv ==
    ASSUME Inv, ResetBegin
    PROVE  Inv'
<1>1. /\ log' = NoLog /\ seq' = Gone /\ swmax' = Gone /\ pointer' = Gone
      /\ resetting' = [Resting EXCEPT !.phase = "scan",
                                      !.left = DOMAIN counters]
      /\ admitted' = {a \in admitted : a.window # 0}
      /\ UNCHANGED <<algorithm, clock, sent, counters>>
  BY DEF ResetBegin
<1>2. IsFiniteSet({}) /\ Cardinality({}) = 0
  BY FS_EmptySet
<1>3. /\ admitted' \in SUBSET admitted /\ IsFiniteSet(admitted')
      /\ log'.members = {} /\ log'.expires = 0
  BY <1>1, FS_Subset DEF Inv, Sane, NoLog
<1>4. TypeOK'
  BY <1>1, <1>2, <1>3, ConstFacts
     DEF Inv, Sane, TypeOK, NoLog, Gone, Resting
<1>5. Sane'
  <2>1. resetting' = [phase |-> "scan", batch |-> {}, last |-> FALSE,
                      left |-> DOMAIN counters]
    BY <1>1 DEF Resting
  <2>2. /\ resetting' \in ResetState
        /\ resetting'.phase = "scan"
    BY <2>1 DEF Inv, Sane, ResetState
  <2>3. log'.expires <= clock + TTL /\ swmax'.value = 0
    BY <1>1, <1>3, ConstFacts DEF Inv, Sane, TypeOK, Gone
  <2>4. log' = [members |-> log'.members, expires |-> log'.expires]
    BY <1>1 DEF NoLog
  <2>5. \A a \in admitted' : a.at <= clock
    BY <1>3 DEF Inv, Sane
  <2>6. QED
    BY <1>1, <1>2, <1>3, <1>4, <2>2, <2>3, <2>4, <2>5 DEF Inv, Sane
<1>6. SlidingInv'
  <2>1. ASSUME algorithm = "sliding" PROVE admitted' = {}
    BY <1>1, <2>1 DEF Inv, SlidingInv
  <2>2. QED
    BY <1>1, <1>3, <2>1 DEF SlidingInv, SlidingBound
<1>7. FixedInv'
  <2>1. ASSUME algorithm = "fixed" PROVE admitted' = admitted
    BY <1>1, <2>1 DEF Inv, FixedInv
  <2>2. QED
    BY <1>1, <2>1 DEF Inv, FixedInv
<1>8. QED
  BY <1>5, <1>6, <1>7 DEF Inv

LEMMA SweepInv ==
    ASSUME Inv, SweepBatch
    PROVE  Inv'
<1>1. /\ counters' = Only(counters, DOMAIN counters \ resetting.batch)
      /\ admitted' = {a \in admitted : a.window \notin resetting.batch}
      /\ resetting' = [resetting EXCEPT
             !.phase = IF resetting.last THEN "done" ELSE "scan",
             !.batch = {},
             !.left = @ \ resetting.batch]
      /\ UNCHANGED <<algorithm, clock, sent, log, seq, swmax, pointer>>
      /\ resetting.phase = "sweep"
  BY DEF SweepBatch
<1>2. /\ DOMAIN counters' = DOMAIN counters \ resetting.batch
      /\ \A w \in DOMAIN counters' : counters'[w] = counters[w]
  BY <1>1 DEF Only
<1>3. /\ resetting \in ResetState
      /\ resetting.last => resetting.left \subseteq resetting.batch
      /\ resetting.left \subseteq DOMAIN counters
  BY <1>1 DEF Inv, Sane, TypeOK
<1>4. /\ resetting' \in ResetState
      /\ resetting'.phase = IF resetting.last THEN "done" ELSE "scan"
      /\ resetting'.left = resetting.left \ resetting.batch
  BY <1>1, <1>3 DEF ResetState
<1>5. admitted' \in SUBSET admitted /\ IsFiniteSet(admitted')
  BY <1>1, FS_Subset DEF Inv, Sane
<1>6. TypeOK'
  BY <1>1, <1>2, <1>3, <1>4, <1>5 DEF Inv, Sane, TypeOK
<1>7. Sane'
  <2>1. DOMAIN counters' \subseteq Nat \ {0}
    BY <1>2 DEF Inv, Sane
  <2>2. /\ resetting'.phase # "sweep"
        /\ resetting'.phase = "done" => resetting'.left = {}
    BY <1>3, <1>4
  <2>3. \A a \in admitted' : a.at <= clock
    BY <1>5 DEF Inv, Sane
  <2>4. QED
    BY <1>1, <1>4, <1>5, <1>6, <2>1, <2>2, <2>3 DEF Inv, Sane
<1>8. SlidingInv'
  <2>1. ASSUME algorithm = "sliding" PROVE admitted' = admitted
    BY <1>1, <1>3, <2>1 DEF Inv, SlidingInv, ResetState
  <2>2. QED
    BY <1>1, <2>1 DEF Inv, SlidingInv, Held, SlidingBound, AdmittedIn
<1>9. FixedInv'
  <2> SUFFICES ASSUME algorithm = "fixed"
               PROVE  FixedInv'
    BY <1>1 DEF FixedInv
  <2>1. \A w \in DOMAIN counters' :
            /\ w \in DOMAIN counters /\ w \notin resetting.batch
            /\ counters'[w] = counters[w]
    BY <1>2
  <2>2. \A a \in admitted' : a \in admitted /\ a.window \notin resetting.batch
    BY <1>1
  <2>3. \A w \in DOMAIN counters', n \in 1..Limit : n <= counters'[w].value =>
            \/ \E a \in admitted' : a.window = w /\ a.nth = n
            \/ Start(w) + Window + Spread <= clock + MaxSkew
    <3> SUFFICES ASSUME NEW w \in DOMAIN counters', NEW n \in 1..Limit,
                        n <= counters'[w].value,
                        ~(Start(w) + Window + Spread <= clock + MaxSkew)
                 PROVE  \E a \in admitted' : a.window = w /\ a.nth = n
      OBVIOUS
    <3>1. PICK a \in admitted : a.window = w /\ a.nth = n
      BY <2>1 DEF Inv, FixedInv
    <3>2. a \in admitted'
      BY <1>1, <2>1, <3>1
    <3>3. QED
      BY <3>1, <3>2
  <2>4. Slack >= Spread => \A a \in admitted' :
            \/ /\ a.window \in DOMAIN counters'
               /\ a.nth <= counters'[a.window].value
            \/ Start(a.window) + Window + MaxSkew + MaxDelay <= clock
    BY <1>2, <2>2 DEF Inv, FixedInv
  <2>5. QED
    BY <1>1, <2>1, <2>2, <2>3, <2>4 DEF Inv, FixedInv
<1>10. QED
  BY <1>7, <1>8, <1>9 DEF Inv

-----------------------------------------------------------------------------
\* A tick: what expires, and what history forgets.

LEMMA TickFacts ==
    ASSUME Inv, Tick
    PROVE  /\ clock' = clock + 1 /\ clock \in Nat
           /\ UNCHANGED <<algorithm, sent>>
           /\ log' = log \/ (log' = NoLog /\ log.expires <= clock + 1)
           /\ seq' = seq \/ (seq' = Gone /\ seq.expires <= clock + 1)
           /\ swmax' = swmax \/ (swmax' = Gone /\ swmax.expires <= clock + 1)
           /\ pointer' = pointer \/ pointer' = Gone
           /\ log'.members # {} => log' = log /\ clock + 1 < log.expires
           /\ \A w \in DOMAIN counters' :
                 w \in DOMAIN counters /\ counters'[w] = counters[w]
           /\ \A w \in DOMAIN counters :
                 w \in DOMAIN counters' \/ counters[w].expires <= clock + 1
           /\ resetting' = [resetting EXCEPT !.left = @ \cap DOMAIN counters']
           /\ admitted' = {a \in admitted : clock + 1 - a.at < Window + Spread}
           /\ admitted' \subseteq admitted /\ IsFiniteSet(admitted')
<1>1. /\ clock \in Nat
      /\ log.expires \in Nat /\ seq.expires \in Nat /\ swmax.expires \in Nat
      /\ \A w \in DOMAIN counters : counters[w].expires \in Nat
  BY DEF Inv, Sane, TypeOK
<1>2. DOMAIN counters' =
          {w \in DOMAIN counters : counters[w].expires > clock + 1}
  BY DEF Tick, Only
<1>3. \A w \in DOMAIN counters' : counters'[w] = counters[w]
  BY DEF Tick, Only
<1>4. admitted' = {a \in admitted : clock + 1 - a.at < Window + Spread}
  BY DEF Tick
<1>5. IsFiniteSet(admitted')
  BY <1>4, FS_Subset DEF Inv, Sane
<1>6. resetting' = [resetting EXCEPT !.left = @ \cap DOMAIN counters']
  BY <1>2 DEF Tick
<1>7. /\ log' = IF log.expires > clock + 1 THEN log ELSE NoLog
      /\ seq' = IF seq.expires > clock + 1 THEN seq ELSE Gone
      /\ swmax' = IF swmax.expires > clock + 1 THEN swmax ELSE Gone
      /\ pointer' = pointer \/ pointer' = Gone
      /\ clock' = clock + 1
      /\ UNCHANGED <<algorithm, sent>>
  BY DEF Tick
<1>8. NoLog.members = {}
  BY DEF NoLog
<1>9. QED
  BY <1>1, <1>2, <1>3, <1>4, <1>5, <1>6, <1>7, <1>8

LEMMA TickSane ==
    ASSUME Inv, Tick
    PROVE  Sane'
<1>1. Sane /\ TypeOK
  BY DEF Inv, Sane
<1>2. IsFiniteSet({}) /\ Cardinality({}) = 0
  BY FS_EmptySet
<1>3. /\ resetting' = [resetting EXCEPT !.left = @ \cap DOMAIN counters']
      /\ DOMAIN counters' \subseteq DOMAIN counters
      /\ \A w \in DOMAIN counters' : counters'[w] = counters[w]
      /\ clock' = clock + 1 /\ clock \in Nat /\ UNCHANGED <<algorithm, sent>>
      /\ admitted' \subseteq admitted /\ IsFiniteSet(admitted')
  BY TickFacts
<1>4. /\ resetting' \in ResetState
      /\ resetting'.left = resetting.left \cap DOMAIN counters'
      /\ resetting'.phase = resetting.phase
      /\ resetting'.batch = resetting.batch
      /\ resetting'.last = resetting.last
  BY <1>1, <1>3 DEF Sane, ResetState
<1>5. \A c \in DOMAIN sent' :
          clock' - sent'[c].at <= MaxDelay /\ sent'[c].at <= clock'
  <2> SUFFICES ASSUME NEW c \in DOMAIN sent
               PROVE  clock' - sent[c].at <= MaxDelay /\ sent[c].at <= clock'
    BY <1>3
  <2>1. /\ clock - sent[c].at < MaxDelay
        /\ sent[c].at \in Nat /\ sent[c].at <= clock
    BY <1>1 DEF Tick, Sane, TypeOK
  <2>2. QED
    BY <1>3, <2>1, ConstFacts
<1>6. /\ log' = [members |-> log'.members, expires |-> log'.expires]
      /\ log'.expires \in Nat /\ log'.expires <= clock' + TTL
      /\ log'.members \subseteq [score : Nat, seq : Nat]
      /\ IsFiniteSet(log'.members) /\ Cardinality(log'.members) <= Limit
  <2>1. CASE log' = log
    BY <1>1, <1>3, <2>1, ConstFacts DEF Sane, TypeOK
  <2>2. CASE log' = NoLog
    <3>1. log' = [members |-> {}, expires |-> 0]
      BY <2>2 DEF NoLog
    <3>2. log'.members = {} /\ log'.expires = 0
      BY <3>1
    <3>3. 0 <= clock' + TTL /\ 0 <= Limit
      BY <1>3, ConstFacts
    <3>4. QED
      BY <1>2, <3>1, <3>2, <3>3
  <2>3. QED
    BY <2>1, <2>2, TickFacts
<1>7. /\ seq' \in [value : Nat, expires : Nat]
      /\ swmax' \in [value : Nat, expires : Nat]
      /\ pointer' \in [value : Nat, expires : Nat]
      /\ swmax'.value \in {0, Limit}
  BY <1>1, TickFacts DEF Sane, TypeOK, Gone
<1>8. log'.members # {} =>
          /\ clock' < log'.expires
          /\ seq'.expires = log'.expires /\ log'.expires <= swmax'.expires
          /\ seq' # Gone /\ swmax' # Gone
  <2> SUFFICES ASSUME log'.members # {}
               PROVE  /\ clock' < log'.expires
                      /\ seq'.expires = log'.expires
                      /\ log'.expires <= swmax'.expires
                      /\ seq' # Gone /\ swmax' # Gone
    OBVIOUS
  <2>1. log' = log /\ clock + 1 < log.expires
    BY TickFacts
  <2>2. seq.expires = log.expires /\ log.expires <= swmax.expires
    BY <1>1, <2>1 DEF Sane
  <2>3. /\ seq.expires \in Nat /\ swmax.expires \in Nat /\ log.expires \in Nat
    BY <1>1 DEF TypeOK
  <2>4. seq' = seq /\ swmax' = swmax
    BY <1>3, <2>1, <2>2, <2>3, TickFacts
  <2>5. Gone.expires = 0
    BY DEF Gone
  <2>6. QED
    BY <1>3, <2>1, <2>2, <2>3, <2>4, <2>5
<1>9. \A a \in admitted' :
          a \in [at : Nat, window : Nat, nth : Nat] /\ a.at <= clock'
  BY <1>1, <1>3 DEF Sane, TypeOK
<1>10. TypeOK'
  BY <1>1, <1>3, <1>4, <1>6, <1>7, <1>8, <1>9 DEF TypeOK
<1>11. clock' >= MaxSkew + Window
  BY <1>1, <1>3, ConstFacts DEF Sane
<1>12. QED
  BY <1>1, <1>3, <1>4, <1>5, <1>6, <1>7, <1>8, <1>9, <1>10, <1>11 DEF Sane

LEMMA TickSliding ==
    ASSUME Inv, Tick, algorithm = "sliding"
    PROVE  SlidingInv'
<1>1. /\ clock' = clock + 1 /\ clock \in Nat /\ algorithm' = "sliding"
      /\ log'.members # {} => log' = log /\ clock + 1 < log.expires
      /\ seq' = seq \/ (seq' = Gone /\ seq.expires <= clock + 1)
      /\ admitted' = {a \in admitted : clock + 1 - a.at < Window + Spread}
      /\ admitted' \subseteq admitted
      /\ pointer' = Gone
  BY TickFacts DEF Inv, SlidingInv
<1>2. /\ \A a \in admitted : a.at \in Nat /\ a.at <= clock /\ a.nth \in Nat
      /\ seq.expires \in Nat /\ seq.value \in Nat /\ log.expires \in Nat
      /\ \A m \in log.members : m.score \in Nat /\ m.seq \in Nat
  BY DEF Inv, Sane, TypeOK
<1>3. log'.members # {} => log' = log /\ seq' = seq
  BY <1>1, <1>2 DEF Inv, Sane
<1>4. \A m \in log'.members :
          \/ \E a \in admitted' : a.nth = m.seq /\ m.score <= a.at + MaxSkew
          \/ m.score + Window + Spread <= clock' + MaxSkew
  <2> SUFFICES ASSUME NEW m \in log'.members,
                      ~(m.score + Window + Spread <= clock' + MaxSkew)
               PROVE  \E a \in admitted' :
                          a.nth = m.seq /\ m.score <= a.at + MaxSkew
    OBVIOUS
  <2>1. m \in log.members /\ m.score \in Nat
    BY <1>2, <1>3
  <2>2. ~(m.score + Window + Spread <= clock + MaxSkew)
    BY <1>1, <2>1, ConstFacts
  <2>3. PICK a \in admitted : a.nth = m.seq /\ m.score <= a.at + MaxSkew
    BY <2>1, <2>2 DEF Inv, SlidingInv
  <2>4. clock + 1 - a.at < Window + Spread
    BY <1>1, <1>2, <2>1, <2>3, ConstFacts
  <2>5. QED
    BY <1>1, <2>3, <2>4
<1>5. ASSUME Slack >= Spread
      PROVE  /\ \A a \in admitted' :
                   /\ a.nth <= seq'.value /\ a.at + TTL <= seq'.expires
                   /\ Held(a)' \/ a.at + Window <= clock' + Spread
             /\ \A a, b \in admitted' : a.nth = b.nth => a = b
             /\ SlidingBound'
  <2>1. \A a \in admitted : /\ a.nth <= seq.value /\ a.at + TTL <= seq.expires
                            /\ Held(a) \/ a.at + Window <= clock + Spread
    BY <1>5 DEF Inv, SlidingInv
  <2>2. ASSUME NEW a \in admitted' PROVE seq' = seq
    <3>1. clock + 1 < a.at + TTL
      BY <1>1, <1>2, <1>5, ConstFacts
    <3>2. QED
      BY <1>1, <1>2, <2>1, <3>1, ConstFacts
  <2>3. ASSUME NEW a \in admitted'
        PROVE  Held(a)' \/ a.at + Window <= clock' + Spread
    <3>1. CASE a.at + Window <= clock + Spread
      BY <1>1, <1>2, <3>1, ConstFacts
    <3>2. CASE Held(a)
      <4>1. log.members # {}
        BY <3>2 DEF Held
      <4>2. seq.expires = log.expires
        BY <4>1 DEF Inv, Sane
      <4>3. a.at + TTL <= log.expires /\ clock + 1 < a.at + TTL
        BY <1>1, <1>2, <1>5, <2>1, <4>2, ConstFacts
      <4>4. clock + 1 < log.expires
        BY <1>1, <1>2, <4>3, ConstFacts
      <4>5. log' = log
        BY <1>1, <1>2, <4>4, TickFacts
      <4>6. QED
        BY <3>2, <4>5 DEF Held
    <3>3. QED
      BY <1>1, <2>1, <3>1, <3>2
  <2>4. SlidingBound'
    <3> SUFFICES ASSUME NEW b \in admitted'
                 PROVE  Cardinality(AdmittedIn(Window - Spread - 1, b.at)')
                            <= Limit
      BY DEF SlidingBound
    <3>1. AdmittedIn(Window - Spread - 1, b.at)'
              \in SUBSET AdmittedIn(Window - Spread - 1, b.at)
      BY <1>1 DEF AdmittedIn
    <3>2. IsFiniteSet(AdmittedIn(Window - Spread - 1, b.at))
      BY FS_Subset DEF AdmittedIn, Inv, Sane
    <3>3. Cardinality(AdmittedIn(Window - Spread - 1, b.at)) <= Limit
      BY <1>1, <1>5 DEF Inv, SlidingInv, SlidingBound
    <3>4. /\ Cardinality(AdmittedIn(Window - Spread - 1, b.at)')
                 <= Cardinality(AdmittedIn(Window - Spread - 1, b.at))
          /\ IsFiniteSet(AdmittedIn(Window - Spread - 1, b.at)')
      BY <3>1, <3>2, FS_Subset
    <3>5. /\ Cardinality(AdmittedIn(Window - Spread - 1, b.at)') \in Nat
          /\ Cardinality(AdmittedIn(Window - Spread - 1, b.at)) \in Nat
      BY <3>2, <3>4, FS_CardinalityType
    <3>6. QED
      BY <3>3, <3>4, <3>5, ConstFacts
  <2>5. QED
    BY <1>1, <1>5, <2>1, <2>2, <2>3, <2>4 DEF Inv, SlidingInv
<1>6. QED
  BY <1>1, <1>3, <1>4, <1>5 DEF Inv, SlidingInv

LEMMA TickFixed ==
    ASSUME Inv, Tick, algorithm = "fixed"
    PROVE  FixedInv'
<1>1. /\ clock' = clock + 1 /\ clock \in Nat /\ algorithm' = "fixed"
      /\ \A w \in DOMAIN counters' :
            w \in DOMAIN counters /\ counters'[w] = counters[w]
      /\ \A w \in DOMAIN counters :
            w \in DOMAIN counters' \/ counters[w].expires <= clock + 1
      /\ pointer' = pointer \/ pointer' = Gone
      /\ admitted' = {a \in admitted : clock + 1 - a.at < Window + Spread}
      /\ admitted' \subseteq admitted
  BY TickFacts
<1>2. /\ \A a \in admitted : a.at \in Nat /\ a.window \in Nat /\ a.nth \in Nat
      /\ \A w \in DOMAIN counters :
            /\ w \in Nat /\ Start(w) \in Nat
            /\ counters[w].expires \in Nat /\ counters[w].value \in Nat
  BY StartType, ConstFacts DEF Inv, Sane, TypeOK
<1>3. \A w \in DOMAIN counters', n \in 1..Limit : n <= counters'[w].value =>
          \/ \E a \in admitted' : a.window = w /\ a.nth = n
          \/ Start(w) + Window + Spread <= clock' + MaxSkew
  <2> SUFFICES ASSUME NEW w \in DOMAIN counters', NEW n \in 1..Limit,
                      n <= counters'[w].value,
                      ~(Start(w) + Window + Spread <= clock' + MaxSkew)
               PROVE  \E a \in admitted' : a.window = w /\ a.nth = n
    OBVIOUS
  <2>1. w \in DOMAIN counters /\ n <= counters[w].value
    BY <1>1
  <2>2. ~(Start(w) + Window + Spread <= clock + MaxSkew)
    BY <1>1, <1>2, <2>1, ConstFacts
  <2>3. PICK a \in admitted : a.window = w /\ a.nth = n
    BY <2>1, <2>2 DEF Inv, FixedInv
  <2>4. Start(w) <= a.at + MaxSkew
    BY <2>3 DEF Inv, FixedInv
  <2>5. clock + 1 - a.at < Window + Spread
    BY <1>1, <1>2, <2>1, <2>4, ConstFacts
  <2>6. QED
    BY <1>1, <2>3, <2>5
<1>4. ASSUME Slack >= Spread, NEW a \in admitted'
      PROVE  \/ /\ a.window \in DOMAIN counters'
                /\ a.nth <= counters'[a.window].value
             \/ Start(a.window) + Window + MaxSkew + MaxDelay <= clock'
  <2>1. CASE /\ a.window \in DOMAIN counters
             /\ a.nth <= counters[a.window].value
    <3>1. CASE a.window \in DOMAIN counters'
      BY <1>1, <2>1, <3>1
    <3>2. CASE a.window \notin DOMAIN counters'
      <4>1. counters[a.window].expires <= clock + 1
        BY <1>1, <2>1, <3>2
      <4>2. Start(a.window) + TTL <= counters[a.window].expires + MaxSkew
        BY <2>1 DEF Inv, FixedInv
      <4>3. QED
        BY <1>1, <1>2, <1>4, <2>1, <4>1, <4>2, ConstFacts
    <3>3. QED
      BY <3>1, <3>2
  <2>2. CASE Start(a.window) + Window + MaxSkew + MaxDelay <= clock
    <3>1. Start(a.window) \in Nat
      BY <1>1, <1>2, StartType
    <3>2. QED
      BY <1>1, <2>2, <3>1, ConstFacts
  <2>3. QED
    BY <1>1, <1>4, <2>1, <2>2 DEF Inv, FixedInv
<1>5. \A w \in DOMAIN counters' :
          /\ Start(w) <= clock' + MaxSkew
          /\ Start(w) + TTL <= counters'[w].expires + MaxSkew
  <2> SUFFICES ASSUME NEW w \in DOMAIN counters'
               PROVE  /\ Start(w) <= clock' + MaxSkew
                      /\ Start(w) + TTL <= counters'[w].expires + MaxSkew
    OBVIOUS
  <2>1. /\ w \in DOMAIN counters /\ Start(w) <= clock + MaxSkew
        /\ Start(w) + TTL <= counters[w].expires + MaxSkew
    BY <1>1 DEF Inv, FixedInv
  <2>2. QED
    BY <1>1, <1>2, <2>1, ConstFacts
<1>6. QED
  BY <1>1, <1>3, <1>4, <1>5 DEF Inv, FixedInv

LEMMA TickInv ==
    ASSUME Inv, Tick
    PROVE  Inv'
<1>1. algorithm' = algorithm
  BY DEF Tick
<1>2. SlidingInv'
  BY <1>1, TickSliding DEF SlidingInv
<1>3. FixedInv'
  BY <1>1, TickFixed DEF FixedInv
<1>4. QED
  BY <1>2, <1>3, TickSane DEF Inv

-----------------------------------------------------------------------------
\* The sliding window's script.

LEMMA PrunedFacts ==
    ASSUME Inv, NEW now \in Nat
    PROVE  /\ Pruned(now) \subseteq log.members
           /\ IsFiniteSet(Pruned(now))
           /\ Cardinality(Pruned(now)) \in Nat
           /\ Cardinality(Pruned(now)) <= Limit
<1>1. IsFiniteSet(log.members) /\ Cardinality(log.members) <= Limit
  BY DEF Inv, Sane, TypeOK
<1>2. Pruned(now) \in SUBSET log.members
  BY DEF Pruned
<1>3. /\ IsFiniteSet(Pruned(now))
      /\ Cardinality(Pruned(now)) <= Cardinality(log.members)
  BY <1>1, <1>2, FS_Subset
<1>4. Cardinality(Pruned(now)) \in Nat /\ Cardinality(log.members) \in Nat
  BY <1>1, <1>3, FS_CardinalityType
<1>5. QED
  BY <1>1, <1>2, <1>3, <1>4, ConstFacts

LEMMA PrunedScores ==
    ASSUME Inv, NEW now \in Nat
    PROVE  /\ \A m \in Pruned(now) : m.score > now - Window
           /\ \A m \in log.members :
                 m \in Pruned(now) \/ m.score <= now - Window
<1>1. \A m \in log.members : m.score \in Nat
  BY DEF Inv, Sane, TypeOK
<1>2. now - Window \in Int
  BY ConstFacts
<1>3. \A m \in log.members : m.score > now - Window \/ m.score <= now - Window
  BY <1>1, <1>2
<1>4. QED
  BY <1>3 DEF Pruned

\* One more element is one more at most.
LEMMA OneMore ==
    ASSUME NEW S, IsFiniteSet(S), NEW x
    PROVE  /\ IsFiniteSet(S \cup {x})
           /\ Cardinality(S) \in Nat
           /\ Cardinality(S \cup {x}) \in Nat
           /\ Cardinality(S \cup {x}) <= Cardinality(S) + 1
<1>1. /\ IsFiniteSet(S \cup {x})
      /\ Cardinality(S \cup {x}) =
             IF x \in S THEN Cardinality(S) ELSE Cardinality(S) + 1
  BY FS_AddElement
<1>2. Cardinality(S) \in Nat
  BY FS_CardinalityType
<1>3. QED
  BY <1>1, <1>2

\* With enough slack, the requests admitted in the time a window and the spread
\* leave are in the log, and a script does not prune them.
LEMMA RecentHeld ==
    ASSUME Inv, algorithm = "sliding", Slack >= Spread, NEW now \in Nat,
           now <= clock + MaxSkew,
           NEW a \in AdmittedIn(Window - Spread - 1, clock)
    PROVE  \E m \in Pruned(now) : m.seq = a.nth
<1>1. /\ a \in admitted /\ a.at <= clock
      /\ a.at >= clock - (Window - Spread - 1)
      /\ a.at \in Nat /\ clock \in Nat
  BY DEF AdmittedIn, Inv, Sane, TypeOK
<1>2. Held(a)
  <2>1. ~(a.at + Window <= clock + Spread)
    BY <1>1, ConstFacts
  <2>2. QED
    BY <1>1, <2>1 DEF Inv, SlidingInv
<1>3. PICK m \in log.members :
          m.seq = a.nth /\ a.at - MaxSkew - MaxDelay <= m.score
  BY <1>2 DEF Held
<1>4. m.score \in Nat
  BY DEF Inv, Sane, TypeOK
<1>5. m.score > now - Window
  BY <1>1, <1>3, <1>4, ConstFacts
<1>6. QED
  BY <1>3, <1>5 DEF Pruned

LEMMA RecentCount ==
    ASSUME Inv, algorithm = "sliding", Slack >= Spread, NEW now \in Nat,
           now <= clock + MaxSkew
    PROVE  /\ IsFiniteSet(AdmittedIn(Window - Spread - 1, clock))
           /\ Cardinality(AdmittedIn(Window - Spread - 1, clock))
                  <= Cardinality(Pruned(now))
<1>1. \A a, b \in AdmittedIn(Window - Spread - 1, clock) :
          a.nth = b.nth => a = b
  BY DEF AdmittedIn, Inv, SlidingInv
<1>2. QED
  BY <1>1, RecentHeld, PrunedFacts, MembersCount

LEMMA SlidingAdmitInv ==
    ASSUME Inv, NEW c \in Caller, SlidingAdmit(c)
    PROVE  Inv'
<1> DEFINE now == sent[c].now
           m0 == [score |-> now, seq |-> seq.value + 1]
           a0 == [at |-> clock, window |-> 0, nth |-> seq.value + 1]
<1>1. /\ algorithm = "sliding" /\ algorithm' = "sliding"
      /\ Cardinality(Pruned(now)) < Limit
      /\ seq' = [value |-> seq.value + 1, expires |-> clock + TTL]
      /\ log' = [members |-> Pruned(now) \cup {m0}, expires |-> clock + TTL]
      /\ swmax' = [value |-> Limit, expires |-> clock + TTL]
      /\ admitted' = admitted \cup {a0}
      /\ UNCHANGED <<clock, counters, pointer, resetting>>
  BY DEF SlidingAdmit, Admits, Member, LimitRecorded, Remembered
<1>2. /\ now \in Nat /\ Window <= now /\ now <= clock + MaxSkew
      /\ clock <= now + MaxSkew + MaxDelay
  BY ReadingFacts DEF Inv, SlidingAdmit
<1>3. /\ clock \in Nat /\ seq.value \in Nat /\ seq.expires \in Nat
      /\ \A a \in admitted : a.at \in Nat /\ a.at <= clock /\ a.nth \in Nat
      /\ \A m \in log.members : m.score \in Nat /\ m.seq \in Nat
      /\ clock >= MaxSkew + Window
  BY DEF Inv, Sane, TypeOK
<1>4. /\ DOMAIN sent' \subseteq DOMAIN sent
      /\ \A x \in DOMAIN sent' : sent'[x] = sent[x]
  BY ArrivedFacts DEF SlidingAdmit, Inv
<1>5. /\ Pruned(now) \subseteq log.members /\ IsFiniteSet(Pruned(now))
      /\ \A m \in Pruned(now) : m.score > now - Window
      /\ \A m \in log.members : m \in Pruned(now) \/ m.score <= now - Window
      /\ Cardinality(Pruned(now)) \in Nat
  BY <1>2, PrunedFacts, PrunedScores
<1> HIDE DEF now
<1>6. /\ IsFiniteSet(log'.members) /\ Cardinality(log'.members) <= Limit
      /\ log'.members = Pruned(now) \cup {m0}
      /\ log'.expires = clock + TTL /\ clock + TTL \in Nat
  <2>1. log'.members = Pruned(now) \cup {m0} /\ log'.expires = clock + TTL
    BY <1>1
  <2>2. /\ IsFiniteSet(Pruned(now) \cup {m0})
        /\ Cardinality(Pruned(now) \cup {m0}) \in Nat
        /\ Cardinality(Pruned(now) \cup {m0}) <= Cardinality(Pruned(now)) + 1
    BY <1>5, OneMore
  <2>3. QED
    BY <1>1, <1>3, <1>5, <2>1, <2>2, ConstFacts
<1>7. IsFiniteSet(admitted')
  BY <1>1, FS_AddElement DEF Inv, Sane
<1>8. TypeOK'
  <2>1. log'.members \subseteq [score : Nat, seq : Nat]
    BY <1>2, <1>3, <1>5, <1>6 DEF Inv, Sane, TypeOK
  <2>2. /\ seq' \in [value : Nat, expires : Nat] /\ seq' # Gone
        /\ swmax' \in [value : Nat, expires : Nat] /\ swmax' # Gone
    <3>1. seq'.value # 0 /\ swmax'.value # 0
      BY <1>1, <1>3, ConstFacts
    <3>2. Gone.value = 0
      BY DEF Gone
    <3>3. QED
      BY <1>1, <1>3, <1>6, <3>1, <3>2, ConstFacts
  <2>3. admitted' \subseteq [at : Nat, window : Nat, nth : Nat]
    BY <1>1, <1>3 DEF Inv, Sane, TypeOK
  <2>4. QED
    BY <1>1, <1>4, <1>6, <2>1, <2>2, <2>3 DEF Inv, Sane, TypeOK
<1>9. Sane'
  <2>1. /\ clock' < log'.expires /\ seq'.expires = log'.expires
        /\ log'.expires <= swmax'.expires /\ swmax'.value = Limit
        /\ log'.expires <= clock' + TTL
    BY <1>1, <1>3, <1>6, ConstFacts
  <2>2. \A a \in admitted' : a.at <= clock'
    BY <1>1, <1>3
  <2>3. log' = [members |-> log'.members, expires |-> log'.expires]
    BY <1>1
  <2>4. QED
    BY <1>1, <1>4, <1>6, <1>7, <1>8, <2>1, <2>2, <2>3 DEF Inv, Sane
<1>10. \A m \in log'.members :
           \/ \E a \in admitted' : a.nth = m.seq /\ m.score <= a.at + MaxSkew
           \/ m.score + Window + Spread <= clock' + MaxSkew
  <2> SUFFICES ASSUME NEW m \in log'.members
               PROVE  \/ \E a \in admitted' :
                            a.nth = m.seq /\ m.score <= a.at + MaxSkew
                      \/ m.score + Window + Spread <= clock + MaxSkew
    BY <1>1
  <2>1. CASE m = m0
    <3>1. a0 \in admitted' /\ a0.nth = m.seq /\ m.score <= a0.at + MaxSkew
      BY <1>1, <1>2, <2>1
    <3>2. QED
      BY <3>1
  <2>2. CASE m \in Pruned(now)
    <3>1. m \in log.members
      BY <1>5, <2>2
    <3>2. \/ \E a \in admitted : a.nth = m.seq /\ m.score <= a.at + MaxSkew
          \/ m.score + Window + Spread <= clock + MaxSkew
      BY <1>1, <3>1 DEF Inv, SlidingInv
    <3>3. \A a \in admitted : a \in admitted'
      BY <1>1
    <3>4. QED
      BY <3>2, <3>3
  <2>3. QED
    BY <1>6, <2>1, <2>2
<1>11. /\ \A m \in log'.members : m.seq <= seq'.value
       /\ \A m, n \in log'.members : m.seq = n.seq => m = n
  <2>1. \A m \in Pruned(now) : m.seq \in Nat /\ m.seq <= seq.value
    BY <1>1, <1>3, <1>5 DEF Inv, SlidingInv
  <2>2. \A m, n \in Pruned(now) : m.seq = n.seq => m = n
    BY <1>1, <1>5 DEF Inv, SlidingInv
  <2>3. m0.seq = seq.value + 1 /\ seq'.value = seq.value + 1
    BY <1>1
  <2>4. QED
    BY <1>3, <1>6, <2>1, <2>2, <2>3
<1>12. ASSUME Slack >= Spread
       PROVE  /\ \A a \in admitted' :
                    /\ a.nth <= seq'.value /\ a.at + TTL <= seq'.expires
                    /\ Held(a)' \/ a.at + Window <= clock' + Spread
              /\ \A a, b \in admitted' : a.nth = b.nth => a = b
              /\ SlidingBound'
  <2>1. \A a \in admitted : /\ a.nth <= seq.value /\ a.at + TTL <= seq.expires
                            /\ Held(a) \/ a.at + Window <= clock + Spread
    BY <1>1, <1>12 DEF Inv, SlidingInv
  <2>2. \A a \in admitted' : a.nth <= seq'.value /\ a.at + TTL <= seq'.expires
    BY <1>1, <1>3, <2>1, ConstFacts
  <2>3. ASSUME NEW a \in admitted'
        PROVE  Held(a)' \/ a.at + Window <= clock' + Spread
    <3>1. CASE a = a0
      <4>1. m0 \in log'.members /\ m0.seq = a.nth
        BY <1>6, <3>1
      <4>2. a.at - MaxSkew - MaxDelay <= m0.score
        BY <1>2, <1>3, <3>1, ConstFacts
      <4>3. QED
        BY <4>1, <4>2 DEF Held
    <3>2. CASE a \in admitted /\ a.at + Window <= clock + Spread
      BY <1>1, <3>2
    <3>3. CASE a \in admitted /\ Held(a)
      <4>1. PICK m \in log.members :
                m.seq = a.nth /\ a.at - MaxSkew - MaxDelay <= m.score
        BY <3>3 DEF Held
      <4>2. CASE m \in Pruned(now)
        BY <1>6, <4>1, <4>2 DEF Held
      <4>3. CASE m.score <= now - Window
        BY <1>1, <1>2, <1>3, <3>3, <4>1, <4>3, ConstFacts
      <4>4. QED
        BY <1>5, <4>2, <4>3
    <3>4. QED
      BY <1>1, <2>1, <3>1, <3>2, <3>3
  <2>4. \A a, b \in admitted' : a.nth = b.nth => a = b
    <3>1. \A a, b \in admitted : a.nth = b.nth => a = b
      BY <1>1, <1>12 DEF Inv, SlidingInv
    <3>2. a0.nth = seq.value + 1
      OBVIOUS
    <3>3. QED
      BY <1>1, <1>3, <2>1, <3>1, <3>2
  <2>5. SlidingBound'
    <3> DEFINE D == Window - Spread - 1
    <3> SUFFICES ASSUME NEW b \in admitted'
                 PROVE  Cardinality(AdmittedIn(D, b.at)') <= Limit
      BY DEF SlidingBound
    <3>1. CASE b.at < clock
      <4>1. b \in admitted
        BY <1>1, <1>3, <3>1
      <4>2. AdmittedIn(D, b.at)' = AdmittedIn(D, b.at)
        <5>1. ~(a0.at <= b.at)
          BY <1>3, <3>1, <4>1
        <5>2. QED
          BY <1>1, <5>1 DEF AdmittedIn
      <4>3. Cardinality(AdmittedIn(D, b.at)) <= Limit
        BY <1>1, <1>12, <4>1 DEF Inv, SlidingInv, SlidingBound
      <4>4. QED
        BY <4>2, <4>3
    <3>2. CASE b.at = clock
      <4> DEFINE A == AdmittedIn(D, clock)
      <4>1. IsFiniteSet(A) /\ Cardinality(A) <= Cardinality(Pruned(now))
        BY <1>1, <1>2, <1>12, RecentCount
      <4>2. AdmittedIn(D, b.at)' \in SUBSET (A \cup {a0})
        BY <1>1, <3>2 DEF AdmittedIn
      <4> HIDE DEF A
      <4>3. /\ IsFiniteSet(A \cup {a0})
            /\ Cardinality(A \cup {a0}) <= Cardinality(A) + 1
            /\ Cardinality(A) \in Nat
        BY <4>1, OneMore
      <4>4. /\ Cardinality(AdmittedIn(D, b.at)') <= Cardinality(A \cup {a0})
            /\ IsFiniteSet(AdmittedIn(D, b.at)')
        BY <4>2, <4>3, FS_Subset
      <4>5. /\ Cardinality(AdmittedIn(D, b.at)') \in Nat
            /\ Cardinality(A \cup {a0}) \in Nat
        BY <4>3, <4>4, FS_CardinalityType
      <4>6. QED
        BY <1>1, <1>5, <4>1, <4>3, <4>4, <4>5, ConstFacts
    <3>3. b.at <= clock /\ b.at \in Nat
      BY <1>1, <1>3
    <3>4. QED
      BY <1>3, <3>1, <3>2, <3>3
  <2>6. QED
    BY <2>2, <2>3, <2>4, <2>5
<1>13. \A a \in admitted' : a.window = 0
  BY <1>1 DEF Inv, SlidingInv
<1>14. SlidingInv'
  BY <1>1, <1>10, <1>11, <1>12, <1>13 DEF Inv, SlidingInv
<1>15. FixedInv'
  BY <1>1 DEF FixedInv
<1>16. QED
  BY <1>9, <1>14, <1>15 DEF Inv

LEMMA SlidingDenyInv ==
    ASSUME Inv, NEW c \in Caller, SlidingDeny(c)
    PROVE  Inv'
<1> DEFINE now == sent[c].now
<1>1. /\ algorithm = "sliding" /\ algorithm' = "sliding"
      /\ log' = IF Pruned(now) = {} THEN NoLog
                ELSE [log EXCEPT !.members = Pruned(now)]
      /\ swmax' = [value |-> Limit, expires |-> clock + TTL]
      /\ UNCHANGED <<clock, seq, counters, pointer, resetting, admitted>>
  BY DEF SlidingDeny, LimitRecorded
<1>2. now \in Nat /\ now <= clock + MaxSkew
  BY ReadingFacts DEF Inv, SlidingDeny
<1>3. /\ clock \in Nat /\ clock + TTL \in Nat /\ log.expires \in Nat
      /\ \A a \in admitted : a.at \in Nat
      /\ \A m \in log.members : m.score \in Nat
      /\ log = [members |-> log.members, expires |-> log.expires]
      /\ log.expires <= clock + TTL
  BY ConstFacts DEF Inv, Sane, TypeOK
<1>4. /\ DOMAIN sent' \subseteq DOMAIN sent
      /\ \A x \in DOMAIN sent' : sent'[x] = sent[x]
  BY ArrivedFacts DEF SlidingDeny, Inv
<1>5. /\ Pruned(now) \subseteq log.members /\ IsFiniteSet(Pruned(now))
      /\ \A m \in log.members : m \in Pruned(now) \/ m.score <= now - Window
      /\ Cardinality(Pruned(now)) <= Limit
  BY <1>2, PrunedFacts, PrunedScores
<1> HIDE DEF now
<1>6. /\ log'.members = Pruned(now)
      /\ log' = [members |-> log'.members, expires |-> log'.expires]
      /\ log'.expires \in Nat /\ log'.expires <= clock + TTL
      /\ log'.members # {} => log'.expires = log.expires /\ log.members # {}
  <2>1. CASE Pruned(now) = {}
    <3>1. log' = [members |-> {}, expires |-> 0]
      BY <1>1, <2>1 DEF NoLog
    <3>2. QED
      BY <1>3, <2>1, <3>1
  <2>2. CASE Pruned(now) # {}
    <3>1. log' = [members |-> Pruned(now), expires |-> log.expires]
      BY <1>1, <1>3, <2>2
    <3>2. QED
      BY <1>3, <1>5, <2>2, <3>1
  <2>3. QED
    BY <2>1, <2>2
<1>7. /\ swmax' \in [value : Nat, expires : Nat] /\ swmax' # Gone
      /\ swmax'.value = Limit /\ swmax'.expires = clock + TTL
  <2>1. swmax'.value # 0 /\ Gone.value = 0
    BY <1>1, ConstFacts DEF Gone
  <2>2. QED
    BY <1>1, <1>3, <2>1, ConstFacts
<1>8. TypeOK'
  BY <1>1, <1>4, <1>5, <1>6, <1>7 DEF Inv, Sane, TypeOK
<1>9. Sane'
  <2>1. log'.members # {} => /\ clock' < log'.expires
                             /\ seq'.expires = log'.expires
                             /\ log'.expires <= swmax'.expires
    BY <1>1, <1>6, <1>7 DEF Inv, Sane
  <2>2. QED
    BY <1>1, <1>4, <1>5, <1>6, <1>7, <1>8, <2>1 DEF Inv, Sane
<1>10. ASSUME Slack >= Spread, NEW a \in admitted
       PROVE  Held(a)' \/ a.at + Window <= clock' + Spread
  <2>1. CASE a.at + Window <= clock + Spread
    BY <1>1, <2>1
  <2>2. CASE Held(a)
    <3>1. PICK m \in log.members :
              m.seq = a.nth /\ a.at - MaxSkew - MaxDelay <= m.score
      BY <2>2 DEF Held
    <3>2. CASE m \in Pruned(now)
      BY <1>6, <3>1, <3>2 DEF Held
    <3>3. CASE m.score <= now - Window
      BY <1>1, <1>2, <1>3, <3>1, <3>3, ConstFacts
    <3>4. QED
      BY <1>5, <3>2, <3>3
  <2>3. QED
    BY <1>1, <1>10, <2>1, <2>2 DEF Inv, SlidingInv
<1>11. SlidingBound' <=> SlidingBound
  BY <1>1 DEF SlidingBound, AdmittedIn
<1>12. SlidingInv'
  BY <1>1, <1>5, <1>6, <1>10, <1>11 DEF Inv, SlidingInv
<1>13. FixedInv'
  BY <1>1 DEF FixedInv
<1>14. QED
  BY <1>9, <1>12, <1>13 DEF Inv

-----------------------------------------------------------------------------
\* The fixed window's script.

LEMMA CheckFacts ==
    ASSUME Inv, NEW c \in Caller, FixedCheck(c)
    PROVE  LET now == sent[c].now
               w == WindowId(now)
               n == NextCount(w)
           IN  /\ w \in Nat \ {0} /\ Start(w) \in Nat
               /\ Start(w) <= clock + MaxSkew
               /\ clock < Start(w) + Window + MaxSkew + MaxDelay
               /\ n \in 1..Limit + 1
               /\ n = 1 <=> w \notin DOMAIN counters
               /\ w \in DOMAIN counters =>
                      \/ n = counters[w].value + 1
                      \/ n = counters[w].value /\ n = Limit + 1
<1> DEFINE now == sent[c].now
           w == WindowId(now)
           n == NextCount(w)
<1>1. /\ now \in Nat /\ Window <= now /\ now <= clock + MaxSkew
      /\ clock <= now + MaxSkew + MaxDelay
  BY ReadingFacts DEF Inv, FixedCheck
<1> HIDE DEF now
<1>2. /\ w \in Nat /\ w # 0 /\ Start(w) <= now /\ now < Start(w) + Window
  BY <1>1, ReadingInWindow, WindowNotZero
<1>3. Start(w) \in Nat
  BY <1>2, StartType
<1> HIDE DEF w
<1>4. clock \in Nat
  BY DEF Inv, Sane, TypeOK
<1>5. /\ Start(w) <= clock + MaxSkew
      /\ clock < Start(w) + Window + MaxSkew + MaxDelay
  BY <1>1, <1>2, <1>3, <1>4, ConstFacts
<1>6. CASE w \in DOMAIN counters
  <2>1. counters[w].value \in 1..Limit + 1
    BY <1>6 DEF Inv, Sane, TypeOK
  <2>2. n = IF counters[w].value <= Limit THEN counters[w].value + 1
                                          ELSE Limit + 1
    BY <1>6 DEF NextCount, CounterOf
  <2>3. /\ n \in 1..Limit + 1 /\ n # 1
        /\ \/ n = counters[w].value + 1
           \/ n = counters[w].value /\ n = Limit + 1
    BY <2>1, <2>2, ConstFacts
  <2>4. QED
    BY <1>2, <1>3, <1>5, <1>6, <2>3 DEF now, w
<1>7. CASE w \notin DOMAIN counters
  <2>1. n = 1
    BY <1>7, ConstFacts DEF NextCount, CounterOf, Gone
  <2>2. QED
    BY <1>2, <1>3, <1>5, <1>7, <2>1, ConstFacts DEF now, w
<1>8. QED
  BY <1>6, <1>7

LEMMA FixedCheckInv ==
    ASSUME Inv, NEW c \in Caller, FixedCheck(c)
    PROVE  Inv'
<1> DEFINE w == WindowId(sent[c].now)
           n == NextCount(w)
           a0 == [at |-> clock, window |-> w, nth |-> n]
<1>1. /\ algorithm = "fixed" /\ algorithm' = "fixed"
      /\ UNCHANGED <<clock, log, seq, swmax, resetting>>
      /\ admitted' = IF n <= Limit THEN admitted \cup {a0} ELSE admitted
  BY DEF FixedCheck, Remembered
<1>2. /\ w \in Nat \ {0} /\ Start(w) \in Nat
      /\ Start(w) <= clock + MaxSkew
      /\ clock < Start(w) + Window + MaxSkew + MaxDelay
      /\ n \in 1..Limit + 1
      /\ n = 1 <=> w \notin DOMAIN counters
      /\ w \in DOMAIN counters =>
             \/ n = counters[w].value + 1
             \/ n = counters[w].value /\ n = Limit + 1
  BY CheckFacts
<1>3. /\ DOMAIN counters' = DOMAIN counters \cup {w}
      /\ counters'[w] = [value |-> n,
                         expires |-> IF n = 1 THEN clock + TTL
                                              ELSE counters[w].expires]
      /\ \A x \in DOMAIN counters : x # w => counters'[x] = counters[x]
      /\ pointer' = IF n = 1 THEN [value |-> w, expires |-> clock + TTL]
                             ELSE pointer
  BY DEF FixedCheck, Incremented, CounterTTL, PointerTo
<1>4. /\ DOMAIN sent' \subseteq DOMAIN sent
      /\ \A x \in DOMAIN sent' : sent'[x] = sent[x]
  BY ArrivedFacts DEF FixedCheck, Inv
<1>5. /\ clock \in Nat /\ clock + TTL \in Nat
      /\ \A x \in DOMAIN counters : /\ counters[x].value \in 1..Limit + 1
                                    /\ counters[x].expires \in Nat
                                    /\ x \in Nat
      /\ \A a \in admitted : a.at \in Nat /\ a.at <= clock /\ a.nth \in Nat
  BY ConstFacts DEF Inv, Sane, TypeOK
<1> HIDE DEF w, n
<1>6. IsFiniteSet(admitted')
  <2>1. IsFiniteSet(admitted) /\ IsFiniteSet(admitted \cup {a0})
    BY FS_AddElement DEF Inv, Sane
  <2>2. QED
    BY <1>1, <2>1
<1>7. /\ counters'[w].value = n
      /\ counters'[w].expires \in Nat
      /\ \A x \in DOMAIN counters :
            counters'[x].expires = counters[x].expires
  <2>1. \A x \in DOMAIN counters :
            x = w => counters'[x].expires = counters[x].expires
    BY <1>2, <1>3
  <2>2. QED
    BY <1>2, <1>3, <1>5, <2>1
<1>8. TypeOK'
  <2>1. \A x \in DOMAIN counters' :
            counters'[x] \in [value : 1..Limit + 1, expires : Nat]
    <3>1. counters'[w] \in [value : 1..Limit + 1, expires : Nat]
      BY <1>2, <1>3, <1>7
    <3>2. QED
      BY <1>3, <3>1 DEF Inv, Sane, TypeOK
  <2>2. pointer' \in [value : Nat, expires : Nat]
    BY <1>2, <1>3, <1>5 DEF Inv, Sane, TypeOK
  <2>3. admitted' \subseteq [at : Nat, window : Nat, nth : Nat]
    BY <1>1, <1>2, <1>5, ConstFacts DEF Inv, Sane, TypeOK
  <2>4. resetting'.left \subseteq DOMAIN counters'
    BY <1>1, <1>3 DEF Inv, Sane, TypeOK
  <2>5. QED
    BY <1>1, <1>4, <2>1, <2>2, <2>3, <2>4 DEF Inv, Sane, TypeOK
<1>9. Sane'
  <2>1. DOMAIN counters' \subseteq Nat \ {0}
    BY <1>2, <1>3 DEF Inv, Sane
  <2>2. \A a \in admitted' : a.at <= clock'
    BY <1>1, <1>5
  <2>3. QED
    BY <1>1, <1>4, <1>6, <1>8, <2>1, <2>2 DEF Inv, Sane
<1>10. \A x \in DOMAIN counters' :
          /\ Start(x) <= clock' + MaxSkew
          /\ Start(x) + TTL <= counters'[x].expires + MaxSkew
  <2> SUFFICES ASSUME NEW x \in DOMAIN counters'
               PROVE  /\ Start(x) <= clock + MaxSkew
                      /\ Start(x) + TTL <= counters'[x].expires + MaxSkew
    BY <1>1
  <2>1. CASE x \in DOMAIN counters
    BY <1>1, <1>7, <2>1 DEF Inv, FixedInv
  <2>2. CASE x \notin DOMAIN counters
    <3>1. x = w /\ counters'[x].expires = clock + TTL
      BY <1>2, <1>3, <2>2
    <3>2. QED
      BY <1>2, <1>5, <3>1, ConstFacts
  <2>3. QED
    BY <2>1, <2>2
<1>11. ASSUME NEW x \in DOMAIN counters', NEW i \in 1..Limit,
              i <= counters'[x].value
       PROVE  \/ \E a \in admitted' : a.window = x /\ a.nth = i
              \/ Start(x) + Window + Spread <= clock' + MaxSkew
  <2>1. CASE x \in DOMAIN counters /\ i <= counters[x].value
    <3>1. \/ \E a \in admitted : a.window = x /\ a.nth = i
          \/ Start(x) + Window + Spread <= clock + MaxSkew
      BY <1>1, <2>1 DEF Inv, FixedInv
    <3>2. \A a \in admitted : a \in admitted'
      BY <1>1
    <3>3. QED
      BY <1>1, <3>1, <3>2
  <2>2. CASE ~(x \in DOMAIN counters /\ i <= counters[x].value)
    <3>1. x = w /\ i <= n
      BY <1>3, <1>7, <1>11, <2>2
    <3>2. i = n
      <4>1. CASE w \in DOMAIN counters
        BY <1>2, <1>5, <2>2, <3>1, <4>1, ConstFacts
      <4>2. CASE w \notin DOMAIN counters
        BY <1>2, <3>1, <4>2
      <4>3. QED
        BY <4>1, <4>2
    <3>3. a0 \in admitted' /\ a0.window = x /\ a0.nth = i
      BY <1>1, <3>1, <3>2, ConstFacts
    <3>4. QED
      BY <3>3
  <2>3. QED
    BY <2>1, <2>2
<1>12. \A a \in admitted' :
           /\ a.window # 0 /\ a.nth \in 1..Limit
           /\ Start(a.window) <= a.at + MaxSkew
           /\ a.at < Start(a.window) + Window + MaxSkew + MaxDelay
  <2>1. \A a \in admitted :
           /\ a.window # 0 /\ a.nth \in 1..Limit
           /\ Start(a.window) <= a.at + MaxSkew
           /\ a.at < Start(a.window) + Window + MaxSkew + MaxDelay
    BY <1>1 DEF Inv, FixedInv
  <2>2. n <= Limit => n \in 1..Limit
    BY <1>2, ConstFacts
  <2>3. QED
    BY <1>1, <1>2, <2>1, <2>2
<1>13. ASSUME Slack >= Spread
       PROVE  /\ \A a \in admitted' :
                    \/ /\ a.window \in DOMAIN counters'
                       /\ a.nth <= counters'[a.window].value
                    \/ Start(a.window) + Window + MaxSkew + MaxDelay <= clock'
              /\ \A a, b \in admitted' :
                    a.window = b.window /\ a.nth = b.nth => a = b
  <2>1. /\ \A a \in admitted :
              \/ /\ a.window \in DOMAIN counters
                 /\ a.nth <= counters[a.window].value
              \/ Start(a.window) + Window + MaxSkew + MaxDelay <= clock
        /\ \A a, b \in admitted :
              a.window = b.window /\ a.nth = b.nth => a = b
    BY <1>1, <1>13 DEF Inv, FixedInv
  <2>2. \A x \in DOMAIN counters : counters[x].value <= counters'[x].value
    <3>1. w \in DOMAIN counters => counters[w].value <= n
      BY <1>2, <1>5, ConstFacts
    <3>2. \A x \in DOMAIN counters : counters[x].value \in Nat
      BY <1>5, ConstFacts
    <3>3. QED
      BY <1>3, <1>7, <3>1, <3>2
  <2>3. ASSUME NEW a \in admitted'
        PROVE  \/ /\ a.window \in DOMAIN counters'
                  /\ a.nth <= counters'[a.window].value
               \/ Start(a.window) + Window + MaxSkew + MaxDelay <= clock'
    <3>1. CASE a = a0
      <4>1. a.window = w /\ a.nth = n /\ w \in DOMAIN counters'
        BY <1>3, <3>1
      <4>2. QED
        BY <1>2, <1>7, <4>1, ConstFacts
    <3>2. CASE a \in admitted /\ a.window \in DOMAIN counters
               /\ a.nth <= counters[a.window].value
      <4>1. /\ counters[a.window].value \in Nat
            /\ counters'[a.window].value \in Nat
            /\ a.nth \in Nat /\ a.window \in DOMAIN counters'
        <5>1. counters'[a.window] \in [value : 1..Limit + 1, expires : Nat]
          BY <1>3, <1>8, <3>2 DEF TypeOK
        <5>2. QED
          BY <1>3, <1>5, <3>2, <5>1, ConstFacts
      <4>2. QED
        BY <2>2, <3>2, <4>1
    <3>3. CASE a \in admitted
               /\ Start(a.window) + Window + MaxSkew + MaxDelay <= clock
      BY <1>1, <3>3
    <3>4. QED
      BY <1>1, <2>1, <3>1, <3>2, <3>3
  <2>4. ASSUME NEW b \in admitted, b.window = w, b.nth = n, n <= Limit
        PROVE  FALSE
    <3>1. w \in DOMAIN counters /\ n <= counters[w].value
      BY <1>2, <1>5, <2>1, <2>4, ConstFacts
    <3>2. QED
      BY <1>2, <1>5, <2>4, <3>1, ConstFacts
  <2>5. ASSUME NEW a \in admitted', NEW b \in admitted',
               a.window = b.window, a.nth = b.nth
        PROVE  a = b
    <3>1. CASE n <= Limit
      <4>1. a \in admitted \/ a = a0
        BY <1>1, <3>1
      <4>2. b \in admitted \/ b = a0
        BY <1>1, <3>1
      <4>3. a0.window = w /\ a0.nth = n
        OBVIOUS
      <4>4. QED
        BY <2>1, <2>4, <2>5, <3>1, <4>1, <4>2, <4>3
    <3>2. CASE ~(n <= Limit)
      BY <1>1, <2>1, <2>5, <3>2
    <3>3. QED
      BY <3>1, <3>2
  <2>6. QED
    BY <2>3, <2>5
<1>14. ASSUME pointer' # Gone, NEW x \in DOMAIN counters'
       PROVE  Start(x) < Start(pointer'.value) + Window + Spread
  <2>1. CASE n = 1
    <3>1. pointer'.value = w
      BY <1>3, <2>1
    <3>2. x \in Nat /\ Start(x) \in Nat
      BY <1>2, <1>3, <1>5, StartType
    <3>3. Start(x) <= clock + MaxSkew
      BY <1>1, <1>10
    <3>4. QED
      BY <1>2, <1>5, <3>1, <3>2, <3>3, ConstFacts
  <2>2. CASE n # 1
    <3>1. pointer' = pointer /\ x \in DOMAIN counters
      BY <1>2, <1>3, <2>2
    <3>2. QED
      BY <1>1, <1>14, <3>1 DEF Inv, FixedInv
  <2>3. QED
    BY <2>1, <2>2
<1>15. FixedInv'
  BY <1>1, <1>10, <1>11, <1>12, <1>13, <1>14 DEF FixedInv
<1>16. SlidingInv'
  BY <1>1 DEF SlidingInv
<1>17. QED
  BY <1>9, <1>15, <1>16 DEF Inv

-----------------------------------------------------------------------------
\* The invariant.

LEMMA NextInv ==
    ASSUME Inv, [Next]_vars
    PROVE  Inv'
<1>1. CASE Tick
  BY <1>1, TickInv
<1>2. ASSUME NEW c \in Caller, NEW now \in clock - MaxSkew .. clock + MaxSkew,
             Send(c, now)
      PROVE  Inv'
  BY <1>2, SendInv
<1>3. ASSUME NEW c \in Caller, Lose(c)
      PROVE  Inv'
  BY <1>3, LoseInv
<1>4. ASSUME NEW c \in Caller, SlidingAdmit(c)
      PROVE  Inv'
  BY <1>4, SlidingAdmitInv
<1>5. ASSUME NEW c \in Caller, SlidingDeny(c)
      PROVE  Inv'
  BY <1>5, SlidingDenyInv
<1>6. ASSUME NEW c \in Caller, FixedCheck(c)
      PROVE  Inv'
  BY <1>6, FixedCheckInv
<1>7. CASE ResetBegin
  BY <1>7, ResetBeginInv
<1>8. ASSUME NEW ids \in SUBSET DOMAIN counters, NEW last \in BOOLEAN,
             ScanAnswers(ids, last)
      PROVE  Inv'
  BY <1>8, ScanInv
<1>9. CASE SweepBatch
  BY <1>9, SweepInv
<1>10. CASE ResetReturns
  BY <1>10, ResetReturnsInv
<1>11. CASE UNCHANGED vars
  BY <1>11, StutterInv
<1>12. QED
  BY <1>1, <1>2, <1>3, <1>4, <1>5, <1>6, <1>7, <1>8, <1>9, <1>10, <1>11 DEF Next

LEMMA SpecInv == Spec => []Inv
<1>1. Inv /\ [Next]_vars => Inv'
  BY NextInv
<1>2. QED
  BY <1>1, InitInv, PTL DEF Spec

\* A request admitted at this very instant is still counted.
JustCounted ==
    \A a \in admitted :
        a.window # 0 /\ a.at = clock =>
            a.window \in DOMAIN counters /\ a.nth <= counters[a.window].value

LEMMA JustCountedNext ==
    ASSUME Inv, JustCounted, [Next]_vars
    PROVE  JustCounted'
<1>1. CASE Tick
  <2>1. /\ clock' = clock + 1 /\ clock \in Nat
        /\ admitted' \subseteq admitted
    BY <1>1, TickFacts
  <2>2. \A a \in admitted : a.at \in Nat /\ a.at <= clock
    BY DEF Inv, Sane, TypeOK
  <2>3. \A a \in admitted' : a.at # clock'
    BY <2>1, <2>2
  <2>4. QED
    BY <2>3 DEF JustCounted
<1>2. CASE UNCHANGED <<clock, counters, admitted>>
  BY <1>2 DEF JustCounted
<1>3. ASSUME NEW c \in Caller, SlidingAdmit(c)
      PROVE  JustCounted'
  BY <1>3 DEF SlidingAdmit, Remembered, JustCounted
<1>4. ASSUME NEW c \in Caller, FixedCheck(c)
      PROVE  JustCounted'
  <2> DEFINE w == WindowId(sent[c].now)
             n == NextCount(w)
             a0 == [at |-> clock, window |-> w, nth |-> n]
  <2>1. /\ clock' = clock
        /\ \A a \in admitted' : a \in admitted \/ a = a0
    BY <1>4 DEF FixedCheck, Remembered
  <2>2. /\ n \in 1..Limit + 1
        /\ w \in DOMAIN counters =>
               \/ n = counters[w].value + 1
               \/ n = counters[w].value /\ n = Limit + 1
    BY <1>4, CheckFacts
  <2>3. /\ DOMAIN counters' = DOMAIN counters \cup {w}
        /\ counters'[w].value = n
        /\ \A x \in DOMAIN counters : x # w => counters'[x] = counters[x]
    BY <1>4 DEF FixedCheck, Incremented
  <2> HIDE DEF w, n
  <2>4. \A x \in DOMAIN counters :
            counters[x].value \in Nat /\ counters[x].value <= counters'[x].value
    <3>1. \A x \in DOMAIN counters : counters[x].value \in Nat
      BY ConstFacts DEF Inv, Sane, TypeOK
    <3>2. w \in DOMAIN counters => counters[w].value <= n
      BY <2>2, <3>1, ConstFacts
    <3>3. QED
      BY <2>3, <3>1, <3>2
  <2>5. ASSUME NEW a \in admitted', a.window # 0, a.at = clock
        PROVE  /\ a.window \in DOMAIN counters'
               /\ a.nth <= counters'[a.window].value
    <3>1. CASE a = a0
      BY <2>2, <2>3, <3>1, ConstFacts
    <3>2. CASE a \in admitted
      <4>1. /\ a.window \in DOMAIN counters /\ a.nth \in Nat
            /\ a.nth <= counters[a.window].value
        BY <2>5, <3>2 DEF JustCounted, Inv, Sane, TypeOK
      <4>2. counters'[a.window].value \in Nat
        <5>1. CASE a.window = w
          BY <2>2, <2>3, <5>1, ConstFacts
        <5>2. CASE a.window # w
          BY <2>3, <2>4, <4>1, <5>2
        <5>3. QED
          BY <5>1, <5>2
      <4>3. QED
        BY <2>3, <2>4, <4>1, <4>2
    <3>3. QED
      BY <2>1, <3>1, <3>2
  <2>6. QED
    BY <2>1, <2>5 DEF JustCounted
<1>5. CASE ResetBegin
  BY <1>5 DEF ResetBegin, JustCounted
<1>6. CASE SweepBatch
  BY <1>6 DEF SweepBatch, Only, JustCounted
<1>7. QED
  <2>1. ASSUME NEW c \in Caller,
               \/ Lose(c) \/ SlidingDeny(c)
               \/ \E now \in clock - MaxSkew .. clock + MaxSkew : Send(c, now)
        PROVE  JustCounted'
    BY <1>2, <2>1 DEF Lose, SlidingDeny, Send, redis
  <2>2. ASSUME NEW ids \in SUBSET DOMAIN counters, NEW last \in BOOLEAN,
               ScanAnswers(ids, last)
        PROVE  JustCounted'
    BY <1>2, <2>2 DEF ScanAnswers, redis
  <2>3. CASE ResetReturns
    BY <1>2, <2>3 DEF ResetReturns, redis
  <2>4. CASE UNCHANGED vars
    BY <1>2, <2>4 DEF vars, redis
  <2>5. QED
    BY <1>1, <1>3, <1>4, <1>5, <1>6, <2>1, <2>2, <2>3, <2>4 DEF Next

-----------------------------------------------------------------------------
\* The theorems.

\* Type invariant.
THEOREM TypeCorrect == Spec => []TypeOK
<1>1. Inv => TypeOK
  BY DEF Inv, Sane
<1>2. QED
  BY <1>1, SpecInv, PTL

\* Sliding window: no stretch shorter than the window less the spread of the
\* readings sees more than max_requests admitted (sliding_window_check's
\* script), if the log outlives its window by the spread at least.
THEOREM SlidingCorrect == Spec => []SlidingBound
<1>1. Inv => SlidingBound
  BY DEF Inv, SlidingInv, SlidingBound
<1>2. QED
  BY <1>1, SpecInv, PTL

\* Fixed window: such a stretch is counted by two windows at most, and each
\* admits max_requests (fixed_window_check's script).
THEOREM FixedCorrect == Spec => []FixedBound
<1>1. Inv => FixedBound
  <2> SUFFICES ASSUME Inv, algorithm = "fixed", Slack >= Spread,
                      NEW a \in admitted
               PROVE  Cardinality(AdmittedIn(Window - Spread, a.at))
                          <= 2 * Limit
    BY DEF FixedBound
  <2> DEFINE A == AdmittedIn(Window - Spread, a.at)
             v == WindowId(a.at + MaxSkew)
  <2>1. a.at \in Nat /\ a.at + MaxSkew \in Nat
    BY ConstFacts DEF Inv, Sane, TypeOK
  <2>2. /\ v \in Nat /\ Start(v) \in Nat
        /\ Start(v) <= a.at + MaxSkew /\ a.at + MaxSkew < Start(v) + Window
    BY <2>1, ReadingInWindow, StartType
  <2>3. \A b \in A :
            /\ b.at <= a.at /\ b.at >= a.at - (Window - Spread)
            /\ b.at \in Nat /\ b.window \in Nat /\ b.nth \in 1..Limit
            /\ Start(b.window) <= b.at + MaxSkew
            /\ b.at < Start(b.window) + Window + MaxSkew + MaxDelay
    BY DEF AdmittedIn, Inv, Sane, TypeOK, FixedInv
  <2>4. \A b, d \in A : b.window = d.window /\ b.nth = d.nth => b = d
    BY DEF AdmittedIn, Inv, FixedInv
  <2> HIDE DEF A, v
  <2>5. ASSUME NEW b \in A
        PROVE  /\ Start(b.window) \in Nat
               /\ Start(b.window) <= a.at + MaxSkew
               /\ a.at + MaxSkew < Start(b.window) + Window + Window
    <3>1. Start(b.window) \in Nat
      BY <2>3, StartType
    <3>2. QED
      BY <2>1, <2>3, <3>1, ConstFacts
  <2>6. ASSUME NEW b \in A, NEW d \in A, b.window # v, d.window < v,
               b.window < d.window
        PROVE  FALSE
    <3>1. /\ Start(b.window) + Window <= Start(d.window)
          /\ Start(d.window) + Window <= Start(v)
      BY <2>2, <2>3, <2>6, WindowsInOrder
    <3>2. QED
      BY <2>1, <2>2, <2>5, <3>1, ConstFacts
  <2>7. ASSUME NEW b \in A, b.window # v
        PROVE  b.window < v
    <3>1. CASE v < b.window
      <4>1. Start(v) + Window <= Start(b.window)
        BY <2>2, <2>3, <3>1, WindowsInOrder
      <4>2. QED
        BY <2>1, <2>2, <2>5, <4>1, ConstFacts
    <3>2. QED
      BY <2>2, <2>3, <2>7, <3>1
  <2>8. \A b, d \in A : b.window # v /\ d.window # v => b.window = d.window
    BY <2>3, <2>6, <2>7
  <2>9. Cardinality(A) <= 2 * Limit
    BY <2>3, <2>4, <2>8, TwoWindowsCount
  <2>10. QED
    BY <2>9 DEF A
<1>2. QED
  BY <1>1, SpecInv, PTL

\* A denied request was denied by max_requests admitted ones.
THEOREM DenialCorrect == Spec => DenialJustified
<1> DEFINE Justified ==
        \A c \in DOMAIN sent :
            (SlidingDeny(c) \/ (FixedCheck(c) /\ admitted' = admitted)) =>
                Cardinality(AdmittedIn(Window + Spread - 1, clock)) >= Limit
<1>1. Inv /\ JustCounted /\ [Next]_vars => [Justified]_vars
  <2> SUFFICES ASSUME Inv, JustCounted, NEW c \in DOMAIN sent,
                      SlidingDeny(c) \/ (FixedCheck(c) /\ admitted' = admitted)
               PROVE  Cardinality(AdmittedIn(Window + Spread - 1, clock))
                          >= Limit
    OBVIOUS
  <2> DEFINE A == AdmittedIn(Window + Spread - 1, clock)
             now == sent[c].now
  <2>1. /\ now \in Nat /\ Window <= now /\ now <= clock + MaxSkew
        /\ clock <= now + MaxSkew + MaxDelay
    BY ReadingFacts DEF Inv
  <2>2. IsFiniteSet(A) /\ Cardinality(A) \in Nat
    <3>1. IsFiniteSet(admitted) /\ A \in SUBSET admitted
      BY DEF Inv, Sane, AdmittedIn
    <3>2. QED
      BY <3>1, FS_Subset, FS_CardinalityType
  <2>3. /\ clock \in Nat /\ c \in Caller
        /\ \A a \in admitted : a.at \in Nat /\ a.at <= clock
    BY DEF Inv, Sane, TypeOK
  <2>4. \A a \in admitted : a.at >= clock - (Window + Spread - 1) => a \in A
    BY <2>3 DEF AdmittedIn
  <2> HIDE DEF A, now
  <2>5. CASE SlidingDeny(c)
    <3>1. algorithm = "sliding" /\ ~(Cardinality(Pruned(now)) < Limit)
      BY <2>5 DEF SlidingDeny, Admits, now
    <3>2. ASSUME NEW m \in Pruned(now)
          PROVE  \E a \in A : a.nth = m.seq
      <4>1. m \in log.members /\ m.score \in Nat /\ m.score > now - Window
        BY <2>1, PrunedFacts, PrunedScores DEF Inv, Sane, TypeOK
      <4>2. ~(m.score + Window + Spread <= clock + MaxSkew)
        BY <2>1, <2>3, <4>1, ConstFacts
      <4>3. PICK a \in admitted : a.nth = m.seq /\ m.score <= a.at + MaxSkew
        BY <3>1, <4>1, <4>2 DEF Inv, SlidingInv
      <4>4. a.at >= clock - (Window + Spread - 1)
        BY <2>1, <2>3, <4>1, <4>3, ConstFacts
      <4>5. QED
        BY <2>4, <4>3, <4>4
    <3>3. \A m, n \in Pruned(now) : m.seq = n.seq => m = n
      BY <2>1, <3>1, PrunedFacts DEF Inv, SlidingInv
    <3>4. Cardinality(Pruned(now)) <= Cardinality(A)
      BY <2>2, <3>2, <3>3, RequestsCount
    <3>5. Cardinality(Pruned(now)) \in Nat
      BY <2>1, PrunedFacts
    <3>6. QED
      BY <2>2, <3>1, <3>4, <3>5, ConstFacts DEF A
  <2>6. CASE FixedCheck(c) /\ admitted' = admitted
    <3> DEFINE w == WindowId(now)
               n == NextCount(w)
               a0 == [at |-> clock, window |-> w, nth |-> n]
    <3>1. /\ w \in Nat \ {0} /\ Start(w) \in Nat
          /\ clock < Start(w) + Window + MaxSkew + MaxDelay
          /\ n \in 1..Limit + 1
          /\ n = 1 <=> w \notin DOMAIN counters
          /\ w \in DOMAIN counters =>
                 \/ n = counters[w].value + 1
                 \/ n = counters[w].value /\ n = Limit + 1
      BY <2>3, <2>6, CheckFacts DEF now
    <3>2. algorithm = "fixed" /\ (n <= Limit => a0 \in admitted)
      BY <2>6 DEF FixedCheck, Remembered, now
    <3> HIDE DEF w, n
    <3>3. w \in DOMAIN counters => counters[w].value \in 1..Limit + 1
      BY DEF Inv, Sane, TypeOK
    <3>4. n = Limit + 1
      <4>1. CASE n <= Limit
        <5>1. w \in DOMAIN counters /\ n <= counters[w].value
          BY <3>1, <3>2, <4>1 DEF JustCounted
        <5>2. QED
          BY <3>1, <3>3, <4>1, <5>1, ConstFacts
      <4>2. QED
        BY <3>1, <4>1, ConstFacts
    <3>5. w \in DOMAIN counters /\ Limit <= counters[w].value
      BY <3>1, <3>3, <3>4, ConstFacts
    <3>6. ASSUME NEW i \in 1..Limit
          PROVE  \E a \in A : a.nth = i
      <4>1. ~(Start(w) + Window + Spread <= clock + MaxSkew)
        BY <2>3, <3>1, ConstFacts
      <4>2. i <= counters[w].value
        BY <3>3, <3>5, ConstFacts
      <4>3. PICK a \in admitted : a.window = w /\ a.nth = i
        BY <3>2, <3>5, <4>1, <4>2 DEF Inv, FixedInv
      <4>4. Start(w) <= a.at + MaxSkew
        BY <3>2, <4>3 DEF Inv, FixedInv
      <4>5. a.at >= clock - (Window + Spread - 1)
        BY <2>3, <3>1, <4>3, <4>4, ConstFacts
      <4>6. QED
        BY <2>4, <4>3, <4>5
    <3>7. Limit <= Cardinality(A)
      BY <2>2, <3>6, NumbersCount, ConstFacts
    <3>8. QED
      BY <2>2, <3>7, ConstFacts DEF A
  <2>7. QED
    BY <2>5, <2>6
<1>2. Init => JustCounted
  BY DEF Init, JustCounted
<1>3. Inv /\ JustCounted /\ [Next]_vars => JustCounted'
  BY JustCountedNext
<1>4. QED
  BY <1>1, <1>2, <1>3, SpecInv, PTL DEF Spec, DenialJustified

\* remaining hides no admission of a sliding window that is sure to count,
\* and of the fixed windows looks at the last one but one at the earliest.
THEOREM RemainingCorrect == Spec => []RemainingShows
<1>1. Inv => RemainingShows
  <2> SUFFICES ASSUME Inv, Spread <= Window
               PROVE  /\ algorithm = "sliding" /\ Slack >= Spread =>
                         Remaining + Cardinality(AdmittedIn(Window - Spread - 1,
                                                            clock)) <= Limit
                      /\ pointer # Gone =>
                             \A w \in DOMAIN counters : w <= pointer.value + 1
    BY DEF RemainingShows
  <2>1. ASSUME algorithm = "sliding", Slack >= Spread
        PROVE  Remaining + Cardinality(AdmittedIn(Window - Spread - 1, clock))
                   <= Limit
    <3> DEFINE A == AdmittedIn(Window - Spread - 1, clock)
    <3>1. /\ pointer = Gone /\ swmax.value \in {0, Limit} /\ clock \in Nat
          /\ IsFiniteSet(log.members) /\ Cardinality(log.members) <= Limit
      BY <2>1 DEF Inv, Sane, TypeOK, SlidingInv
    <3>2. IsFiniteSet(A) /\ Cardinality(A) <= Cardinality(Pruned(clock))
      <4>1. clock <= clock + MaxSkew
        BY <3>1, ConstFacts
      <4>2. QED
        BY <2>1, <3>1, <4>1, RecentCount
    <3>3. Cardinality(Pruned(clock)) <= Cardinality(log.members)
      BY <3>1, PrunedFacts, FS_Subset
    <3>4. /\ Cardinality(A) \in Nat /\ Cardinality(Pruned(clock)) \in Nat
          /\ Cardinality(log.members) \in Nat
      BY <3>1, <3>2, PrunedFacts, FS_CardinalityType
    <3>5. Remaining = IF Cardinality(log.members) <= swmax.value
                      THEN swmax.value - Cardinality(log.members) ELSE 0
      BY <3>1 DEF Remaining
    <3> HIDE DEF A
    <3>6. Remaining + Cardinality(A) <= Limit
      BY <3>1, <3>2, <3>3, <3>4, <3>5, ConstFacts
    <3>7. QED
      BY <3>6 DEF A
  <2>2. ASSUME pointer # Gone, NEW w \in DOMAIN counters
        PROVE  w <= pointer.value + 1
    <3> DEFINE p == pointer.value
    <3>1. algorithm = "fixed"
      BY <2>2 DEF Inv, Sane, TypeOK, SlidingInv
    <3>2. /\ Start(w) < Start(p) + Window + Spread
          /\ w \in Nat /\ p \in Nat /\ p + 1 \in Nat
      BY <2>2, <3>1 DEF Inv, Sane, TypeOK, FixedInv
    <3> HIDE DEF p
    <3>3. Start(w) \in Nat /\ Start(p) \in Nat /\ Start(p + 1) \in Nat
      BY <3>2, StartType
    <3>4. CASE p + 1 < w
      <4>1. /\ Start(p) + Window <= Start(p + 1)
            /\ Start(p + 1) + Window <= Start(w)
        BY <3>2, <3>4, WindowsInOrder
      <4>2. QED
        BY <3>2, <3>3, <4>1, ConstFacts
    <3>5. QED
      BY <3>2, <3>4 DEF p
  <2>3. QED
    BY <2>1, <2>2
<1>2. QED
  BY <1>1, SpecInv, PTL

\* A reset that is through has left no counter that was there when it began.
THEOREM ResetCorrect == Spec => []ResetForgives
<1>1. Inv => ResetForgives
  BY DEF Inv, Sane, ResetForgives
<1>2. QED
  BY <1>1, SpecInv, PTL
=============================================================================
