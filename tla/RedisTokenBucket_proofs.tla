---------------------- MODULE RedisTokenBucket_proofs ----------------------
(***************************************************************************)
(* What a key is granted through Redis, and what it is denied, for every   *)
(* skew of the instances' clocks and every delay of their scripts.         *)
(*                                                                         *)
(* The argument is that tokens less last_refill only ever falls: a script  *)
(* adds to the tokens just what it adds to last_refill, backwards as well  *)
(* as forwards, and then takes away what it grants or what the capacity    *)
(* cuts off.  So readings cancel out but for the first and the last.       *)
(***************************************************************************)
EXTENDS RedisTokenBucket, TLAPS

-----------------------------------------------------------------------------
\* The inductive invariant.

\* How far a reading can be behind the clock when its script runs.
Lag == MaxSkew + MaxDelay

Hashes == [tokens : Int, last_refill : Int, expires : Int]

Script == [key : Key, now : Int, at : Nat]

IsState ==
    /\ clock \in Nat
    /\ DOMAIN hashes \subseteq Key
    /\ hashes \in [DOMAIN hashes -> Hashes]
    /\ DOMAIN sent \subseteq Caller
    /\ sent \in [DOMAIN sent -> Script]
    /\ ledger \in [Key -> [debt : Nat, mark : Nat]]

\* A script is on its way for MaxDelay at most, its reading off by MaxSkew.
OnTheWay(c) ==
    /\ sent[c].at <= clock
    /\ clock <= sent[c].at + MaxDelay
    /\ sent[c].at - MaxSkew <= sent[c].now
    /\ sent[c].now <= sent[c].at + MaxSkew

\* When the last script on k ran.
Ran(k) == hashes[k].expires - TTL

\* The hash of k, as of the run of the last script: what it holds and what k
\* owes make up a full bucket, but for the skew of its last reading.
Kept(k) ==
    /\ ledger[k].mark <= Ran(k) /\ Ran(k) <= clock
    /\ hashes[k].tokens <= Full
    /\ Ran(k) - Lag <= hashes[k].last_refill
    /\ hashes[k].last_refill <= Ran(k) + MaxSkew
    /\ hashes[k].tokens >= hashes[k].last_refill - Ran(k) - MaxSkew
    /\ DebtAt(k, Ran(k)) + hashes[k].tokens
           >= Full + (hashes[k].last_refill - Ran(k)) - MaxSkew

\* ... and no more than a full bucket, but for the lag of the first reading.
Capped(k) ==
    /\ ledger[k].debt <= Full + Spread
    /\ k \notin DOMAIN hashes => ledger[k].debt = 0
    /\ k \in DOMAIN hashes =>
           DebtAt(k, Ran(k)) + hashes[k].tokens
               <= Full + Lag + (hashes[k].last_refill - Ran(k))

IInv ==
    /\ IsState
    /\ \A c \in DOMAIN sent : OnTheWay(c)
    /\ \A k \in Key : ledger[k].mark <= clock
    /\ \A k \in DOMAIN hashes : Kept(k)
    /\ Slack >= Spread => \A k \in Key : Capped(k)

-----------------------------------------------------------------------------
\* The numbers.

LEMMA Constants ==
    /\ Full \in Nat /\ Full >= TicksPerToken
    /\ TicksPerToken \in Nat /\ TicksPerToken >= 1
    /\ Slack \in Nat /\ MaxSkew \in Nat /\ MaxDelay \in Nat
    /\ TTL = Full + Slack /\ Spread = 2 * MaxSkew + MaxDelay
    /\ Lag = MaxSkew + MaxDelay
<1>1. /\ Capacity \in Nat /\ Capacity >= 1
      /\ TicksPerToken \in Nat /\ TicksPerToken >= 1
  BY RedisAssumption
<1>2. Capacity * TicksPerToken >= TicksPerToken
  <2>1. Capacity * TicksPerToken = TicksPerToken + (Capacity - 1) * TicksPerToken
    BY <1>1
  <2>2. (Capacity - 1) * TicksPerToken >= 0
    BY <1>1
  <2>3. QED
    BY <1>1, <2>1, <2>2
<1>3. Capacity * TicksPerToken \in Nat
  BY <1>1
<1>4. QED
  BY <1>1, <1>2, <1>3, RedisAssumption DEF Full, TTL, Spread, Lag

\* A debt falls by one a tick, down to zero.
LEMMA DebtFacts ==
    ASSUME NEW k \in Key, ledger \in [Key -> [debt : Nat, mark : Nat]],
           NEW at \in Int, ledger[k].mark <= at,
           NEW later \in Int, at <= later
    PROVE  /\ DebtAt(k, at) \in Nat
           /\ DebtAt(k, later) \in Nat
           /\ DebtAt(k, at) <= ledger[k].debt
           /\ DebtAt(k, later) >= DebtAt(k, at) - (later - at)
           /\ \/ DebtAt(k, later) = 0
              \/ DebtAt(k, later) = DebtAt(k, at) - (later - at)
           /\ ledger[k].debt <= later - ledger[k].mark => DebtAt(k, later) = 0
           /\ DebtAt(k, ledger[k].mark) = ledger[k].debt
<1>1. ledger[k].debt \in Nat /\ ledger[k].mark \in Nat
  OBVIOUS
<1>2. QED
  BY <1>1 DEF DebtAt

\* What a script finds in its bucket after the refill, and what its key owes
\* at that time, keep to the invariant's bounds.
LEMMA ScriptFinds ==
    ASSUME IInv, NEW c \in DOMAIN sent, NEW k \in Key, k = sent[c].key,
           NEW n, n = sent[c].now, NEW tk, tk = Tokens(c),
           NEW d, d = Debt(k)
    PROVE  /\ d \in Nat /\ tk \in Int /\ n \in Int /\ clock \in Nat
           /\ tk <= Full
           /\ clock - Lag <= n /\ n <= clock + MaxSkew
           /\ tk >= n - clock - MaxSkew
           /\ d + tk >= Full + (n - clock) - MaxSkew
           /\ Slack >= Spread => d + tk <= Full + Lag + (n - clock)
<1>1. /\ sent[c] \in Script /\ OnTheWay(c)
      /\ clock \in Nat /\ clock \in Int
      /\ ledger \in [Key -> [debt : Nat, mark : Nat]]
      /\ ledger[k].debt \in Nat /\ ledger[k].mark \in Nat
      /\ ledger[k].mark <= clock
      /\ Slack >= Spread => Capped(k)
  BY DEF IInv, IsState
<1>2. n \in Int /\ clock - Lag <= n /\ n <= clock + MaxSkew
  BY <1>1, Constants DEF OnTheWay, Script
<1>3. CASE Exists(k)
  <2> DEFINE h == hashes[k]
             e == Ran(k)
             b == DebtAt(k, e)
  <2>1. k \in DOMAIN hashes /\ h \in Hashes /\ Kept(k)
    BY <1>3 DEF Exists, IInv, IsState
  <2>2. /\ h.tokens \in Int /\ h.last_refill \in Int /\ e \in Int
        /\ ledger[k].mark <= e /\ e <= clock
        /\ e - Lag <= h.last_refill /\ h.last_refill <= e + MaxSkew
        /\ h.tokens >= h.last_refill - e - MaxSkew
        /\ b + h.tokens >= Full + (h.last_refill - e) - MaxSkew
    BY <2>1, Constants DEF Kept, Ran, Hashes
  <2>3. Slack >= Spread => b + h.tokens <= Full + Lag + (h.last_refill - e)
    BY <1>1, <2>1 DEF Capped
  <2>4. tk = Least(Full, h.tokens + (n - h.last_refill))
    BY <1>3 DEF Tokens, Refilled, Hash
  <2>5. /\ b \in Nat /\ d \in Nat
        /\ d >= b - (clock - e)
        /\ d = 0 \/ d = b - (clock - e)
    BY <1>1, <2>2, DebtFacts DEF Debt
  <2> HIDE DEF h, e, b
  <2>6. CASE Full <= h.tokens + (n - h.last_refill)
    <3>1. tk = Full
      BY <2>4, <2>6 DEF Least
    <3>2. QED
      BY <1>1, <1>2, <2>2, <2>3, <2>5, <2>6, <3>1, Constants
  <2>7. CASE ~ (Full <= h.tokens + (n - h.last_refill))
    <3>1. tk = h.tokens + (n - h.last_refill)
      BY <2>4, <2>7 DEF Least
    <3>2. QED
      BY <1>1, <1>2, <2>2, <2>3, <2>5, <2>7, <3>1, Constants
  <2>8. QED
    BY <2>6, <2>7
<1>4. CASE ~ Exists(k)
  <2>1. tk = Full
    BY <1>2, <1>4, Constants DEF Tokens, Refilled, Hash, Least
  <2>2. d \in Nat
    BY <1>1, DebtFacts DEF Debt
  <2>3. Slack >= Spread => d = 0
    <3>1. CASE k \notin DOMAIN hashes /\ Slack >= Spread
      <4>1. ledger[k].debt = 0
        BY <1>1, <3>1 DEF Capped
      <4>2. QED
        BY <1>1, <4>1 DEF Debt, DebtAt
    <3>2. CASE k \in DOMAIN hashes /\ Slack >= Spread
      <4>1. Kept(k) /\ hashes[k] \in Hashes /\ hashes[k].expires <= clock
        BY <1>1, <1>4, <3>2 DEF Exists, IInv, IsState, Hashes
      <4>2. ledger[k].mark + TTL <= clock /\ ledger[k].debt <= Full + Spread
        BY <1>1, <3>2, <4>1, Constants DEF Kept, Ran, Capped, Hashes
      <4>3. QED
        BY <1>1, <3>2, <4>2, Constants DEF Debt, DebtAt
    <3>3. QED
      BY <3>1, <3>2
  <2>4. QED
    BY <1>1, <1>2, <2>1, <2>2, <2>3, Constants
<1>5. QED
  BY <1>3, <1>4


-----------------------------------------------------------------------------
\* The steps.

\* The numbers of a key are those of its hash and its ledger.
LEMMA SameKey ==
    ASSUME NEW k, k \in DOMAIN hashes' <=> k \in DOMAIN hashes,
           k \in DOMAIN hashes => hashes'[k] = hashes[k],
           ledger'[k] = ledger[k]
    PROVE  /\ Capped(k) => Capped(k)'
           /\ \A at : DebtAt(k, at)' = DebtAt(k, at)
<1>1. \A at : DebtAt(k, at)' = DebtAt(k, at)
  BY DEF DebtAt
<1>2. CASE k \in DOMAIN hashes
  <2>1. Ran(k)' = Ran(k)
    BY <1>2 DEF Ran, TTL
  <2>2. DebtAt(k, Ran(k))' = DebtAt(k, Ran(k))
    BY <2>1 DEF DebtAt
  <2>3. QED
    BY <1>1, <1>2, <2>1, <2>2 DEF Capped, Full, Spread, Lag
<1>3. CASE k \notin DOMAIN hashes
  BY <1>1, <1>3 DEF Capped, Full, Spread, Lag
<1>4. QED
  BY <1>2, <1>3

\* A hash that no script has touched is kept, as the clock goes on.
LEMMA SameHash ==
    ASSUME NEW k \in DOMAIN hashes, k \in DOMAIN hashes', Kept(k),
           hashes[k] \in Hashes, clock \in Nat, clock' \in Nat,
           ledger[k].mark \in Nat,
           hashes'[k] = hashes[k], ledger'[k] = ledger[k], clock <= clock'
    PROVE  Kept(k)'
<1>1. Ran(k)' = Ran(k) /\ Ran(k) \in Int
  BY Constants DEF Ran, TTL, Hashes
<1>2. DebtAt(k, Ran(k))' = DebtAt(k, Ran(k))
  BY <1>1 DEF DebtAt
<1>3. QED
  BY <1>1, <1>2, Constants DEF Kept, Full, Lag

\* The scripts that are still on their way after one has arrived.
LEMMA ArrivedFacts ==
    ASSUME IInv, NEW c \in DOMAIN sent, Arrived(c), UNCHANGED clock
    PROVE  /\ DOMAIN sent' \subseteq Caller
           /\ sent' \in [DOMAIN sent' -> Script]
           /\ \A x \in DOMAIN sent' : OnTheWay(x)'
BY DEF Arrived, IInv, IsState, OnTheWay

\* A script that ran left its key's numbers within the bounds: it stored
\* `tokens` with its reading, and its key now owes `debt` at the clock.
LEMMA ScriptLeaves ==
    ASSUME IInv, NEW c \in DOMAIN sent, NEW k \in Key, k = sent[c].key,
           NEW tokens \in Int, tokens <= Full,
           NEW debt \in Nat,
           UNCHANGED clock, Arrived(c),
           Stored(k, tokens, sent[c].now),
           ledger' \in [Key -> [debt : Nat, mark : Nat]],
           \A x \in Key \ {k} : ledger'[x] = ledger[x],
           ledger'[k].mark <= clock,
           DebtAt(k, clock)' = debt,
           tokens >= sent[c].now - clock - MaxSkew,
           debt + tokens >= Full + (sent[c].now - clock) - MaxSkew,
           Slack >= Spread =>
               /\ debt + tokens <= Full + Lag + (sent[c].now - clock)
               /\ ledger'[k].debt <= Full + Spread
    PROVE  IInv'
<1>0. /\ clock \in Nat /\ IsState /\ sent[c] \in Script /\ OnTheWay(c)
      /\ sent[c].now \in Int
      /\ clock - Lag <= sent[c].now /\ sent[c].now <= clock + MaxSkew
  BY Constants DEF IInv, IsState, Script, OnTheWay, Lag
<1>1. /\ DOMAIN hashes' = DOMAIN hashes \cup {k}
      /\ hashes'[k] = [tokens |-> tokens, last_refill |-> sent[c].now,
                       expires |-> clock + TTL]
      /\ \A x \in DOMAIN hashes \ {k} : hashes'[x] = hashes[x]
      /\ hashes' \in [DOMAIN hashes' -> Hashes]
  BY <1>0, Constants DEF Stored, Hashes, IsState
<1>2. IsState'
  BY <1>0, <1>1, ArrivedFacts DEF IsState
<1>3. \A x \in DOMAIN sent' : OnTheWay(x)'
  BY ArrivedFacts
<1>4. \A x \in Key : ledger'[x].mark <= clock'
  BY DEF IInv
<1>5. Ran(k)' = clock /\ DebtAt(k, Ran(k))' = debt
  <2>1. Ran(k)' = clock
    BY <1>0, <1>1, Constants DEF Ran, TTL, Full
  <2>2. QED
    BY <2>1 DEF DebtAt
<1>6. \A x \in DOMAIN hashes' : Kept(x)'
  <2>1. Kept(k)'
    BY <1>0, <1>1, <1>5, Constants DEF Kept, Full, Lag
  <2>2. ASSUME NEW x \in DOMAIN hashes \ {k} PROVE Kept(x)'
    BY <1>0, <1>1, <2>2, SameHash DEF IInv, IsState
  <2>3. QED
    BY <1>1, <2>1, <2>2
<1>7. ASSUME Slack >= Spread, NEW x \in Key PROVE Capped(x)'
  <2>1. CASE x = k
    BY <1>1, <1>5, <1>7, <2>1 DEF Capped, Full, Lag, Spread
  <2>2. CASE x # k
    <3>1. Capped(x)
      BY <1>7 DEF IInv
    <3>2. QED
      BY <1>1, <2>2, <3>1, SameKey
  <2>3. QED
    BY <2>1, <2>2
<1>8. QED
  BY <1>2, <1>3, <1>4, <1>6, <1>7 DEF IInv, Spread

\* What a script grants it takes from the bucket.
LEMMA GrantKeeps ==
    ASSUME IInv, NEW c \in Caller, NEW k \in Key, k = sent[c].key, Grant(c)
    PROVE  IInv'
<1> DEFINE n  == sent[c].now
           tk == Tokens(c)
           d  == Debt(k)
<1>1. /\ c \in DOMAIN sent /\ clock \in Nat
      /\ ledger \in [Key -> [debt : Nat, mark : Nat]]
  BY DEF Grant, IInv, IsState, Script
<1>2. /\ d \in Nat /\ tk \in Int /\ n \in Int
      /\ tk <= Full /\ n <= clock + MaxSkew
      /\ tk >= n - clock - MaxSkew
      /\ d + tk >= Full + (n - clock) - MaxSkew
      /\ Slack >= Spread => d + tk <= Full + Lag + (n - clock)
  BY <1>1, ScriptFinds
<1>3. /\ tk >= TicksPerToken
      /\ ledger' = [ledger EXCEPT ![k] = [debt |-> d + TicksPerToken,
                                          mark |-> clock]]
      /\ Stored(k, tk - TicksPerToken, n)
      /\ Arrived(c) /\ UNCHANGED clock
  BY DEF Grant
<1> HIDE DEF n, tk, d
<1>4. /\ ledger'[k].debt = d + TicksPerToken /\ ledger'[k].mark = clock
      /\ ledger' \in [Key -> [debt : Nat, mark : Nat]]
      /\ \A x \in Key \ {k} : ledger'[x] = ledger[x]
      /\ d + TicksPerToken \in Nat
  BY <1>1, <1>2, <1>3, Constants
<1>5. DebtAt(k, clock)' = d + TicksPerToken
  BY <1>1, <1>3, <1>4 DEF DebtAt
<1>6. /\ tk - TicksPerToken \in Int
      /\ tk - TicksPerToken <= Full
      /\ tk - TicksPerToken >= n - clock - MaxSkew
      /\ (d + TicksPerToken) + (tk - TicksPerToken)
             >= Full + (n - clock) - MaxSkew
      /\ Slack >= Spread =>
             /\ (d + TicksPerToken) + (tk - TicksPerToken)
                    <= Full + Lag + (n - clock)
             /\ d + TicksPerToken <= Full + Spread
  BY <1>1, <1>2, <1>3, Constants
<1>7. QED
  BY <1>1, <1>3, <1>4, <1>5, <1>6, ScriptLeaves DEF n

\* A denial stores what it found.
LEMMA DenialKeeps ==
    ASSUME IInv, NEW c \in Caller, NEW k \in Key, k = sent[c].key, Deny(c)
    PROVE  IInv'
<1> DEFINE n  == sent[c].now
           tk == Tokens(c)
           d  == Debt(k)
<1>1. /\ c \in DOMAIN sent /\ clock \in Nat
      /\ ledger \in [Key -> [debt : Nat, mark : Nat]]
      /\ ledger[k].mark <= clock
      /\ Slack >= Spread => ledger[k].debt <= Full + Spread
  BY DEF Deny, IInv, IsState, Script, Capped
<1>2. /\ d \in Nat /\ tk \in Int
      /\ tk <= Full
      /\ tk >= n - clock - MaxSkew
      /\ d + tk >= Full + (n - clock) - MaxSkew
      /\ Slack >= Spread => d + tk <= Full + Lag + (n - clock)
  BY <1>1, ScriptFinds
<1>3. /\ Stored(k, tk, n) /\ Arrived(c)
      /\ UNCHANGED clock /\ UNCHANGED ledger
  BY DEF Deny
<1>4. DebtAt(k, clock)' = d
  BY <1>3 DEF Debt, DebtAt
<1> HIDE DEF tk, d
<1>5. QED
  BY <1>1, <1>2, <1>3, <1>4, ScriptLeaves

LEMMA InvStep == IInv /\ [Next]_vars => IInv'
<1> SUFFICES ASSUME IInv, [Next]_vars PROVE IInv'
  OBVIOUS
<1>0. /\ IsState /\ clock \in Nat
      /\ ledger \in [Key -> [debt : Nat, mark : Nat]]
      /\ \A k \in Key : ledger[k].mark \in Nat /\ ledger[k].mark <= clock
      /\ \A k \in DOMAIN hashes : k \in Key /\ hashes[k] \in Hashes /\ Kept(k)
      /\ \A c \in DOMAIN sent : sent[c] \in Script /\ OnTheWay(c)
      /\ Slack >= Spread => \A k \in Key : Capped(k)
  BY DEF IInv, IsState
<1>1. CASE Tick
  <2>1. clock' = clock + 1 /\ clock' \in Nat /\ UNCHANGED <<hashes, sent, ledger>>
    BY <1>0, <1>1 DEF Tick
  <2>2. \A c \in DOMAIN sent' : OnTheWay(c)'
    BY <1>0, <1>1, <2>1, Constants DEF Tick, OnTheWay, Script
  <2>3. \A k \in DOMAIN hashes' : Kept(k)'
    <3>1. ASSUME NEW k \in DOMAIN hashes PROVE Kept(k)'
      BY <1>0, <2>1, <3>1, SameHash
    <3>2. QED
      BY <2>1, <3>1
  <2>4. Slack >= Spread => \A k \in Key : Capped(k)'
    BY <1>0, <2>1, SameKey
  <2>5. QED
    BY <1>0, <2>1, <2>2, <2>3, <2>4 DEF IInv, IsState, Spread
<1>2. ASSUME NEW c \in Caller, NEW k \in Key,
             NEW now \in clock - MaxSkew .. clock + MaxSkew, Send(c, k, now)
      PROVE  IInv'
  <2>1. /\ UNCHANGED <<clock, hashes, ledger>>
        /\ sent' = [x \in DOMAIN sent \cup {c} |->
                       IF x = c THEN [key |-> k, now |-> now, at |-> clock]
                                ELSE sent[x]]
    BY <1>2 DEF Send
  <2>2. [key |-> k, now |-> now, at |-> clock] \in Script
    BY <1>0, Constants DEF Script
  <2>3. DOMAIN sent' \subseteq Caller /\ sent' \in [DOMAIN sent' -> Script]
    BY <1>0, <2>1, <2>2 DEF IsState
  <2>4. \A x \in DOMAIN sent' : OnTheWay(x)'
    <3>1. OnTheWay(c)'
      BY <1>0, <2>1, Constants DEF OnTheWay
    <3>2. ASSUME NEW x \in DOMAIN sent \ {c} PROVE OnTheWay(x)'
      BY <1>0, <2>1, <3>2 DEF OnTheWay
    <3>3. QED
      BY <2>1, <3>1, <3>2
  <2>5. \A x \in DOMAIN hashes' : Kept(x)'
    BY <1>0, <2>1, SameHash
  <2>6. Slack >= Spread => \A x \in Key : Capped(x)'
    BY <1>0, <2>1, SameKey
  <2>7. QED
    BY <1>0, <2>1, <2>3, <2>4, <2>5, <2>6 DEF IInv, IsState, Spread
<1>3. ASSUME NEW c \in Caller, Lose(c)
      PROVE  IInv'
  <2>1. c \in DOMAIN sent /\ Arrived(c) /\ UNCHANGED <<clock, hashes, ledger>>
    BY <1>3 DEF Lose
  <2>2. /\ DOMAIN sent' \subseteq Caller
        /\ sent' \in [DOMAIN sent' -> Script]
        /\ \A x \in DOMAIN sent' : OnTheWay(x)'
    BY <2>1, ArrivedFacts
  <2>3. \A x \in DOMAIN hashes' : Kept(x)'
    BY <1>0, <2>1, SameHash
  <2>4. Slack >= Spread => \A x \in Key : Capped(x)'
    BY <1>0, <2>1, SameKey
  <2>5. QED
    BY <1>0, <2>1, <2>2, <2>3, <2>4 DEF IInv, IsState, Spread
<1>4. ASSUME NEW k \in Key, Reset(k)
      PROVE  IInv'
  <2>1. /\ UNCHANGED <<clock, sent>>
        /\ DOMAIN hashes' = DOMAIN hashes \ {k}
        /\ \A x \in DOMAIN hashes \ {k} : hashes'[x] = hashes[x]
        /\ hashes' \in [DOMAIN hashes' -> Hashes]
    BY <1>0, <1>4 DEF Reset, IsState
  <2>2. /\ ledger' \in [Key -> [debt : Nat, mark : Nat]]
        /\ ledger'[k].debt = 0 /\ ledger'[k].mark = clock
        /\ \A x \in Key \ {k} : ledger'[x] = ledger[x]
    BY <1>0, <1>4 DEF Reset, Forgiven
  <2>3. \A x \in DOMAIN hashes' : Kept(x)'
    <3>1. ASSUME NEW x \in DOMAIN hashes \ {k} PROVE Kept(x)'
      BY <1>0, <2>1, <2>2, <3>1, SameHash
    <3>2. QED
      BY <2>1, <3>1
  <2>4. ASSUME Slack >= Spread, NEW x \in Key PROVE Capped(x)'
    <3>1. CASE x = k
      BY <2>1, <2>2, <3>1, Constants DEF Capped, Full, Spread
    <3>2. CASE x # k
      BY <1>0, <2>1, <2>2, <2>4, <3>2, SameKey
    <3>3. QED
      BY <3>1, <3>2
  <2>5. \A x \in DOMAIN sent' : OnTheWay(x)'
    BY <1>0, <2>1 DEF OnTheWay
  <2>6. QED
    BY <1>0, <2>1, <2>2, <2>3, <2>4, <2>5 DEF IInv, IsState, Spread
<1>5. CASE UNCHANGED vars
  <2>1. UNCHANGED <<clock, hashes, sent, ledger>>
    BY <1>5 DEF vars
  <2>2. \A x \in DOMAIN hashes' : Kept(x)'
    BY <1>0, <2>1, SameHash
  <2>3. Slack >= Spread => \A x \in Key : Capped(x)'
    BY <1>0, <2>1, SameKey
  <2>4. QED
    BY <1>0, <2>1, <2>2, <2>3 DEF IInv, IsState, OnTheWay, Spread
<1>6. ASSUME NEW c \in Caller, Grant(c) \/ Deny(c)
      PROVE  IInv'
  <2>1. sent[c].key \in Key
    BY <1>0, <1>6 DEF Grant, Deny, Script
  <2>2. QED
    BY <1>6, <2>1, GrantKeeps, DenialKeeps
<1>7. QED
  BY <1>1, <1>2, <1>3, <1>4, <1>5, <1>6 DEF Next

LEMMA InvCorrect == Spec => []IInv
<1>1. Init => IInv
  BY Constants DEF Init, IInv, IsState, Forgiven, Capped, Hashes, Script
<1>2. QED
  BY <1>1, InvStep, PTL DEF Spec

-----------------------------------------------------------------------------
\* The theorems.

\* A bucket never holds more than it can nor owes more than the spread.
THEOREM TypeCorrect == Spec => []TypeOK
<1>1. IInv => TypeOK
  <2> SUFFICES ASSUME IInv PROVE TypeOK
    OBVIOUS
  <2>1. IsState
    BY DEF IInv
  <2>2. ASSUME NEW k \in DOMAIN hashes
        PROVE  hashes[k] \in [tokens : -Spread .. Full, last_refill : Int,
                              expires : Nat]
    <3>1. Kept(k) /\ hashes[k] \in Hashes /\ clock \in Nat
          /\ ledger[k].mark \in Nat
      BY <2>2 DEF IInv, IsState
    <3>2. /\ hashes[k].tokens \in -Spread .. Full
          /\ hashes[k].expires \in Nat
      BY <3>1, Constants DEF Kept, Ran, Hashes
    <3>3. QED
      BY <3>1, <3>2 DEF Hashes
  <2>3. QED
    BY <2>1, <2>2 DEF IsState, TypeOK, Script
<1>2. QED
  BY <1>1, InvCorrect, PTL

\* Whatever clocks the instances send, over no stretch of time is a key
\* granted more than a full bucket, one unit a tick and the spread, once.
THEOREM LedgerCorrect == Spec => []LedgerBound
<1>1. IInv => LedgerBound
  <2> SUFFICES ASSUME IInv, Slack >= Spread, NEW k \in Key
               PROVE  Debt(k) <= Full + Spread
    BY DEF LedgerBound
  <2>1. /\ ledger \in [Key -> [debt : Nat, mark : Nat]]
        /\ clock \in Nat /\ ledger[k].mark <= clock
        /\ ledger[k].debt <= Full + Spread /\ ledger[k].debt \in Nat
    BY DEF IInv, IsState, Capped
  <2>2. Debt(k) \in Nat /\ Debt(k) <= ledger[k].debt
    BY <2>1, DebtFacts DEF Debt
  <2>3. QED
    BY <2>1, <2>2, Constants
<1>2. QED
  BY <1>1, InvCorrect, PTL

\* Whatever clocks the instances send, a request is denied only if its key's
\* grants have left it less than a token and the spread.
THEOREM DenialCorrect == Spec => DenialJustified
<1>1. ASSUME IInv, [Next]_vars
      PROVE  [\A c \in DOMAIN sent :
                 Deny(c) => Full - Debt(sent[c].key) < TicksPerToken + Spread]_vars
  <2> SUFFICES ASSUME NEW c \in DOMAIN sent, Deny(c)
               PROVE  Full - Debt(sent[c].key) < TicksPerToken + Spread
    OBVIOUS
  <2>1. sent[c].key \in Key
    BY <1>1 DEF IInv, IsState, Script
  <2>2. /\ Debt(sent[c].key) \in Nat /\ Tokens(c) \in Int
        /\ sent[c].now \in Int /\ clock \in Nat
        /\ clock - Lag <= sent[c].now
        /\ Debt(sent[c].key) + Tokens(c)
               >= Full + (sent[c].now - clock) - MaxSkew
    BY <1>1, <2>1, ScriptFinds
  <2>3. Tokens(c) < TicksPerToken
    BY DEF Deny
  <2>4. QED
    BY <2>2, <2>3, Constants
<1>2. QED
  BY <1>1, InvCorrect, PTL DEF Spec, DenialJustified
=============================================================================
