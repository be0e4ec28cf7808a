---------------------------- MODULE RedisWindows ----------------------------
(***************************************************************************)
(* RedisStore::sliding_window_check and fixed_window_check, called by the  *)
(* instances of a deployment on one Redis for one rate-limit key, with     *)
(* reset, which takes several commands, and remaining.                     *)
(*                                                                         *)
(* As in RedisTokenBucket an instance sends a reading of its own wall      *)
(* clock with the script, which runs atomically some time later, or never. *)
(* The limiter uses one algorithm: it is chosen once.                      *)
(*                                                                         *)
(* A Redis key holds a value until its EXPIRE is over; Gone stands for a   *)
(* key that is not there.  Time is in ticks; readings are above zero.      *)
(***************************************************************************)
EXTENDS Integers, FiniteSets

CONSTANTS
    Caller,     \* requests in flight at one time
    Limit,      \* max_requests
    Window,     \* window
    Slack,      \* the 10 s of ttl beyond the window
    MaxSkew,    \* how far an instance's clock is from Redis's, at most
    MaxDelay,   \* longest time from a reading to the script's run
    MaxClock    \* bound: the last tick

ASSUME WindowsAssumption ==
    /\ Limit \in Nat \ {0}
    /\ Window \in Nat \ {0}
    /\ Slack \in Nat
    /\ MaxSkew \in Nat
    /\ MaxDelay \in Nat
    /\ MaxClock \in Nat

VARIABLES
    algorithm,   \* which of the two checks the callers use
    clock,       \* Redis's clock
    sent,        \* the callers' scripts on their way to Redis
    log,         \* sw:<digest>, a sorted set of members [score, seq]
    seq,         \* swseq:<digest>
    swmax,       \* swmax:<digest>
    counters,    \* fw:<digest>:<window id>, those that are there
    pointer,     \* fwcur:<digest>, and fwmax:<digest>, written with it
    resetting,   \* the reset under way
    admitted     \* history: the requests admitted that Redis still counts

redis == <<log, seq, swmax, counters, pointer>>
vars == <<algorithm, clock, sent, redis, resetting, admitted>>

\* window_secs + 10
TTL == Window + Slack

\* The most two readings can be apart that reach Redis at one instant.
Spread == 2 * MaxSkew + MaxDelay

Gone == [value |-> 0, expires |-> 0]
NoLog == [members |-> {}, expires |-> 0]

\* No reset.
Resting == [phase |-> "idle", batch |-> {}, last |-> FALSE, left |-> {}]

Init ==
    /\ algorithm \in {"sliding", "fixed"}
    /\ clock = MaxSkew + Window
    /\ sent = [c \in {} |-> {}]
    /\ log = NoLog
    /\ seq = Gone
    /\ swmax = Gone
    /\ counters = [w \in {} |-> Gone]
    /\ pointer = Gone
    /\ resetting = Resting
    /\ admitted = {}

\* A key that is not there counts as zero.
CounterOf(w) == IF w \in DOMAIN counters THEN counters[w] ELSE Gone

Only(f, S) == [x \in S |-> f[x]]

\* History is kept for as long as a property looks back.
Tick ==
    /\ clock < MaxClock
    /\ \A c \in DOMAIN sent : clock - sent[c].at < MaxDelay
    /\ clock' = clock + 1
    /\ log' = IF log.expires > clock + 1 THEN log ELSE NoLog
    /\ seq' = IF seq.expires > clock + 1 THEN seq ELSE Gone
    /\ swmax' = IF swmax.expires > clock + 1 THEN swmax ELSE Gone
    /\ pointer' = IF pointer.expires > clock + 1 THEN pointer ELSE Gone
    /\ LET live == {w \in DOMAIN counters : counters[w].expires > clock + 1}
       IN  /\ counters' = Only(counters, live)
           /\ resetting' = [resetting EXCEPT !.left = @ \cap live]
    /\ admitted' = {a \in admitted : clock + 1 - a.at < Window + Spread}
    /\ UNCHANGED <<algorithm, sent>>

\* SystemTime::now() on some instance, and the script is on its way.
Send(c, now) ==
    /\ c \notin DOMAIN sent
    /\ sent' = [x \in DOMAIN sent \cup {c} |->
                    IF x = c THEN [now |-> now, at |-> clock] ELSE sent[x]]
    /\ UNCHANGED <<algorithm, clock, redis, resetting, admitted>>

Arrived(c) == sent' = Only(sent, DOMAIN sent \ {c})

\* The connection fails, or the caller's timeout drops it before it is sent.
Lose(c) ==
    /\ c \in DOMAIN sent
    /\ Arrived(c)
    /\ UNCHANGED <<algorithm, clock, redis, resetting, admitted>>

\* The nth request admitted now, counted in window w, or in the log for w = 0.
Remembered(w, n) ==
    admitted' = admitted \cup {[at |-> clock, window |-> w, nth |-> n]}

-----------------------------------------------------------------------------
\* The sliding window's script

\* A log that is never pruned.
Unpruned(now) == log.members

\* ZREMRANGEBYSCORE key 0 cutoff
Pruned(now) == {m \in log.members : m.score > now - Window}

\* A script that compares the count the wrong way at the limit.
AdmitsOneMore(now) == Cardinality(Pruned(now)) <= Limit

\* count < max_requests
Admits(now) == Cardinality(Pruned(now)) < Limit

\* A member of the reading alone: requests of one reading are one member.
MemberOfReading(now, n) == [score |-> now, seq |-> 0]

\* now .. '-' .. seq
Member(now, n) == [score |-> now, seq |-> n]

\* SET maxkey max_requests EX ttl
LimitRecorded == swmax' = [value |-> Limit, expires |-> clock + TTL]

SlidingAdmit(c) ==
    /\ c \in DOMAIN sent /\ algorithm = "sliding"
    /\ Admits(sent[c].now)
    /\ seq' = [value |-> seq.value + 1, expires |-> clock + TTL]
    /\ log' = [members |-> Pruned(sent[c].now)
                               \cup {Member(sent[c].now, seq.value + 1)},
               expires |-> clock + TTL]
    /\ LimitRecorded
    /\ Remembered(0, seq.value + 1)
    /\ Arrived(c)
    /\ UNCHANGED <<algorithm, clock, counters, pointer, resetting>>

\* Redis drops a sorted set with its last member.
SlidingDeny(c) ==
    /\ c \in DOMAIN sent /\ algorithm = "sliding"
    /\ ~Admits(sent[c].now)
    /\ LimitRecorded
    /\ LET left == Pruned(sent[c].now)
       IN  log' = IF left = {} THEN NoLog ELSE [log EXCEPT !.members = left]
    /\ Arrived(c)
    /\ UNCHANGED <<algorithm, clock, seq, counters, pointer, resetting,
                   admitted>>

-----------------------------------------------------------------------------
\* The fixed window's script

\* now_ms / window_ms
WindowId(now) == now \div Window

\* A counter that goes with its window, as if every clock were Redis's.
CounterTTLOfWindow == Window

\* EXPIRE key ttl
CounterTTL == TTL

\* A SET with NX, which leaves a pointer that is there where it is.
PointerWhereItWas(w) ==
    IF pointer = Gone THEN [value |-> w, expires |-> clock + TTL] ELSE pointer

\* SET fwcur window_id EX ttl
PointerTo(w) == [value |-> w, expires |-> clock + TTL]

\* What INCR answers.  Bound: a count stops at one past the limit, which no
\* check tells from a greater one.
NextCount(w) ==
    IF CounterOf(w).value <= Limit THEN CounterOf(w).value + 1 ELSE Limit + 1

\* INCR, which keeps the time the key expires; the first makes it expire and
\* writes the companions.
Incremented(w) ==
    LET n == NextCount(w)
    IN  /\ counters' =
             [x \in DOMAIN counters \cup {w} |->
                 IF x = w
                 THEN [value |-> n,
                       expires |-> IF n = 1 THEN clock + CounterTTL
                                            ELSE counters[w].expires]
                 ELSE counters[x]]
        /\ pointer' = IF n = 1 THEN PointerTo(w) ELSE pointer

\* count <= max_requests, on the caller's side.
FixedCheck(c) ==
    /\ c \in DOMAIN sent /\ algorithm = "fixed"
    /\ LET w == WindowId(sent[c].now)
           n == NextCount(w)
       IN  /\ Incremented(w)
           /\ IF n <= Limit THEN Remembered(w, n) ELSE UNCHANGED admitted
    /\ Arrived(c)
    /\ UNCHANGED <<algorithm, clock, log, seq, swmax, resetting>>

-----------------------------------------------------------------------------
\* reset.  Each command runs under a timeout of its own; the first to fail
\* ends the call, and what has run stays done.

\* UNLINK of the keys with fixed names.  `left` is history: the counters there
\* are by then, less those removed since.
ResetBegin ==
    /\ resetting.phase = "idle"
    /\ log' = NoLog
    /\ seq' = Gone
    /\ swmax' = Gone
    /\ pointer' = Gone
    /\ resetting' = [Resting EXCEPT !.phase = "scan",
                                    !.left = DOMAIN counters]
    /\ admitted' = {a \in admitted : a.window # 0}
    /\ UNCHANGED <<algorithm, clock, sent, counters>>

\* A loop that ends with an empty batch.
AfterEmptyBatchDone(last) == "done"

\* if next_cursor == 0 { break }: an empty batch says nothing.
AfterEmptyBatch(last) == IF last THEN "done" ELSE "scan"

\* SCAN answers some of the counters, maybe none; with the last cursor it
\* has answered every counter that was there all along.
ScanAnswers(ids, last) ==
    /\ resetting.phase = "scan"
    /\ last => resetting.left \subseteq ids
    /\ resetting' = [resetting EXCEPT
           !.phase = IF ids = {} THEN AfterEmptyBatch(last) ELSE "sweep",
           !.batch = ids,
           !.last = last]
    /\ UNCHANGED <<algorithm, clock, sent, redis, admitted>>

\* UNLINK of the batch, whatever those keys hold by now.
SweepBatch ==
    /\ resetting.phase = "sweep"
    /\ counters' = Only(counters, DOMAIN counters \ resetting.batch)
    /\ admitted' = {a \in admitted : a.window \notin resetting.batch}
    /\ resetting' = [resetting EXCEPT
           !.phase = IF resetting.last THEN "done" ELSE "scan",
           !.batch = {},
           !.left = @ \ resetting.batch]
    /\ UNCHANGED <<algorithm, clock, sent, log, seq, swmax, pointer>>

\* Ok(()), or the error of a command, before it ran or after.
ResetReturns ==
    /\ resetting.phase # "idle"
    /\ resetting' = Resting
    /\ UNCHANGED <<algorithm, clock, sent, redis, admitted>>

-----------------------------------------------------------------------------
\* What remaining answers, if its reads find one state: of the window the
\* pointer names, or else of the log as it lies.
Remaining ==
    LET max == IF pointer # Gone THEN Limit ELSE swmax.value
        count == IF pointer # Gone THEN CounterOf(pointer.value).value
                                   ELSE Cardinality(log.members)
    IN  IF count <= max THEN max - count ELSE 0

-----------------------------------------------------------------------------
Next ==
    \/ Tick
    \/ \E c \in Caller, now \in clock - MaxSkew .. clock + MaxSkew : Send(c, now)
    \/ \E c \in Caller :
           Lose(c) \/ SlidingAdmit(c) \/ SlidingDeny(c) \/ FixedCheck(c)
    \/ ResetBegin
    \/ \E ids \in SUBSET DOMAIN counters, last \in BOOLEAN :
           ScanAnswers(ids, last)
    \/ SweepBatch
    \/ ResetReturns

Spec == Init /\ [][Next]_vars

-----------------------------------------------------------------------------
\* Type invariant.  A log never holds more than the limit, and never outlives
\* its sequence or its limit.
TypeOK ==
    /\ algorithm \in {"sliding", "fixed"}
    /\ clock \in Nat
    /\ DOMAIN sent \subseteq Caller
    /\ \A c \in DOMAIN sent : sent[c] \in [now : Nat, at : Nat]
    /\ log.members \subseteq [score : Nat, seq : Nat] /\ log.expires \in Nat
    /\ Cardinality(log.members) <= Limit
    /\ {seq, swmax} \subseteq [value : Nat, expires : Nat]
    /\ log.members # {} => seq # Gone /\ swmax # Gone
    /\ \A w \in DOMAIN counters :
          counters[w] \in [value : 1..Limit + 1, expires : Nat]
    /\ pointer \in [value : Nat, expires : Nat]
    /\ resetting.phase \in {"idle", "scan", "sweep", "done"}
    /\ resetting.left \subseteq DOMAIN counters
    /\ admitted \subseteq [at : Nat, window : Nat, nth : Nat]

\* The requests admitted in the d ticks up to `end`, and at it.
AdmittedIn(d, end) == {a \in admitted : a.at <= end /\ a.at >= end - d}

\* "The ZSET member MUST be unique per admitted request" (redis.rs:191), so
\* that the members count the requests: whatever clocks the instances send and
\* in whatever order, no stretch shorter than the window less the spread of the
\* readings sees more than max_requests admitted that no reset forgave, the
\* same millisecond included.
SlidingBound ==
    algorithm = "sliding" /\ Slack >= Spread =>
        \A a \in admitted :
            Cardinality(AdmittedIn(Window - Spread - 1, a.at)) <= Limit

\* A fixed window may be used up at its end and the next at its beginning,
\* but readings spread over instances open no third: in a stretch that with
\* the spread fits a window, at most twice max_requests are admitted.
FixedBound ==
    algorithm = "fixed" /\ Slack >= Spread =>
        \A a \in admitted :
            Cardinality(AdmittedIn(Window - Spread, a.at)) <= 2 * Limit

\* A denied request was denied by max_requests admitted ones of the last
\* window and the spread: neither a denial, nor a lost call, nor a reset that
\* stopped half-way keeps a key out.
DenialJustified ==
    [][\A c \in DOMAIN sent :
          (SlidingDeny(c) \/ (FixedCheck(c) /\ admitted' = admitted)) =>
              Cardinality(AdmittedIn(Window + Spread - 1, clock)) >= Limit]_vars

\* "remaining == limit - live entries" (redis.rs:433), "locate the live window
\* bucket via the companion pointer" (redis.rs:424): remaining hides no
\* admission of the last window less the spread from a sliding window; of a
\* fixed one it looks at the last window that was opened, which is never more
\* than one behind: a late request may open the window before last.
RemainingShows ==
    Spread <= Window =>
        /\ algorithm = "sliding" /\ Slack >= Spread =>
               Remaining + Cardinality(AdmittedIn(Window - Spread - 1, clock))
                   <= Limit
        /\ pointer # Gone =>
               \A w \in DOMAIN counters : w <= pointer.value + 1

\* "Reset rate limit state for a key" (stores/mod.rs:60): when the sweep of a
\* reset is through, none of the counters that were there when it began has
\* kept its count, in however many batches they came, while checks went on.
ResetForgives == resetting.phase = "done" => resetting.left = {}
=============================================================================
