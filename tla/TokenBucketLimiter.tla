------------------------- MODULE TokenBucketLimiter -------------------------
(***************************************************************************)
(* What a token bucket promises, with no store behind it: every key has a  *)
(* level that rises by one unit a tick up to Full, a request is admitted   *)
(* exactly when the level holds one token, and an admission takes one      *)
(* token out (algorithms/mod.rs: "Tokens are added at a fixed rate, up to  *)
(* a maximum capacity").  A unit is the fraction of a token that one tick  *)
(* earns: a token is TicksPerToken units.                                  *)
(***************************************************************************)
EXTENDS Integers

CONSTANTS Key, Capacity, TicksPerToken

VARIABLES level, answer

limiterVars == <<level, answer>>

Brimful == Capacity * TicksPerToken

NoAnswer == [key |-> {}, allowed |-> FALSE, remaining |-> 0]

Init ==
    /\ level = [k \in Key |-> Brimful]
    /\ answer = NoAnswer

\* A request on key k.
Ask(k) ==
    IF level[k] >= TicksPerToken
    THEN /\ level' = [level EXCEPT ![k] = @ - TicksPerToken]
         /\ answer' = [key |-> k, allowed |-> TRUE,
                       remaining |-> level'[k] \div TicksPerToken]
    ELSE /\ answer' = [key |-> k, allowed |-> FALSE, remaining |-> 0]
         /\ UNCHANGED level

\* One tick: every bucket earns one unit.
Elapse ==
    /\ level' = [k \in Key |-> IF level[k] < Brimful THEN level[k] + 1
                                                     ELSE Brimful]
    /\ UNCHANGED answer

\* An operator resets the key, or the hard cap takes its entry away.
Forgive(k) ==
    /\ level' = [level EXCEPT ![k] = Brimful]
    /\ UNCHANGED answer

Next == Elapse \/ \E k \in Key : Ask(k) \/ Forgive(k)

Spec == Init /\ [][Next]_limiterVars
=============================================================================
