-------------------------- MODULE RateLimiter_proofs --------------------------
(***************************************************************************)
(* Proofs about a RateLimiter, for every value of the constants: of the    *)
(* path of a request through RateLimitMiddleware, and of the background    *)
(* task whose handle the limiter keeps.                                    *)
(*                                                                         *)
(* The first part is about keys: what normalize_path computes, by the      *)
(* least prefix that would go wrong, and what can be read back from the    *)
(* texts the extractors put together.  The second is about the path: the   *)
(* types, an invariant of each request by itself, the two counts, and what *)
(* the store has given against what it has been asked for.  The last is    *)
(* about the task.  Liveness stays with TLC.                               *)
(***************************************************************************)
EXTENDS RateLimitMiddleware, PruneTask, FiniteSetTheorems, SequenceTheorems,
        TLAPS

\* A set of numbers has a least one.
LEMMA Least ==
    ASSUME NEW S \in SUBSET Nat, S # {}
    PROVE  \E x \in S : \A y \in S : x <= y
<1>1. PICK x \in S : \A y \in S : ~(<<y, x>> \in OpToRel(<, Nat))
  BY NatLessThanWellFounded, WFMin
<1>2. \A y \in S : ~(y < x)
  BY <1>1 DEF OpToRel
<1>3. QED
  BY <1>2

\* The function that Stacks chooses exists.
Stacking(path, m, f) ==
    f = [n \in 0..m |-> IF n = 0 THEN <<>> ELSE Stacked(f[n - 1], path[n])]

\* The stacks of a path are a function that obeys the recursion: there is one
\* of each length, by the least length that has none.
LEMMA StackingExists ==
    ASSUME NEW path, NEW m \in Nat
    PROVE  \E f : Stacking(path, m, f)
<1> DEFINE Bad == {n \in Nat : ~ \E f : Stacking(path, n, f)}
<1>1. ASSUME Bad # {} PROVE FALSE
  <2>1. PICK n \in Bad : \A k \in Bad : n <= k
    BY <1>1, Least
  <2>2. ~ \E f : Stacking(path, n, f)
    OBVIOUS
  <2>3. CASE n = 0
    <3>1. Stacking(path, 0, [i \in 0..0 |-> <<>>])
      BY DEF Stacking
    <3>2. QED
      BY <2>2, <2>3, <3>1
  <2>4. CASE n # 0
    <3>1. n - 1 \in Nat /\ ~(n <= n - 1)
      BY <2>4
    <3>2. PICK f : Stacking(path, n - 1, f)
      BY <2>1, <3>1
    <3> DEFINE g == [i \in 0..n |-> IF i = n THEN Stacked(f[n - 1], path[n]) ELSE f[i]]
    <3>3. ASSUME NEW i \in 0..n
          PROVE  g[i] = IF i = 0 THEN <<>> ELSE Stacked(g[i - 1], path[i])
      <4>1. CASE i = n
        <5>1. n - 1 \in 0..n /\ n - 1 # n
          BY <3>1
        <5>2. g[n - 1] = f[n - 1]
          BY <5>1
        <5>3. QED
          BY <2>4, <4>1, <5>2
      <4>2. CASE i # n
        <5>1. i \in 0..(n - 1)
          BY <4>2
        <5>2. f[i] = IF i = 0 THEN <<>> ELSE Stacked(f[i - 1], path[i])
          BY <3>2, <5>1 DEF Stacking
        <5>3. g[i] = f[i]
          BY <4>2
        <5>4. ASSUME i # 0 PROVE g[i - 1] = f[i - 1]
          BY <4>2, <5>4
        <5>5. QED
          BY <5>2, <5>3, <5>4
      <4>3. QED
        BY <4>1, <4>2
    <3>4. g = [i \in 0..n |-> IF i = 0 THEN <<>> ELSE Stacked(g[i - 1], path[i])]
      BY <3>3
    <3>5. Stacking(path, n, g)
      BY <3>4 DEF Stacking
    <3>6. QED
      BY <2>2, <3>5
  <2>5. QED
    BY <2>3, <2>4
<1>2. QED
  BY <1>1

\* What Stacks is, one segment after another.
LEMMA StacksIs ==
    ASSUME NEW path \in Seq(STRING)
    PROVE  /\ Stacks(path)[0] = <<>>
           /\ \A n \in 1..Len(path) :
                  Stacks(path)[n] = Stacked(Stacks(path)[n - 1], path[n])
<1>1. Len(path) \in Nat
  BY LenProperties
<1>2. PICK f : Stacking(path, Len(path), f)
  BY <1>1, StackingExists
<1>3. Stacking(path, Len(path), Stacks(path))
  BY <1>2 DEF Stacking, Stacks
<1> DEFINE s == Stacks(path)
<1>4. s = [n \in 0..Len(path) |-> IF n = 0 THEN <<>> ELSE Stacked(s[n - 1], path[n])]
  BY <1>3 DEF Stacking
<1> HIDE DEF s
<1>5. \A n \in 0..Len(path) : s[n] = IF n = 0 THEN <<>> ELSE Stacked(s[n - 1], path[n])
  BY <1>4
<1>6. QED
  BY <1>1, <1>5 DEF s

-----------------------------------------------------------------------------
\* What the stack holds.

\* A segment that stands for itself; the segments of a stretch of a path that
\* do, and those that take one back.
Named(s) == s \notin {"", ".", ".."}

Names(path, i, j) == {n \in i..j : Named(path[n])}

Dots(path, i, j) == {n \in i..j : path[n] = ".."}

\* The segments that the first n leave, as Endpoint defines them.
Left(path, n) ==
    {i \in 1..n :
        /\ Named(path[i])
        /\ \A j \in i + 1..n :
              Cardinality(Dots(path, i + 1, j)) <= Cardinality(Names(path, i + 1, j))}

\* The part of a set of positions up to one, and the part after it.
UpTo(S, i) == {h \in S : h <= i}

After(S, i) == {h \in S : h > i}

\* stack lists what is left, in its order; and behind each segment that is
\* left there are as many more names than dots as segments are left.
Resolves(stack, path, n) ==
    /\ stack \in Seq(STRING)
    /\ Len(stack) = Cardinality(Left(path, n))
    /\ \A i \in Left(path, n) :
          /\ stack[Cardinality(UpTo(Left(path, n), i))] = path[i]
          /\ Cardinality(Names(path, i + 1, n)) - Cardinality(Dots(path, i + 1, n))
                = Cardinality(After(Left(path, n), i))
    /\ \A k \in 1..Len(stack) : \E i \in Left(path, n) :
          Cardinality(UpTo(Left(path, n), i)) = k

\* Sets of positions are finite.
LEMMA Positions ==
    ASSUME NEW n \in Nat, NEW S \in SUBSET (1..n)
    PROVE  IsFiniteSet(S) /\ Cardinality(S) \in Nat
<1>1. IsFiniteSet(1..n)
  BY FS_Interval
<1>2. IsFiniteSet(S)
  BY <1>1, FS_Subset
<1>3. QED
  BY <1>2, FS_CardinalityType

\* The positions in a stretch are finitely many.
LEMMA Finites ==
    ASSUME NEW path, NEW n \in Nat, NEW i \in Nat
    PROVE  /\ IsFiniteSet(Left(path, n)) /\ Cardinality(Left(path, n)) \in Nat
           /\ Left(path, n) \subseteq 1..n
           /\ \A h \in Nat :
                 /\ IsFiniteSet(UpTo(Left(path, n), h))
                 /\ Cardinality(UpTo(Left(path, n), h)) \in Nat
                 /\ IsFiniteSet(After(Left(path, n), h))
                 /\ Cardinality(After(Left(path, n), h)) \in Nat
           /\ IsFiniteSet(Names(path, i + 1, n))
           /\ Cardinality(Names(path, i + 1, n)) \in Nat
           /\ IsFiniteSet(Dots(path, i + 1, n))
           /\ Cardinality(Dots(path, i + 1, n)) \in Nat
<1>1. /\ Left(path, n) \subseteq 1..n
      /\ \A h \in Nat : /\ UpTo(Left(path, n), h) \subseteq 1..n
                        /\ After(Left(path, n), h) \subseteq 1..n
  BY DEF Left, UpTo, After
<1>2. Names(path, i + 1, n) \subseteq 1..n /\ Dots(path, i + 1, n) \subseteq 1..n
  BY DEF Names, Dots
<1>3. QED
  BY <1>1, <1>2, Positions

\* One more segment.
LEMMA NamesGrow ==
    ASSUME NEW path, NEW n \in Nat, NEW i \in 1..n
    PROVE  /\ Named(path[n + 1]) =>
                 Cardinality(Names(path, i + 1, n + 1)) =
                     Cardinality(Names(path, i + 1, n)) + 1
           /\ ~Named(path[n + 1]) =>
                 Cardinality(Names(path, i + 1, n + 1)) =
                     Cardinality(Names(path, i + 1, n))
           /\ path[n + 1] = ".." =>
                 Cardinality(Dots(path, i + 1, n + 1)) =
                     Cardinality(Dots(path, i + 1, n)) + 1
           /\ path[n + 1] # ".." =>
                 Cardinality(Dots(path, i + 1, n + 1)) =
                     Cardinality(Dots(path, i + 1, n))
<1>1. /\ Named(path[n + 1]) =>
            Names(path, i + 1, n + 1) = Names(path, i + 1, n) \cup {n + 1}
      /\ ~Named(path[n + 1]) => Names(path, i + 1, n + 1) = Names(path, i + 1, n)
  <2>1. i + 1..n + 1 = (i + 1..n) \cup {n + 1}
    OBVIOUS
  <2>2. QED
    BY <2>1 DEF Names
<1>2. /\ path[n + 1] = ".." =>
            Dots(path, i + 1, n + 1) = Dots(path, i + 1, n) \cup {n + 1}
      /\ path[n + 1] # ".." => Dots(path, i + 1, n + 1) = Dots(path, i + 1, n)
  BY DEF Dots
<1>3. n + 1 \notin Names(path, i + 1, n) /\ n + 1 \notin Dots(path, i + 1, n)
  BY DEF Names, Dots
<1>4. /\ IsFiniteSet(Names(path, i + 1, n)) /\ Cardinality(Names(path, i + 1, n)) \in Nat
      /\ IsFiniteSet(Dots(path, i + 1, n)) /\ Cardinality(Dots(path, i + 1, n)) \in Nat
  <2>1. i \in Nat
    OBVIOUS
  <2>2. QED
    BY <2>1, Finites
<1>5. /\ Cardinality(Names(path, i + 1, n) \cup {n + 1}) = Cardinality(Names(path, i + 1, n)) + 1
      /\ Cardinality(Dots(path, i + 1, n) \cup {n + 1}) = Cardinality(Dots(path, i + 1, n)) + 1
  BY <1>3, <1>4, FS_AddElement
<1>6. QED
  BY <1>1, <1>2, <1>5

\* Which segments are left after one more.
LEMMA LeftGrows ==
    ASSUME NEW path, NEW n \in Nat, NEW stack, Resolves(stack, path, n)
    PROVE  Left(path, n + 1) =
               {i \in Left(path, n) :
                   path[n + 1] = ".." => Cardinality(After(Left(path, n), i)) >= 1}
               \cup (IF Named(path[n + 1]) THEN {n + 1} ELSE {})
<1> DEFINE Holds(i, j) == Cardinality(Dots(path, i + 1, j))
                              <= Cardinality(Names(path, i + 1, j))
<1>1. ASSUME NEW i \in Left(path, n)
      PROVE  Holds(i, n + 1) <=>
                 (path[n + 1] = ".." => Cardinality(After(Left(path, n), i)) >= 1)
  <2>1. i \in 1..n /\ i \in Nat
    BY DEF Left
  <2>2. PICK c \in Nat, d \in Nat, a \in Nat :
            /\ c = Cardinality(Names(path, i + 1, n))
            /\ d = Cardinality(Dots(path, i + 1, n))
            /\ a = Cardinality(After(Left(path, n), i))
    BY <2>1, Finites
  <2>3. c - d = a
    BY <2>2 DEF Resolves
  <2>4. CASE path[n + 1] = ".."
    <3>1. ~Named(path[n + 1])
      BY <2>4 DEF Named
    <3>2. /\ Cardinality(Names(path, i + 1, n + 1)) = c
          /\ Cardinality(Dots(path, i + 1, n + 1)) = d + 1
      BY <2>1, <2>2, <2>4, <3>1, NamesGrow
    <3>3. QED
      BY <2>2, <2>3, <2>4, <3>2
  <2>5. CASE path[n + 1] # ".."
    <3>1. /\ \/ Cardinality(Names(path, i + 1, n + 1)) = c
             \/ Cardinality(Names(path, i + 1, n + 1)) = c + 1
          /\ Cardinality(Dots(path, i + 1, n + 1)) = d
      BY <2>1, <2>2, <2>5, NamesGrow
    <3>2. QED
      BY <2>2, <2>3, <2>5, <3>1
  <2>6. QED
    BY <2>4, <2>5
<1> DEFINE Stays(i, m) == Named(path[i]) /\ \A j \in i + 1..m : Holds(i, j)
<1>2. /\ Left(path, n) = {i \in 1..n : Stays(i, n)}
      /\ Left(path, n + 1) = {i \in 1..n + 1 : Stays(i, n + 1)}
  BY DEF Left
<1> HIDE DEF Holds
<1>3. ASSUME NEW i \in 1..n
      PROVE  Stays(i, n + 1) <=> Stays(i, n) /\ Holds(i, n + 1)
  <2>1. i + 1..n + 1 = (i + 1..n) \cup {n + 1}
    OBVIOUS
  <2>2. QED
    BY <2>1
<1>4. Stays(n + 1, n + 1) <=> Named(path[n + 1])
  <2>1. (n + 1) + 1..n + 1 = {}
    OBVIOUS
  <2>2. QED
    BY <2>1
<1> HIDE DEF Stays
<1>5. 1..n + 1 = (1..n) \cup {n + 1}
  OBVIOUS
<1>6. QED
  BY <1>1, <1>2, <1>3, <1>4, <1>5

\* Removing the last, adding one behind.
LEMMA LastOf ==
    ASSUME NEW n \in Nat, NEW S \in SUBSET (1..n), S # {}
    PROVE  \E x \in S : \A y \in S : y <= x
<1> DEFINE T == {n - x : x \in S}
<1>1. T \in SUBSET Nat /\ T # {}
  <2>1. ASSUME NEW x \in S PROVE n - x \in Nat
    OBVIOUS
  <2>2. QED
    BY <2>1
<1>2. PICK t \in T : \A u \in T : t <= u
  BY <1>1, Least
<1>3. PICK x \in S : t = n - x
  OBVIOUS
<1>4. ASSUME NEW y \in S PROVE y <= x
  <2>1. n - y \in T
    OBVIOUS
  <2>2. n - x <= n - y
    BY <1>2, <1>3, <2>1
  <2>3. QED
    BY <2>2
<1>5. QED
  BY <1>4

\* A segment that changes nothing.
LEMMA ResolvesSame ==
    ASSUME NEW path \in Seq(STRING), NEW n \in Nat, n + 1 \in 1..Len(path),
           NEW stack, Resolves(stack, path, n),
           path[n + 1] \in {"", "."}
    PROVE  Resolves(stack, path, n + 1)
<1>1. ~Named(path[n + 1]) /\ path[n + 1] # ".."
  BY DEF Named
<1>2. Left(path, n + 1) = Left(path, n)
  BY <1>1, LeftGrows
<1>3. ASSUME NEW i \in Left(path, n)
      PROVE  /\ Cardinality(Names(path, i + 1, n + 1)) = Cardinality(Names(path, i + 1, n))
             /\ Cardinality(Dots(path, i + 1, n + 1)) = Cardinality(Dots(path, i + 1, n))
  <2>1. Left(path, n) \subseteq 1..n
    BY DEF Left
  <2>2. QED
    BY <1>1, <2>1, NamesGrow
<1>4. QED
  BY <1>2, <1>3 DEF Resolves

\* A name goes on the stack.
LEMMA ResolvesPush ==
    ASSUME NEW path \in Seq(STRING), NEW n \in Nat, n + 1 \in 1..Len(path),
           NEW stack, Resolves(stack, path, n),
           Named(path[n + 1])
    PROVE  Resolves(Append(stack, path[n + 1]), path, n + 1)
<1> DEFINE S  == Left(path, n)
           S2 == Left(path, n + 1)
           s  == path[n + 1]
           stack2 == Append(stack, s)
<1>1. s \in STRING /\ s # ".."
  BY ElementOfSeq DEF Named
<1>0. path[n + 1] # ".."
  BY DEF Named
<1>2. S2 = S \cup {n + 1}
  BY <1>0, LeftGrows
<1>3. /\ IsFiniteSet(S) /\ Cardinality(S) \in Nat
      /\ S \subseteq 1..n /\ n + 1 \notin S
  BY Finites DEF Left
<1>4. /\ stack2 \in Seq(STRING) /\ Len(stack) \in Nat
      /\ Len(stack2) = Len(stack) + 1
      /\ \A k \in 1..Len(stack) : stack2[k] = stack[k]
      /\ stack2[Len(stack) + 1] = s
  BY <1>1, AppendProperties, LenProperties DEF Resolves
<1>5. Len(stack) = Cardinality(S)
  BY DEF Resolves
<1> HIDE DEF S, S2, s, stack2
<1>6. Cardinality(S2) = Cardinality(S) + 1
  BY <1>2, <1>3, FS_AddElement
<1>7. UpTo(S2, n + 1) = S2 /\ After(S2, n + 1) = {}
  <2>1. \A h \in S2 : h <= n + 1 /\ ~(h > n + 1)
    BY <1>2, <1>3
  <2>2. QED
    BY <2>1 DEF UpTo, After
<1>8. ASSUME NEW i \in S
      PROVE  /\ UpTo(S2, i) = UpTo(S, i)
             /\ After(S2, i) = After(S, i) \cup {n + 1}
             /\ n + 1 \notin After(S, i)
  BY <1>2, <1>3 DEF UpTo, After
<1>9. ASSUME NEW i \in S
      PROVE  /\ Cardinality(UpTo(S, i)) \in 1..Len(stack)
             /\ IsFiniteSet(After(S, i)) /\ Cardinality(After(S, i)) \in Nat
  <2>1. i \in Nat
    BY <1>3
  <2>2. /\ IsFiniteSet(UpTo(S, i)) /\ Cardinality(UpTo(S, i)) \in Nat
        /\ IsFiniteSet(After(S, i)) /\ Cardinality(After(S, i)) \in Nat
    BY <2>1, Finites DEF S
  <2>3. UpTo(S, i) \subseteq S /\ i \in UpTo(S, i)
    BY <2>1 DEF UpTo
  <2>4. Cardinality(UpTo(S, i)) <= Cardinality(S)
    BY <1>3, <2>3, FS_Subset
  <2>5. Cardinality(UpTo(S, i)) # 0
    BY <2>2, <2>3, FS_EmptySet
  <2>6. QED
    BY <1>3, <1>5, <2>2, <2>4, <2>5
<1>10. ASSUME NEW i \in S2
       PROVE  /\ stack2[Cardinality(UpTo(S2, i))] = path[i]
              /\ Cardinality(Names(path, i + 1, n + 1))
                    - Cardinality(Dots(path, i + 1, n + 1))
                    = Cardinality(After(S2, i))
  <2>1. CASE i \in S
    <3>1. stack2[Cardinality(UpTo(S2, i))] = path[i]
      <4>1. stack[Cardinality(UpTo(S, i))] = path[i]
        BY <2>1 DEF Resolves, S
      <4>2. QED
        BY <1>4, <1>8, <1>9, <2>1, <4>1
    <3>2. i \in 1..n /\ i \in Nat
      BY <1>3, <2>1
    <3>3. PICK c \in Nat, d \in Nat, a \in Nat :
              /\ c = Cardinality(Names(path, i + 1, n))
              /\ d = Cardinality(Dots(path, i + 1, n))
              /\ a = Cardinality(After(S, i))
      BY <1>9, <2>1, <3>2, Finites
    <3>4. c - d = a
      BY <2>1, <3>3 DEF Resolves, S
    <3>5. /\ Cardinality(Names(path, i + 1, n + 1)) = c + 1
          /\ Cardinality(Dots(path, i + 1, n + 1)) = d
      BY <1>0, <3>2, <3>3, NamesGrow
    <3>6. Cardinality(After(S2, i)) = a + 1
      BY <1>8, <1>9, <2>1, <3>3, FS_AddElement
    <3>7. QED
      BY <3>1, <3>3, <3>4, <3>5, <3>6
  <2>2. CASE i = n + 1
    <3>1. stack2[Cardinality(UpTo(S2, i))] = path[i]
      BY <1>4, <1>5, <1>6, <1>7, <2>2 DEF s
    <3>2. Names(path, i + 1, n + 1) = {} /\ Dots(path, i + 1, n + 1) = {}
      BY <2>2 DEF Names, Dots
    <3>3. Cardinality({}) = 0
      BY FS_EmptySet
    <3>4. After(S2, i) = {}
      BY <1>7, <2>2
    <3>5. Cardinality(Names(path, i + 1, n + 1)) - Cardinality(Dots(path, i + 1, n + 1)) = 0
      <4>1. Cardinality(Names(path, i + 1, n + 1)) = 0
        BY <3>2, <3>3
      <4>2. Cardinality(Dots(path, i + 1, n + 1)) = 0
        BY <3>2, <3>3
      <4>3. QED
        BY <4>1, <4>2
    <3>6. QED
      BY <3>1, <3>3, <3>4, <3>5
  <2>3. QED
    BY <1>2, <2>1, <2>2
<1>11. ASSUME NEW k \in 1..Len(stack2)
       PROVE  \E i \in S2 : Cardinality(UpTo(S2, i)) = k
  <2>1. CASE k \in 1..Len(stack)
    <3>1. PICK i \in S : Cardinality(UpTo(S, i)) = k
      BY <2>1 DEF Resolves, S
    <3>2. QED
      BY <1>2, <1>8, <3>1
  <2>2. CASE k = Len(stack) + 1
    BY <1>2, <1>5, <1>6, <1>7, <2>2
  <2>3. QED
    BY <1>4, <2>1, <2>2
<1>12. QED
  BY <1>4, <1>5, <1>6, <1>10, <1>11 DEF Resolves, S2, stack2, s

\* ".." takes the last name back, if there is one.
LEMMA ResolvesPop ==
    ASSUME NEW path \in Seq(STRING), NEW n \in Nat, n + 1 \in 1..Len(path),
           NEW stack, Resolves(stack, path, n),
           path[n + 1] = ".."
    PROVE  Resolves(IF stack = <<>> THEN <<>> ELSE Front(stack), path, n + 1)
<1> DEFINE S  == Left(path, n)
           S2 == Left(path, n + 1)
<1>1. ~Named(path[n + 1])
  BY DEF Named
<1>2. S2 = {i \in S : Cardinality(After(S, i)) >= 1}
  BY <1>1, LeftGrows
<1>3. /\ IsFiniteSet(S) /\ Cardinality(S) \in Nat /\ S \subseteq 1..n
  BY Finites DEF Left
<1>4. ASSUME NEW i \in S
      PROVE  /\ i \in 1..n /\ i \in Nat
             /\ IsFiniteSet(UpTo(S, i)) /\ Cardinality(UpTo(S, i)) \in Nat
             /\ IsFiniteSet(After(S, i)) /\ Cardinality(After(S, i)) \in Nat
  <2>1. i \in 1..n /\ i \in Nat
    BY <1>3
  <2>2. QED
    BY <2>1, Finites
<1>5. stack \in Seq(STRING) /\ Len(stack) = Cardinality(S) /\ Len(stack) \in Nat
  BY LenProperties DEF Resolves
<1>6. CASE stack = <<>>
  <2>1. Cardinality(S) = 0
    BY <1>5, <1>6, EmptySeq
  <2>2. S = {}
    BY <1>3, <2>1, FS_EmptySet
  <2>3. S2 = {}
    BY <1>2, <2>2
  <2>4. Cardinality({}) = 0
    BY FS_EmptySet
  <2>5. <<>> \in Seq(STRING) /\ Len(<<>>) = 0
    BY EmptySeq
  <2>6. 1..Len(<<>>) = {}
    BY <2>5
  <2>7. Resolves(<<>>, path, n + 1)
    BY <2>3, <2>4, <2>5, <2>6, Zenon DEF Resolves
  <2>8. QED
    BY <1>6, <2>7
<1>7. CASE stack # <<>>
  <2> DEFINE stack2 == Front(stack)
  <2>1. S # {}
    <3>1. Len(stack) # 0
      BY <1>5, <1>7, EmptySeq
    <3>2. QED
      BY <1>3, <1>5, <3>1, FS_EmptySet
  <2>2. PICK last \in S : \A y \in S : y <= last
    BY <1>3, <2>1, LastOf
  <2>3. stack2 = SubSeq(stack, 1, Len(stack) - 1)
    BY DEF Front
  <2>4. /\ stack2 \in Seq(STRING) /\ Len(stack2) = Len(stack) - 1
        /\ \A k \in 1..Len(stack) - 1 : stack2[k] = stack[k]
    <3>1. Len(stack) >= 1
      BY <1>5, <1>7, EmptySeq
    <3>2. \A k \in 1..Len(stack) - 1 : stack[k] \in STRING
      <4>1. \A k \in 1..Len(stack) : stack[k] \in STRING
        BY <1>5, ElementOfSeq
      <4>2. QED
        BY <1>5, <4>1
    <3>3. /\ SubSeq(stack, 1, Len(stack) - 1) \in Seq(STRING)
          /\ Len(SubSeq(stack, 1, Len(stack) - 1)) =
                 IF 1 <= Len(stack) - 1 THEN (Len(stack) - 1) - 1 + 1 ELSE 0
          /\ \A k \in 1..(Len(stack) - 1) - 1 + 1 :
                 SubSeq(stack, 1, Len(stack) - 1)[k] = stack[1 + k - 1]
      <4>1. 1 \in Int /\ Len(stack) - 1 \in Int
        BY <1>5
      <4>2. QED
        BY <3>2, <4>1, SubSeqProperties
    <3> HIDE DEF stack2
    <3>4. Len(stack2) = Len(stack) - 1
      BY <1>5, <2>3, <3>1, <3>3
    <3>5. ASSUME NEW k \in 1..Len(stack) - 1 PROVE stack2[k] = stack[k]
      <4>1. k \in 1..(Len(stack) - 1) - 1 + 1 /\ 1 + k - 1 = k
        BY <1>5
      <4>2. QED
        BY <2>3, <3>3, <4>1
    <3>6. QED
      BY <2>3, <3>3, <3>4, <3>5
  <2> HIDE DEF stack2, S, S2
  <2>5. After(S, last) = {} /\ UpTo(S, last) = S
    <3>1. \A h \in S : h <= last /\ ~(h > last)
      BY <1>4, <2>2
    <3>2. QED
      BY <3>1 DEF After, UpTo
  <2>6. S2 = S \ {last}
    <3>1. Cardinality({}) = 0
      BY FS_EmptySet
    <3>2. ASSUME NEW i \in S, i # last
          PROVE  Cardinality(After(S, i)) >= 1
      <4>1. last \in After(S, i)
        <5>1. i \in Int /\ last \in Int /\ i <= last
          BY <1>4, <2>2
        <5>2. last > i
          BY <3>2, <5>1
        <5>3. QED
          BY <5>2 DEF After
      <4>2. Cardinality(After(S, i)) # 0
        BY <1>4, <4>1, FS_EmptySet
      <4>3. QED
        BY <1>4, <4>2
    <3>3. ~(Cardinality(After(S, last)) >= 1)
      BY <2>5, <3>1
    <3>4. QED
      BY <1>2, <3>2, <3>3
  <2>7. Cardinality(S2) = Cardinality(S) - 1
    BY <1>3, <2>6, FS_RemoveElement
  <2>8. ASSUME NEW i \in S2
        PROVE  /\ UpTo(S2, i) = UpTo(S, i)
               /\ After(S2, i) = After(S, i) \ {last}
               /\ last \in After(S, i)
               /\ Cardinality(UpTo(S, i)) \in 1..Len(stack) - 1
    <3>1. last > i /\ ~(last <= i) /\ i <= i
      <4>1. i \in S /\ i # last
        BY <2>6
      <4>2. i \in Int /\ last \in Int /\ i <= last
        BY <1>4, <2>2, <4>1
      <4>3. QED
        BY <4>1, <4>2
    <3>2. /\ UpTo(S2, i) = UpTo(S, i)
          /\ After(S2, i) = After(S, i) \ {last}
          /\ last \in After(S, i)
      BY <2>6, <3>1, Zenon DEF UpTo, After
    <3>3. UpTo(S, i) \subseteq S2 /\ i \in UpTo(S, i)
      BY <2>6, <3>1, Zenon DEF UpTo
    <3>4. IsFiniteSet(S2)
      BY <1>3, <2>6, FS_Subset
    <3>5. Cardinality(UpTo(S, i)) <= Cardinality(S2)
      BY <3>3, <3>4, FS_Subset
    <3>6. Cardinality(UpTo(S, i)) # 0 /\ Cardinality(UpTo(S, i)) \in Nat
      BY <1>4, <2>6, <3>3, FS_EmptySet
    <3>7. QED
      BY <1>5, <2>7, <3>2, <3>5, <3>6
  <2>9. ASSUME NEW i \in S2
        PROVE  /\ stack2[Cardinality(UpTo(S2, i))] = path[i]
               /\ Cardinality(Names(path, i + 1, n + 1))
                     - Cardinality(Dots(path, i + 1, n + 1))
                     = Cardinality(After(S2, i))
    <3>1. i \in S
      BY <2>6
    <3>2. stack2[Cardinality(UpTo(S2, i))] = path[i]
      <4>1. stack[Cardinality(UpTo(S, i))] = path[i]
        BY <3>1 DEF Resolves, S
      <4>2. QED
        BY <2>4, <2>8, <4>1
    <3>3. i \in 1..n /\ i \in Nat
      BY <1>4, <3>1
    <3>4. PICK c \in Nat, d \in Nat, a \in Nat :
              /\ c = Cardinality(Names(path, i + 1, n))
              /\ d = Cardinality(Dots(path, i + 1, n))
              /\ a = Cardinality(After(S, i))
      BY <1>4, <3>1, <3>3, Finites
    <3>5. c - d = a
      BY <3>1, <3>4 DEF Resolves, S
    <3>6. /\ Cardinality(Names(path, i + 1, n + 1)) = c
          /\ Cardinality(Dots(path, i + 1, n + 1)) = d + 1
      BY <1>1, <3>3, <3>4, NamesGrow
    <3>7. Cardinality(After(S2, i)) = a - 1
      BY <1>4, <2>8, <3>1, <3>4, FS_RemoveElement
    <3>8. QED
      BY <3>2, <3>4, <3>5, <3>6, <3>7
  <2>10. ASSUME NEW k \in 1..Len(stack2)
         PROVE  \E i \in S2 : Cardinality(UpTo(S2, i)) = k
    <3>1. k \in 1..Len(stack) /\ k # Len(stack)
      BY <1>5, <2>4
    <3>2. PICK i \in S : Cardinality(UpTo(S, i)) = k
      BY <3>1 DEF Resolves, S
    <3>3. i # last
      BY <1>5, <2>5, <3>1, <3>2
    <3>4. QED
      BY <2>6, <2>8, <3>2, <3>3
  <2>11. QED
    BY <1>5, <1>7, <2>4, <2>7, <2>9, <2>10 DEF Resolves, S2, stack2
<1>8. QED
  BY <1>6, <1>7

\* normalize_path leaves the segments that Resolved keeps, in their order.
LEMMA StacksResolve ==
    ASSUME NEW path \in Seq(STRING)
    PROVE  \A n \in 0..Len(path) : Resolves(Stacks(path)[n], path, n)
<1> DEFINE Bad == {n \in 0..Len(path) : ~Resolves(Stacks(path)[n], path, n)}
<1>1. Len(path) \in Nat
  BY LenProperties
<1>2. ASSUME Bad # {} PROVE FALSE
  <2>1. Bad \in SUBSET Nat
    BY <1>1
  <2>2. PICK n \in Bad : \A m \in Bad : n <= m
    BY <1>2, <2>1, Least
  <2>3. n \in 0..Len(path) /\ ~Resolves(Stacks(path)[n], path, n)
    OBVIOUS
  <2>4. CASE n = 0
    <3>1. Left(path, 0) = {} /\ Cardinality({}) = 0
      BY FS_EmptySet DEF Left
    <3>2. <<>> \in Seq(STRING) /\ Len(<<>>) = 0
      BY EmptySeq
    <3>3. 1..Len(<<>>) = {}
      BY <3>2
    <3>4. Resolves(<<>>, path, 0)
      BY <3>1, <3>2, <3>3, Zenon DEF Resolves
    <3>5. QED
      BY <2>3, <2>4, <3>4, StacksIs
  <2>5. CASE n # 0
    <3>1. PICK m \in Nat : n = m + 1 /\ m \in 0..Len(path) /\ m + 1 \in 1..Len(path)
      <4>1. n - 1 \in Nat /\ n = (n - 1) + 1 /\ n - 1 \in 0..Len(path)
            /\ (n - 1) + 1 \in 1..Len(path)
        BY <1>1, <2>3, <2>5
      <4>2. QED
        BY <4>1
    <3> DEFINE stack == Stacks(path)[m]
    <3>2. Resolves(stack, path, m)
      <4>1. ~(n <= m)
        BY <3>1
      <4>2. m \notin Bad
        BY <2>2, <4>1
      <4>3. QED
        BY <3>1, <4>2
    <3>3. Stacks(path)[n] = Stacked(stack, path[m + 1])
      <4>1. m + 1 - 1 = m
        OBVIOUS
      <4>2. Stacks(path)[m + 1] = Stacked(Stacks(path)[m + 1 - 1], path[m + 1])
        BY <3>1, StacksIs
      <4>3. QED
        BY <3>1, <4>1, <4>2
    <3> HIDE DEF stack
    <3>4. CASE path[m + 1] \in {"", "."}
      <4>1. Stacked(stack, path[m + 1]) = stack
        BY <3>4 DEF Stacked
      <4>2. QED
        BY <2>3, <3>1, <3>2, <3>3, <3>4, <4>1, ResolvesSame
    <3>5. CASE path[m + 1] = ".."
      <4>1. Stacked(stack, path[m + 1]) = IF stack = <<>> THEN <<>> ELSE Front(stack)
        BY <3>5 DEF Stacked
      <4>2. QED
        BY <2>3, <3>1, <3>2, <3>3, <3>5, <4>1, ResolvesPop
    <3>6. CASE Named(path[m + 1])
      <4>1. Stacked(stack, path[m + 1]) = Append(stack, path[m + 1])
        BY <3>6 DEF Stacked, Named
      <4>2. QED
        BY <2>3, <3>1, <3>2, <3>3, <3>6, <4>1, ResolvesPush
    <3>7. QED
      BY <3>4, <3>5, <3>6 DEF Named
  <2>6. QED
    BY <2>4, <2>5
<1>3. QED
  BY <1>2

\* An endpoint is what is left of the whole path.
LEMMA EndpointIs ==
    ASSUME NEW path \in Seq(STRING)
    PROVE  LET stack == Stacks(path)[Len(path)]
           IN  /\ stack \in Seq(STRING)
               /\ Endpoint(path) = {<<k, stack[k]>> : k \in 1..Len(stack)}
<1> DEFINE n == Len(path)
           S == Left(path, n)
           stack == Stacks(path)[n]
<1>1. n \in Nat /\ DOMAIN path = 1..n
  BY LenProperties
<1>2. Resolves(stack, path, n)
  BY <1>1, StacksResolve
<1>3. Endpoint(path) = {<<Cardinality(UpTo(S, i)), path[i]>> : i \in S}
  BY <1>1, Zenon DEF Endpoint, UpTo, Left, Names, Dots, Named
<1>4. ASSUME NEW i \in S
      PROVE  /\ Cardinality(UpTo(S, i)) \in 1..Len(stack)
             /\ stack[Cardinality(UpTo(S, i))] = path[i]
  <2>1. i \in Nat
    BY <1>1 DEF Left
  <2>2. /\ IsFiniteSet(UpTo(S, i)) /\ Cardinality(UpTo(S, i)) \in Nat
        /\ IsFiniteSet(S) /\ Cardinality(S) \in Nat
    BY <1>1, <2>1, Finites
  <2> HIDE DEF S
  <2>3. UpTo(S, i) \subseteq S /\ i \in UpTo(S, i)
    BY <2>1 DEF UpTo
  <2>4. Cardinality(UpTo(S, i)) <= Cardinality(S) /\ Cardinality(UpTo(S, i)) # 0
    BY <2>2, <2>3, FS_Subset, FS_EmptySet
  <2>5. Len(stack) = Cardinality(S)
    BY <1>2 DEF Resolves, S
  <2>6. stack[Cardinality(UpTo(S, i))] = path[i]
    BY <1>2 DEF Resolves, S
  <2>7. QED
    BY <2>2, <2>4, <2>5, <2>6
<1>5. \A k \in 1..Len(stack) : \E i \in S : Cardinality(UpTo(S, i)) = k
  BY <1>2 DEF Resolves
<1>6. stack \in Seq(STRING)
  BY <1>2 DEF Resolves
<1> HIDE DEF S, stack
<1>7. Endpoint(path) \subseteq {<<k, stack[k]>> : k \in 1..Len(stack)}
  <2> SUFFICES ASSUME NEW i \in S
               PROVE  <<Cardinality(UpTo(S, i)), path[i]>>
                          \in {<<k, stack[k]>> : k \in 1..Len(stack)}
    BY <1>3, Zenon
  <2>1. QED
    BY <1>4
<1>8. {<<k, stack[k]>> : k \in 1..Len(stack)} \subseteq Endpoint(path)
  <2> SUFFICES ASSUME NEW k \in 1..Len(stack)
               PROVE  <<k, stack[k]>> \in Endpoint(path)
    OBVIOUS
  <2>1. PICK i \in S : Cardinality(UpTo(S, i)) = k
    BY <1>5
  <2>2. stack[k] = path[i]
    BY <1>4, <2>1
  <2>3. QED
    BY <1>3, <2>1, <2>2
<1>9. QED
  BY <1>6, <1>7, <1>8 DEF stack

-----------------------------------------------------------------------------
\* What is glued together.

\* The tokens of a key.  The provers do not know that a literal is a STRING.
Token == STRING \cup {"/", "/64", ":", "apikey:", "sha256(", ")"}

\* A joined path: a "/" at the odd places, the segments at the even ones.
LEMMA JoinedIs ==
    ASSUME NEW s \in Seq(STRING)
    PROVE  /\ Joined(s) \in Seq(Token)
           /\ Len(Joined(s)) = IF s = <<>> THEN 1 ELSE 2 * Len(s)
           /\ Joined(s)[1] = "/"
           /\ s # <<>> => \A k \in 1..Len(s) : Joined(s)[2 * k] = s[k]
<1>1. Len(s) \in Nat /\ (s # <<>> => Len(s) >= 1)
  BY EmptySeq, LenProperties
<1>2. CASE s = <<>>
  <2>1. Joined(s) = <<"/">>
    BY <1>2 DEF Joined
  <2>2. "/" \in Token
    BY DEF Token
  <2>3. <<"/">> \in Seq(Token) /\ Len(<<"/">>) = 1 /\ <<"/">>[1] = "/"
    BY <2>2
  <2>4. QED
    BY <1>2, <2>1, <2>3, Zenon
<1>3. CASE s # <<>>
  <2> DEFINE at(i) == IF i % 2 = 1 THEN "/" ELSE s[i \div 2]
             n == 2 * Len(s)
  <2>1. Joined(s) = [i \in 1..n |-> at(i)]
    BY <1>3, Zenon DEF Joined
  <2>2. n \in Nat /\ n >= 2
    BY <1>1, <1>3
  <2>3. ASSUME NEW i \in 1..n PROVE at(i) \in Token
    <3>1. CASE i % 2 = 1
      <4>1. "/" \in Token
        BY DEF Token
      <4>2. at(i) = "/"
        BY <3>1
      <4>3. QED
        BY <4>1, <4>2
    <3>2. CASE i % 2 # 1
      <4>1. i \div 2 \in 1..Len(s)
        BY <1>1, <3>2
      <4>2. s[i \div 2] \in STRING
        BY <4>1, ElementOfSeq
      <4>3. at(i) = s[i \div 2]
        BY <3>2
      <4>4. QED
        BY <4>2, <4>3 DEF Token
    <3>3. QED
      BY <3>1, <3>2
  <2>4. at(1) = "/"
    OBVIOUS
  <2>5. ASSUME NEW k \in 1..Len(s) PROVE 2 * k \in 1..n /\ at(2 * k) = s[k]
    <3>1. 2 * k \in 1..n /\ (2 * k) % 2 # 1 /\ (2 * k) \div 2 = k
      BY <1>1
    <3>2. QED
      BY <3>1
  <2> HIDE DEF at, n
  <2>6. /\ [i \in 1..n |-> at(i)] \in [1..n -> Token]
        /\ 1 \in 1..n
    BY <2>2, <2>3
  <2>7. [i \in 1..n |-> at(i)] \in Seq(Token) /\ Len([i \in 1..n |-> at(i)]) = n
    <3>1. [i \in 1..n |-> at(i)] \in Seq(Token)
      BY <2>2, <2>6, SeqDef
    <3>2. DOMAIN [i \in 1..n |-> at(i)] = 1..n
      OBVIOUS
    <3>3. QED
      BY <2>2, <3>1, <3>2
  <2>8. QED
    BY <1>3, <2>1, <2>4, <2>5, <2>6, <2>7 DEF n
<1>4. QED
  BY <1>2, <1>3

\* Paths that read the same once joined have the same segments.
LEMMA JoinedSeparates ==
    ASSUME NEW s \in Seq(STRING), NEW t \in Seq(STRING), Joined(s) = Joined(t)
    PROVE  s = t
<1>1. Len(s) \in Nat /\ Len(t) \in Nat
  BY LenProperties
<1>2. /\ Len(Joined(s)) = IF s = <<>> THEN 1 ELSE 2 * Len(s)
      /\ Len(Joined(t)) = IF t = <<>> THEN 1 ELSE 2 * Len(t)
  BY JoinedIs
<1>3. (s = <<>>) <=> (t = <<>>)
  <2>1. PICK m \in Nat, n \in Nat : m = Len(s) /\ n = Len(t)
    BY <1>1
  <2>2. 2 * m # 1 /\ 2 * n # 1
    BY <2>1
  <2>3. QED
    BY <1>2, <2>1, <2>2
<1>4. CASE s # <<>>
  <2>1. Len(s) = Len(t)
    BY <1>1, <1>2, <1>3, <1>4
  <2>2. \A k \in 1..Len(s) : s[k] = t[k]
    <3>1. \A k \in 1..Len(s) : Joined(s)[2 * k] = s[k]
      BY <1>4, JoinedIs
    <3>2. \A k \in 1..Len(t) : Joined(t)[2 * k] = t[k]
      BY <1>3, <1>4, JoinedIs
    <3>3. QED
      BY <2>1, <3>1, <3>2
  <2>3. QED
    BY <2>1, <2>2, SeqEqual
<1>5. QED
  BY <1>3, <1>4

\* extractor.rs:133: a path is normalised to what its endpoint is.
LEMMA NormalizePathIs ==
    ASSUME NEW p \in Seq(STRING), NEW q \in Seq(STRING)
    PROVE  /\ NormalizePath(p) \in Seq(Token) /\ NormalizePath(p)[1] = "/"
           /\ Len(NormalizePath(p)) >= 1
           /\ NormalizePath(p) = NormalizePath(q) <=> Endpoint(p) = Endpoint(q)
<1> DEFINE s == Stacks(p)[Len(p)]
           t == Stacks(q)[Len(q)]
<1>1. /\ s \in Seq(STRING) /\ t \in Seq(STRING)
      /\ Endpoint(p) = {<<k, s[k]>> : k \in 1..Len(s)}
      /\ Endpoint(q) = {<<k, t[k]>> : k \in 1..Len(t)}
  BY EndpointIs
<1>2. NormalizePath(p) = Joined(s) /\ NormalizePath(q) = Joined(t)
  BY DEF NormalizePath
<1> HIDE DEF s, t
<1>3. ASSUME Endpoint(p) = Endpoint(q) PROVE s = t
  <2>1. ASSUME NEW k \in 1..Len(s) PROVE k \in 1..Len(t) /\ s[k] = t[k]
    <3>1. <<k, s[k]>> \in Endpoint(q)
      BY <1>1, <1>3
    <3>2. PICK j \in 1..Len(t) : <<k, s[k]>> = <<j, t[j]>>
      BY <1>1, <3>1, Zenon
    <3>3. k = j /\ s[k] = t[j]
      BY <3>2
    <3>4. QED
      BY <3>3
  <2>2. ASSUME NEW k \in 1..Len(t) PROVE k \in 1..Len(s)
    <3>1. <<k, t[k]>> \in Endpoint(p)
      BY <1>1, <1>3
    <3>2. PICK j \in 1..Len(s) : <<k, t[k]>> = <<j, s[j]>>
      BY <1>1, <3>1, Zenon
    <3>3. k = j
      BY <3>2
    <3>4. QED
      BY <3>3
  <2>3. Len(s) \in Nat /\ Len(t) \in Nat
    BY <1>1, LenProperties
  <2>4. Len(s) = Len(t)
    <3>1. Len(s) >= 1 => Len(s) \in 1..Len(t)
      BY <2>1, <2>3
    <3>2. Len(t) >= 1 => Len(t) \in 1..Len(s)
      BY <2>2, <2>3
    <3>3. QED
      BY <2>3, <3>1, <3>2
  <2>5. QED
    BY <1>1, <2>1, <2>4, SeqEqual
<1>4. ASSUME Joined(s) = Joined(t) PROVE Endpoint(p) = Endpoint(q)
  BY <1>1, <1>4, JoinedSeparates
<1>5. Joined(s) \in Seq(Token) /\ Joined(s)[1] = "/" /\ Len(Joined(s)) >= 1
  <2>1. s # <<>> => Len(s) \in Nat /\ Len(s) >= 1
    BY <1>1, EmptySeq, LenProperties
  <2>2. QED
    BY <1>1, <2>1, JoinedIs
<1>6. QED
  BY <1>2, <1>3, <1>4, <1>5

\* An Option holds nothing, or one value.
LEMMA OptionIs ==
    ASSUME NEW S, NEW o \in Option(S)
    PROVE  o = {} \/ \E x \in S : o = {x}
  BY DEF Option

\* An address is named by its IPv4 form, or by its /64.
LEMMA IpBucketIs ==
    ASSUME NEW ip \in Address
    PROVE  \E n \in STRING :
              \/ IpBucket(ip) = <<n>> /\ Subscriber(ip) = [v4 |-> {n}]
              \/ IpBucket(ip) = <<n, "/64">> /\ Subscriber(ip) = [net |-> n]
<1>1. ip.host \in STRING /\ ip.net \in STRING /\ ip.mapped \in Option(STRING)
  BY DEF Address
<1>2. CASE ip.version = 4
  BY <1>1, <1>2 DEF IpBucket, Subscriber
<1>3. CASE ip.version # 4 /\ ip.mapped # {}
  <2>1. PICK n \in STRING : ip.mapped = {n}
    BY <1>1, <1>3, OptionIs
  <2>2. (CHOOSE v4 \in ip.mapped : TRUE) = n
    BY <2>1
  <2>3. QED
    BY <1>3, <2>1, <2>2 DEF IpBucket, Subscriber
<1>4. CASE ip.version # 4 /\ ip.mapped = {}
  BY <1>1, <1>4 DEF IpBucket, Subscriber
<1>5. QED
  BY <1>2, <1>3, <1>4

\* An address is named by a text.
LEMMA IpBucketTyped ==
    ASSUME NEW ip \in Address
    PROVE  IpBucket(ip) \in Seq(Token)
<1>1. PICK n \in STRING : IpBucket(ip) = <<n>> \/ IpBucket(ip) = <<n, "/64">>
  BY IpBucketIs
<1>2. n \in Token /\ "/64" \in Token
  BY DEF Token
<1>3. <<n>> \in Seq(Token) /\ <<n, "/64">> \in Seq(Token)
  BY <1>2
<1>4. QED
  BY <1>1, <1>3

\* Addresses share their bucket exactly if they share their subscriber.
LEMMA IpBucketSeparates ==
    ASSUME NEW ip \in Address, NEW jp \in Address
    PROVE  IpBucket(ip) = IpBucket(jp) <=> Subscriber(ip) = Subscriber(jp)
<1>1. PICK m \in STRING :
          \/ IpBucket(ip) = <<m>> /\ Subscriber(ip) = [v4 |-> {m}]
          \/ IpBucket(ip) = <<m, "/64">> /\ Subscriber(ip) = [net |-> m]
  BY IpBucketIs
<1>2. PICK n \in STRING :
          \/ IpBucket(jp) = <<n>> /\ Subscriber(jp) = [v4 |-> {n}]
          \/ IpBucket(jp) = <<n, "/64">> /\ Subscriber(jp) = [net |-> n]
  BY IpBucketIs
<1>3. /\ <<m>> = <<n>> <=> m = n
      /\ <<m, "/64">> = <<n, "/64">> <=> m = n
      /\ <<m>> # <<n, "/64">> /\ <<m, "/64">> # <<n>>
  OBVIOUS
<1>4. /\ [v4 |-> {m}] = [v4 |-> {n}] <=> m = n
      /\ [net |-> m] = [net |-> n] <=> m = n
  OBVIOUS
<1>5. [v4 |-> {m}] # [net |-> n] /\ [net |-> m] # [v4 |-> {n}]
  OBVIOUS
<1>6. QED
  BY <1>1, <1>2, <1>3, <1>4, <1>5, Zenon

\* What two texts are, one after the other.
LEMMA ConcatIs ==
    ASSUME NEW u \in Seq(Token), NEW v \in Seq(Token)
    PROVE  /\ u \o v \in Seq(Token) /\ Len(u \o v) = Len(u) + Len(v)
           /\ \A i \in 1..Len(u) : (u \o v)[i] = u[i]
           /\ \A i \in 1..Len(v) : (u \o v)[Len(u) + i] = v[i]
<1>1. Len(u) \in Nat /\ Len(v) \in Nat
  BY LenProperties
<1>2. /\ u \o v \in Seq(Token) /\ Len(u \o v) = Len(u) + Len(v)
      /\ \A i \in 1..Len(u) + Len(v) :
            (u \o v)[i] = IF i <= Len(u) THEN u[i] ELSE v[i - Len(u)]
  BY ConcatProperties
<1>3. QED
  BY <1>1, <1>2

\* A name, a colon and a path.
LEMMA GlueIs ==
    ASSUME NEW u \in Seq(Token), NEW p \in Seq(Token)
    PROVE  LET w == u \o <<":">> \o p
           IN  /\ w \in Seq(Token) /\ Len(w) = Len(u) + 1 + Len(p)
               /\ \A i \in 1..Len(u) : w[i] = u[i]
               /\ w[Len(u) + 1] = ":"
               /\ \A i \in 1..Len(p) : w[Len(u) + 1 + i] = p[i]
<1> DEFINE c == <<":">>
           v == u \o c
           w == v \o p
<1>1. Len(u) \in Nat /\ Len(p) \in Nat
  BY LenProperties
<1>2. c \in Seq(Token) /\ Len(c) = 1 /\ c[1] = ":"
  <2>1. ":" \in Token
    BY DEF Token
  <2>2. QED
    BY <2>1
<1> HIDE DEF c
<1>3. /\ v \in Seq(Token) /\ Len(v) = Len(u) + 1
      /\ \A i \in 1..Len(u) : v[i] = u[i]
      /\ v[Len(u) + 1] = ":"
  <2>1. /\ u \o c \in Seq(Token) /\ Len(u \o c) = Len(u) + Len(c)
        /\ \A i \in 1..Len(u) : (u \o c)[i] = u[i]
        /\ \A i \in 1..Len(c) : (u \o c)[Len(u) + i] = c[i]
    BY <1>2, ConcatIs
  <2>2. v = u \o c
    OBVIOUS
  <2> HIDE DEF v
  <2>3. QED
    BY <1>1, <1>2, <2>1, <2>2
<1> HIDE DEF v
<1>5. /\ w \in Seq(Token) /\ Len(w) = Len(v) + Len(p)
      /\ \A i \in 1..Len(v) : w[i] = v[i]
      /\ \A i \in 1..Len(p) : w[Len(v) + i] = p[i]
  <2>1. /\ v \o p \in Seq(Token) /\ Len(v \o p) = Len(v) + Len(p)
        /\ \A i \in 1..Len(v) : (v \o p)[i] = v[i]
        /\ \A i \in 1..Len(p) : (v \o p)[Len(v) + i] = p[i]
    BY <1>3, ConcatIs
  <2>2. w = v \o p
    OBVIOUS
  <2> HIDE DEF w
  <2>3. QED
    BY <1>3, <1>1, <1>2, <2>1, <2>2
<1> HIDE DEF w
<1>6. /\ \A i \in 1..Len(u) : w[i] = u[i]
      /\ w[Len(u) + 1] = ":"
  BY <1>1, <1>3, <1>5
<1>7. QED
  BY <1>3, <1>5, <1>6 DEF w, v, c

\* Names of the same length are told apart from the paths they are joined to.
LEMMA GlueSeparates ==
    ASSUME NEW u \in Seq(Token), NEW p \in Seq(Token),
           NEW v \in Seq(Token), NEW q \in Seq(Token),
           Len(u) = Len(v), u \o <<":">> \o p = v \o <<":">> \o q
    PROVE  u = v /\ p = q
<1> DEFINE w == u \o <<":">> \o p
<1>1. /\ Len(w) = Len(u) + 1 + Len(p)
      /\ \A i \in 1..Len(u) : w[i] = u[i]
      /\ \A i \in 1..Len(p) : w[Len(u) + 1 + i] = p[i]
  BY GlueIs
<1>2. /\ Len(w) = Len(v) + 1 + Len(q)
      /\ \A i \in 1..Len(v) : w[i] = v[i]
      /\ \A i \in 1..Len(q) : w[Len(v) + 1 + i] = q[i]
  BY GlueIs
<1>3. Len(u) \in Nat /\ Len(p) \in Nat /\ Len(q) \in Nat
  BY LenProperties
<1> HIDE DEF w
<1>4. Len(p) = Len(q)
  BY <1>1, <1>2, <1>3
<1>5. u = v
  BY <1>1, <1>2, SeqEqual
<1>6. p = q
  BY <1>1, <1>2, <1>4, SeqEqual
<1>7. QED
  BY <1>5, <1>6

\* Without colons in the names the first colon is where a name ends.
LEMMA NoColonSeparates ==
    ASSUME NEW u \in Seq(Token), NEW p \in Seq(Token),
           NEW v \in Seq(Token), NEW q \in Seq(Token),
           \A i \in 1..Len(u) : u[i] # ":", \A i \in 1..Len(v) : v[i] # ":",
           u \o <<":">> \o p = v \o <<":">> \o q
    PROVE  u = v /\ p = q
<1> DEFINE w == u \o <<":">> \o p
<1>1. (\A i \in 1..Len(u) : w[i] = u[i]) /\ w[Len(u) + 1] = ":"
  BY GlueIs
<1>2. (\A i \in 1..Len(v) : w[i] = v[i]) /\ w[Len(v) + 1] = ":"
  BY GlueIs
<1> HIDE DEF w
<1>3. Len(u) \in Nat /\ Len(v) \in Nat
  BY LenProperties
<1>4. ~(Len(u) < Len(v))
  <2>1. SUFFICES ASSUME Len(u) < Len(v) PROVE FALSE
    OBVIOUS
  <2>2. Len(u) + 1 \in 1..Len(v)
    BY <1>3, <2>1
  <2>3. QED
    BY <1>1, <1>2, <2>2
<1>5. ~(Len(v) < Len(u))
  <2>1. SUFFICES ASSUME Len(v) < Len(u) PROVE FALSE
    OBVIOUS
  <2>2. Len(v) + 1 \in 1..Len(u)
    BY <1>3, <2>1
  <2>3. QED
    BY <1>1, <1>2, <2>2
<1>6. Len(u) = Len(v)
  BY <1>3, <1>4, <1>5
<1>7. QED
  BY <1>6, GlueSeparates

\* What the bucket of an API key looks like.
LEMMA ApiKeyBucketIs ==
    ASSUME NEW t \in Seq(Token)
    PROVE  LET w == ApiKeyBucket(t)
           IN  /\ w \in Seq(Token) /\ Len(w) = Len(t) + 3
               /\ w[1] = "apikey:" /\ w[2] = "sha256("
               /\ \A i \in 1..Len(t) : w[i + 2] = t[i]
<1> DEFINE a == <<"sha256(">>
           z == <<")">>
           h == <<"apikey:">>
           b == a \o t
           c == b \o z
           w == h \o c
<1>1. /\ a \in Seq(Token) /\ Len(a) = 1 /\ a[1] = "sha256("
      /\ z \in Seq(Token) /\ Len(z) = 1
      /\ h \in Seq(Token) /\ Len(h) = 1 /\ h[1] = "apikey:"
  <2>1. "sha256(" \in Token /\ ")" \in Token /\ "apikey:" \in Token
    BY DEF Token
  <2>2. QED
    BY <2>1
<1>2. Len(t) \in Nat
  BY LenProperties
<1> HIDE DEF a, z, h
<1>3. /\ b \in Seq(Token) /\ Len(b) = 1 + Len(t)
      /\ b[1] = "sha256(" /\ \A i \in 1..Len(t) : b[1 + i] = t[i]
  <2>1. /\ a \o t \in Seq(Token) /\ Len(a \o t) = Len(a) + Len(t)
        /\ \A i \in 1..Len(a) : (a \o t)[i] = a[i]
        /\ \A i \in 1..Len(t) : (a \o t)[Len(a) + i] = t[i]
    BY <1>1, ConcatIs
  <2>2. b = a \o t
    OBVIOUS
  <2> HIDE DEF b
  <2>3. QED
    BY <1>1, <1>2, <2>1, <2>2
<1> HIDE DEF b
<1>4. /\ c \in Seq(Token) /\ Len(c) = Len(b) + 1
      /\ \A i \in 1..Len(b) : c[i] = b[i]
  <2>1. /\ b \o z \in Seq(Token) /\ Len(b \o z) = Len(b) + Len(z)
        /\ \A i \in 1..Len(b) : (b \o z)[i] = b[i]
        /\ \A i \in 1..Len(z) : (b \o z)[Len(b) + i] = z[i]
    BY <1>1, <1>3, ConcatIs
  <2>2. c = b \o z
    OBVIOUS
  <2> HIDE DEF c
  <2>3. QED
    BY <1>3, <1>1, <1>2, <2>1, <2>2
<1> HIDE DEF c
<1>5. /\ w \in Seq(Token) /\ Len(w) = 1 + Len(c) /\ w[1] = h[1]
      /\ \A i \in 1..Len(c) : w[1 + i] = c[i]
  <2>1. /\ h \o c \in Seq(Token) /\ Len(h \o c) = Len(h) + Len(c)
        /\ \A i \in 1..Len(h) : (h \o c)[i] = h[i]
        /\ \A i \in 1..Len(c) : (h \o c)[Len(h) + i] = c[i]
    BY <1>1, <1>4, ConcatIs
  <2>2. w = h \o c
    OBVIOUS
  <2> HIDE DEF w
  <2>3. QED
    BY <1>4, <1>1, <1>2, <2>1, <2>2
<1>6. w = ApiKeyBucket(t)
  BY DEF ApiKeyBucket, KeyDigest, w, c, b, a, z, h
<1> HIDE DEF w
<1>7. Len(w) = Len(t) + 3 /\ w[1] = "apikey:" /\ w[2] = "sha256("
  <2>1. w[1 + 1] = c[1] /\ c[1] = b[1]
    BY <1>2, <1>3, <1>4, <1>5
  <2>2. QED
    BY <1>1, <1>2, <1>3, <1>4, <1>5, <2>1
<1>8. ASSUME NEW i \in 1..Len(t) PROVE w[i + 2] = t[i]
  <2>1. 1 + i \in 1..Len(b) /\ 1 + i \in 1..Len(c) /\ i + 2 = 1 + (1 + i)
    BY <1>2, <1>3, <1>4
  <2>2. w[1 + (1 + i)] = c[1 + i] /\ c[1 + i] = b[1 + i] /\ b[1 + i] = t[i]
    BY <1>3, <1>4, <1>5, <2>1
  <2>3. QED
    BY <2>1, <2>2
<1>9. QED
  BY <1>5, <1>6, <1>7, <1>8

\* No two API keys share a bucket.
LEMMA ApiKeyBucketSeparates ==
    ASSUME NEW s \in Seq(Token), NEW t \in Seq(Token),
           ApiKeyBucket(s) = ApiKeyBucket(t)
    PROVE  s = t
<1>1. /\ Len(ApiKeyBucket(s)) = Len(s) + 3
      /\ \A i \in 1..Len(s) : ApiKeyBucket(s)[i + 2] = s[i]
  BY ApiKeyBucketIs
<1>2. /\ Len(ApiKeyBucket(t)) = Len(t) + 3
      /\ \A i \in 1..Len(t) : ApiKeyBucket(t)[i + 2] = t[i]
  BY ApiKeyBucketIs
<1>3. Len(s) = Len(t)
  <2>1. Len(s) \in Nat /\ Len(t) \in Nat
    BY LenProperties
  <2>2. QED
    BY <1>1, <1>2, <2>1
<1>4. QED
  BY <1>1, <1>2, <1>3, SeqEqual

\* A text is made of tokens.
LEMMA TextIsTokens ==
    ASSUME NEW t \in Text
    PROVE  t \in Seq(Token)
<1>1. Len(t) \in Nat /\ t \in [1..Len(t) -> STRING]
  BY LenProperties DEF Text
<1>2. t \in [1..Len(t) -> Token]
  BY <1>1 DEF Token
<1>3. QED
  BY <1>1, <1>2, SeqDef

\* A header is found once.
LEMMA GetHeaderIs ==
    ASSUME NEW S, NEW headers \in Seq(S), NEW name
    PROVE  \/ GetHeader(headers, name) = {}
           \/ \E i \in 1..Len(headers) : GetHeader(headers, name) = {headers[i].value}
<1> DEFINE hits == {i \in DOMAIN headers : SameName(headers[i].name, name)}
           firsts == {j \in hits : \A h \in hits : j <= h}
<1>1. Len(headers) \in Nat /\ DOMAIN headers = 1..Len(headers)
  BY LenProperties
<1>2. hits \in SUBSET Nat /\ hits \subseteq 1..Len(headers)
  BY <1>1
<1>3. GetHeader(headers, name) = {headers[i].value : i \in firsts}
  BY Zenon DEF GetHeader
<1> HIDE DEF hits
<1>4. CASE hits = {}
  BY <1>3, <1>4
<1>5. CASE hits # {}
  <2>1. PICK i \in hits : \A h \in hits : i <= h
    BY <1>2, <1>5, Least
  <2>2. firsts = {i}
    <3>1. i \in firsts
      BY <2>1
    <3>2. ASSUME NEW j \in firsts PROVE j = i
      <4>1. j \in Nat /\ i \in Nat /\ j <= i /\ i <= j
        BY <1>2, <2>1
      <4>2. QED
        BY <4>1
    <3>3. QED
      BY <3>1, <3>2
  <2>3. i \in 1..Len(headers)
    BY <1>2
  <2> HIDE DEF firsts
  <2>4. QED
    BY <1>3, <2>2, <2>3
<1>6. QED
  BY <1>4, <1>5

\* A header that has been copied is found in the copy, and nothing else is.
LEMMA GetCopiedHeader ==
    ASSUME NEW name, NEW v
    PROVE  /\ GetHeader(<<[name |-> name, value |-> v]>>, name) = {v}
           /\ GetHeader(<<>>, name) = {}
<1> DEFINE h == [name |-> name, value |-> v]
           one == <<h>>
           hits == {i \in DOMAIN one : SameName(one[i].name, name)}
           firsts == {j \in hits : \A g \in hits : j <= g}
<1>1. DOMAIN one = {1} /\ one[1].name = name /\ one[1].value = v
  <2>1. h.name = name /\ h.value = v
    OBVIOUS
  <2> HIDE DEF h
  <2>2. DOMAIN one = {1} /\ one[1] = h
    OBVIOUS
  <2>3. QED
    BY <2>1, <2>2
<1>2. hits = {1}
  BY <1>1 DEF SameName
<1>3. firsts = {1}
  BY <1>2
<1>4. GetHeader(one, name) = {one[i].value : i \in firsts}
  BY Zenon DEF GetHeader
<1>5. GetHeader(one, name) = {v}
  BY <1>1, <1>3, <1>4
<1>6. GetHeader(<<>>, name) = {}
  BY DEF GetHeader
<1>7. QED
  BY <1>5, <1>6

\* Every key is one the store's keys range over.
KeyWith(e, d, a) ==
    Extract(e, [NewInfo(a.path) EXCEPT !.ip = ClientAddress(a, d),
                    !.user_id = a.identity, !.headers = a.headers])

\* Caller, with the extractor and the depth of the configuration given.
CallerWith(e, d, a) ==
    LET who == {Subscriber(ip) : ip \in ClientAddress(a, d)}
        named == GetHeader(a.headers, e.header)
    IN  CASE e.kind = "Ip"            -> who
          [] e.kind = "UserId"        -> a.identity
          [] e.kind = "ApiKey"        -> named \cap (IsValid \ {<<>>})
          [] e.kind = "Header"        -> named
          [] e.kind = "IpAndPath"     -> who \X {Endpoint(a.path)}
          [] e.kind = "UserIdAndPath" -> a.identity \X {Endpoint(a.path)}

\* A name joined to a path.
Glued(name, path) == name \o <<":">> \o NormalizePath(path)

\* What the six extractors make of a request, and whom it comes from.
LEMMA FormsAre ==
    ASSUME NEW e, NEW d, NEW a
    PROVE  /\ e.kind = "Ip" =>
                  /\ KeyWith(e, d, a) = {IpBucket(ip) : ip \in ClientAddress(a, d)}
                  /\ CallerWith(e, d, a) = {Subscriber(ip) : ip \in ClientAddress(a, d)}
           /\ e.kind = "UserId" =>
                  KeyWith(e, d, a) = a.identity /\ CallerWith(e, d, a) = a.identity
           /\ e.kind = "ApiKey" =>
                  /\ KeyWith(e, d, a) =
                         {ApiKeyBucket(v) :
                             v \in {v \in GetHeader(a.headers, e.header) :
                                       v # <<>> /\ v \in IsValid}}
                  /\ CallerWith(e, d, a) = GetHeader(a.headers, e.header) \cap (IsValid \ {<<>>})
           /\ e.kind = "Header" =>
                  /\ KeyWith(e, d, a) = GetHeader(a.headers, e.header)
                  /\ CallerWith(e, d, a) = GetHeader(a.headers, e.header)
           /\ e.kind = "IpAndPath" =>
                  /\ KeyWith(e, d, a) =
                         {Glued(IpBucket(ip), a.path) :
                             ip \in ClientAddress(a, d)}
                  /\ CallerWith(e, d, a) =
                         {Subscriber(ip) : ip \in ClientAddress(a, d)} \X {Endpoint(a.path)}
           /\ e.kind = "UserIdAndPath" =>
                  /\ KeyWith(e, d, a) =
                         {Glued(uid, a.path) : uid \in a.identity}
                  /\ CallerWith(e, d, a) = a.identity \X {Endpoint(a.path)}
<1> DEFINE info == [NewInfo(a.path) EXCEPT !.ip = ClientAddress(a, d),
                        !.user_id = a.identity, !.headers = a.headers]
<1>1. /\ info.ip = ClientAddress(a, d) /\ info.user_id = a.identity
      /\ info.headers = a.headers /\ info.path = a.path
  BY DEF NewInfo
<1>2. KeyWith(e, d, a) = Extract(e, info)
  BY DEF KeyWith
<1> HIDE DEF info
<1>3. QED
  BY <1>1, <1>2 DEF Extract, CallerWith, Glued

\* handle's copy of a header is as good as all of them.
LEMMA RequiredHeaderIs ==
    ASSUME NEW a \in Arrival, config.extractor.kind \in Kinds
    PROVE  LET e == config.extractor
               d == config.trusted_proxy_depth
           IN  /\ KeyOf(a) = KeyWith(e, d, a)
               /\ Extract(e, ExtractRequestInfo(a)) = KeyWith(e, d, a)
               /\ Caller(a) = CallerWith(e, d, a)
<1> DEFINE e == config.extractor
           d == config.trusted_proxy_depth
           copy == InfoOf(a)
           whole == ExtractRequestInfo(a)
           info == [NewInfo(a.path) EXCEPT !.ip = ClientAddress(a, d),
                        !.user_id = a.identity, !.headers = a.headers]
           named == GetHeader(a.headers, e.header)
<1>1. /\ info.ip = ClientAddress(a, d) /\ info.user_id = a.identity
      /\ info.headers = a.headers /\ info.path = a.path
  BY DEF NewInfo
<1>2. /\ whole.ip = ClientAddress(a, d) /\ whole.user_id = a.identity
      /\ whole.headers = a.headers /\ whole.path = a.path
  BY DEF NewInfo, ExtractRequestInfo
<1>3. /\ copy.ip = ClientAddress(a, d) /\ copy.user_id = a.identity
      /\ copy.path = a.path
  BY DEF NewInfo, InfoOf
<1>4. ASSUME e.kind \in {"ApiKey", "Header"}
      PROVE  GetHeader(copy.headers, e.header) = named
  <2> DEFINE wanted == RequiredHeader(config.extractor)
             values == UNION {GetHeader(a.headers, name) : name \in wanted}
  <2>1. wanted = {e.header}
    BY <1>4 DEF RequiredHeader
  <2>2. values = named
    BY <2>1
  <2>3. copy.headers = IF values = {} THEN <<>>
                       ELSE <<[name |-> CHOOSE n \in wanted : TRUE,
                               value |-> CHOOSE v \in values : TRUE]>>
    BY DEF NewInfo, InfoOf
  <2> HIDE DEF wanted, values, copy, named, e
  <2>4. CASE named = {}
    <3>1. copy.headers = <<>>
      BY <2>2, <2>3, <2>4
    <3>2. QED
      BY <2>4, <3>1, GetCopiedHeader
  <2>5. CASE named # {}
    <3>1. a.headers \in Seq([name : [folded : STRING, raw : STRING], value : Text])
      BY DEF Arrival
    <3>2. PICK v : named = {v}
      BY <2>5, <3>1, GetHeaderIs DEF named
    <3>3. (CHOOSE n \in wanted : TRUE) = e.header
      BY <2>1
    <3>4. (CHOOSE w \in values : TRUE) = v
      BY <2>2, <3>2
    <3>5. copy.headers = <<[name |-> e.header, value |-> v]>>
      BY <2>2, <2>3, <2>5, <3>3, <3>4
    <3>6. QED
      BY <3>2, <3>5, GetCopiedHeader
  <2>6. QED
    BY <2>4, <2>5
<1>5. KeyWith(e, d, a) = Extract(e, info)
  BY DEF KeyWith
<1>6. KeyOf(a) = Extract(e, copy)
  BY DEF KeyOf
<1>7. Caller(a) = CallerWith(e, d, a)
  BY DEF Caller, CallerBy, CallerWith
<1> HIDE DEF info, whole, copy
<1>8. ASSUME NEW i, i.ip = info.ip, i.user_id = info.user_id, i.path = info.path,
             e.kind \in {"ApiKey", "Header"} =>
                 GetHeader(i.headers, e.header) = GetHeader(info.headers, e.header)
      PROVE  Extract(e, i) = Extract(e, info)
  BY <1>8 DEF Extract
<1>9. Extract(e, copy) = Extract(e, info)
  BY <1>1, <1>3, <1>4, <1>8
<1>10. Extract(e, whole) = Extract(e, info)
  BY <1>1, <1>2, <1>8
<1>11. QED
  BY <1>5, <1>6, <1>7, <1>9, <1>10 DEF whole

\* A normalized path is a text.
LEMMA PathIs ==
    ASSUME NEW p \in Text
    PROVE  NormalizePath(p) \in Seq(Token)
  BY NormalizePathIs DEF Text

\* Paths that normalize alike are joined alike.
LEMMA GluedSame ==
    ASSUME NEW name, NEW p, NEW q, NormalizePath(p) = NormalizePath(q)
    PROVE  Glued(name, p) = Glued(name, q)
  BY DEF Glued

\* An address and a path can be read back from a key: an address has no ':'
\* of its own, and a "/64" is no ':'.
LEMMA IpAndPathSeparates ==
    ASSUME NEW ip \in Address, NEW jp \in Address, NEW p \in Text, NEW q \in Text,
           Glued(IpBucket(ip), p) = Glued(IpBucket(jp), q)
    PROVE  IpBucket(ip) = IpBucket(jp) /\ NormalizePath(p) = NormalizePath(q)
<1> DEFINE u == IpBucket(ip)
           v == IpBucket(jp)
           w == u \o <<":">> \o NormalizePath(p)
<1>1. /\ u \in Seq(Token) /\ v \in Seq(Token)
      /\ NormalizePath(p) \in Seq(Token) /\ NormalizePath(q) \in Seq(Token)
  BY IpBucketTyped, PathIs
<1>2. \/ Len(u) = 1
      \/ Len(u) = 2 /\ u[2] = "/64"
  <2>1. PICK m \in STRING : u = <<m>> \/ u = <<m, "/64">>
    BY IpBucketIs
  <2> HIDE DEF u
  <2>2. QED
    BY <2>1
<1>3. \/ Len(v) = 1
      \/ Len(v) = 2 /\ v[2] = "/64"
  <2>1. PICK m \in STRING : v = <<m>> \/ v = <<m, "/64">>
    BY IpBucketIs
  <2> HIDE DEF v
  <2>2. QED
    BY <2>1
<1>4. (\A i \in 1..Len(u) : w[i] = u[i]) /\ w[Len(u) + 1] = ":"
  BY <1>1, GlueIs
<1>5. (\A i \in 1..Len(v) : w[i] = v[i]) /\ w[Len(v) + 1] = ":"
  <2> DEFINE x == v \o <<":">> \o NormalizePath(q)
  <2>1. (\A i \in 1..Len(v) : x[i] = v[i]) /\ x[Len(v) + 1] = ":"
    BY <1>1, GlueIs
  <2>2. w = x
    BY DEF Glued
  <2> HIDE DEF w, x
  <2>3. QED
    BY <2>1, <2>2
<1> HIDE DEF u, v
<1>6. Len(u) = Len(v)
  <2> HIDE DEF w
  <2>1. ASSUME Len(u) = 1, Len(v) = 2 PROVE FALSE
    BY <1>3, <1>4, <1>5, <2>1
  <2>2. ASSUME Len(u) = 2, Len(v) = 1 PROVE FALSE
    BY <1>2, <1>4, <1>5, <2>2
  <2>3. QED
    BY <1>2, <1>3, <2>1, <2>2
<1>7. u \o <<":">> \o NormalizePath(p) = v \o <<":">> \o NormalizePath(q)
  BY DEF u, v, Glued
<1>8. u = v /\ NormalizePath(p) = NormalizePath(q)
  BY <1>1, <1>6, <1>7, GlueSeparates
<1>9. QED
  BY <1>8 DEF u, v

\* So can a user id without a ':' in it, and a path.
LEMMA UserIdAndPathSeparates ==
    ASSUME NEW u \in Text, NEW v \in Text, NEW p \in Text, NEW q \in Text,
           ":" \notin ToSet(u), ":" \notin ToSet(v),
           Glued(u, p) = Glued(v, q)
    PROVE  u = v /\ NormalizePath(p) = NormalizePath(q)
<1>1. /\ u \in Seq(Token) /\ v \in Seq(Token)
      /\ NormalizePath(p) \in Seq(Token) /\ NormalizePath(q) \in Seq(Token)
  BY TextIsTokens, PathIs
<1>2. /\ \A i \in 1..Len(u) : u[i] # ":"
      /\ \A i \in 1..Len(v) : v[i] # ":"
  <2>1. DOMAIN u = 1..Len(u) /\ DOMAIN v = 1..Len(v)
    BY <1>1, LenProperties
  <2>2. QED
    BY <2>1 DEF ToSet
<1>3. QED
  BY <1>1, <1>2, NoColonSeparates DEF Glued

\* What a request has to be keyed by.
LEMMA ArrivalHas ==
    ASSUME NEW a \in Arrival, NEW d \in Nat, NEW name
    PROVE  /\ a.path \in Text
           /\ ClientAddress(a, d) = {} \/ \E ip \in Address : ClientAddress(a, d) = {ip}
           /\ a.identity = {} \/ \E uid \in Text : a.identity = {uid}
           /\ \/ GetHeader(a.headers, name) = {}
              \/ \E v \in Text : GetHeader(a.headers, name) = {v}
<1>1. /\ a.peer \in Option(Address) /\ a.forwarded \in Seq(Address)
      /\ a.identity \in Option(Text) /\ a.path \in Text
      /\ a.headers \in Seq([name : [folded : STRING, raw : STRING], value : Text])
  BY DEF Arrival
<1>2. ClientAddress(a, d) = {} \/ \E ip \in Address : ClientAddress(a, d) = {ip}
  <2>1. CASE d = 0
    BY <1>1, <2>1, OptionIs DEF ClientAddress
  <2>2. CASE d # 0 /\ d <= Len(a.forwarded)
    <3>1. Len(a.forwarded) + 1 - d \in 1..Len(a.forwarded)
      <4>1. Len(a.forwarded) \in Nat
        BY <1>1, LenProperties
      <4>2. QED
        BY <2>2, <4>1
    <3>2. a.forwarded[Len(a.forwarded) + 1 - d] \in Address
      BY <1>1, <3>1, ElementOfSeq
    <3>3. QED
      BY <2>2, <3>2 DEF ClientAddress
  <2>3. CASE d # 0 /\ ~(d <= Len(a.forwarded))
    BY <2>3 DEF ClientAddress
  <2>4. QED
    BY <2>1, <2>2, <2>3
<1>3. a.identity = {} \/ \E uid \in Text : a.identity = {uid}
  BY <1>1, OptionIs
<1>4. ASSUME GetHeader(a.headers, name) # {}
      PROVE  \E v \in Text : GetHeader(a.headers, name) = {v}
  <2>1. PICK i \in 1..Len(a.headers) : GetHeader(a.headers, name) = {a.headers[i].value}
    BY <1>1, <1>4, GetHeaderIs
  <2>2. a.headers[i] \in [name : [folded : STRING, raw : STRING], value : Text]
    BY <1>1, ElementOfSeq
  <2>3. QED
    BY <2>1, <2>2
<1>5. QED
  BY <1>1, <1>2, <1>3, <1>4

\* A request has no key exactly if it has no caller, and never two keys.
LEMMA KeyWithOption ==
    ASSUME NEW e, e.kind \in Kinds, NEW d \in Nat, NEW a \in Arrival
    PROVE  /\ KeyWith(e, d, a) = {} <=> CallerWith(e, d, a) = {}
           /\ KeyWith(e, d, a) = {} \/ \E k : KeyWith(e, d, a) = {k}
<1> DEFINE k == KeyWith(e, d, a)
           c == CallerWith(e, d, a)
           ips == ClientAddress(a, d)
           named == GetHeader(a.headers, e.header)
           N == NormalizePath(a.path)
           E == Endpoint(a.path)
<1>1. /\ ips = {} \/ \E ip \in Address : ips = {ip}
      /\ a.identity = {} \/ \E uid \in Text : a.identity = {uid}
      /\ named = {} \/ \E v \in Text : named = {v}
  BY ArrivalHas
<1>2. /\ e.kind = "Ip" => /\ k = {IpBucket(ip) : ip \in ips}
                          /\ c = {Subscriber(ip) : ip \in ips}
      /\ e.kind = "UserId" => k = a.identity /\ c = a.identity
      /\ e.kind = "ApiKey" =>
             /\ k = {ApiKeyBucket(v) : v \in {v \in named : v # <<>> /\ v \in IsValid}}
             /\ c = named \cap (IsValid \ {<<>>})
      /\ e.kind = "Header" => k = named /\ c = named
      /\ e.kind = "IpAndPath" =>
             /\ k = {Glued(IpBucket(ip), a.path) : ip \in ips}
             /\ c = {Subscriber(ip) : ip \in ips} \X {E}
      /\ e.kind = "UserIdAndPath" =>
             /\ k = {Glued(uid, a.path) : uid \in a.identity}
             /\ c = a.identity \X {E}
  <2>1. e.kind = "Ip" =>
             k = {IpBucket(ip) : ip \in ips} /\ c = {Subscriber(ip) : ip \in ips}
    BY FormsAre
  <2>2. e.kind = "UserId" =>
             k = a.identity /\ c = a.identity
    BY FormsAre
  <2>3. e.kind = "ApiKey" =>
             /\ k = {ApiKeyBucket(v) : v \in {v \in named : v # <<>> /\ v \in IsValid}}
             /\ c = named \cap (IsValid \ {<<>>})
    BY FormsAre
  <2>4. e.kind = "Header" =>
             k = named /\ c = named
    BY FormsAre
  <2>5. e.kind = "IpAndPath" =>
             /\ k = {Glued(IpBucket(ip), a.path) : ip \in ips}
             /\ c = {Subscriber(ip) : ip \in ips} \X {E}
    BY FormsAre
  <2>6. e.kind = "UserIdAndPath" =>
             /\ k = {Glued(uid, a.path) : uid \in a.identity}
             /\ c = a.identity \X {E}
    BY FormsAre
  <2>7. QED
    BY <2>1, <2>2, <2>3, <2>4, <2>5, <2>6
<1> HIDE DEF k, c, ips, named, N, E
<1>3. CASE e.kind = "Ip"
  BY <1>1, <1>2, <1>3 DEF k, c
<1>4. CASE e.kind = "UserId"
  BY <1>1, <1>2, <1>4 DEF k, c
<1>5. CASE e.kind = "ApiKey"
  <2>1. {v \in named : v # <<>> /\ v \in IsValid} = c
    BY <1>2, <1>5
  <2>2. c = {} \/ \E v : c = {v}
    BY <1>1, <1>2, <1>5
  <2>3. k = {ApiKeyBucket(v) : v \in c}
    BY <1>2, <1>5, <2>1
  <2>4. QED
    BY <2>2, <2>3 DEF k, c
<1>6. CASE e.kind = "Header"
  BY <1>1, <1>2, <1>6 DEF k, c
<1>7. CASE e.kind = "IpAndPath"
  <2>1. k = {Glued(IpBucket(ip), a.path) : ip \in ips}
    BY <1>2, <1>7
  <2>2. c = {Subscriber(ip) : ip \in ips} \X {E}
    BY <1>2, <1>7
  <2>3. ips = {} => k = {} /\ c = {}
    BY <2>1, <2>2
  <2>4. ASSUME NEW ip \in Address, ips = {ip}
        PROVE  k = {Glued(IpBucket(ip), a.path)} /\ c # {}
    <3>1. <<Subscriber(ip), E>> \in c
      BY <2>2, <2>4
    <3>2. QED
      BY <2>1, <2>4, <3>1
  <2>5. QED
    BY <1>1, <2>3, <2>4 DEF k, c
<1>8. CASE e.kind = "UserIdAndPath"
  <2>1. k = {Glued(uid, a.path) : uid \in a.identity}
    BY <1>2, <1>8
  <2>2. c = a.identity \X {E}
    BY <1>2, <1>8
  <2>3. a.identity = {} => k = {} /\ c = {}
    BY <2>1, <2>2
  <2>4. ASSUME NEW uid \in Text, a.identity = {uid}
        PROVE  k = {Glued(uid, a.path)} /\ c # {}
    <3>1. <<uid, E>> \in c
      BY <2>2, <2>4
    <3>2. QED
      BY <2>1, <2>4, <3>1
  <2>5. QED
    BY <1>1, <2>3, <2>4 DEF k, c
<1>9. QED
  BY <1>3, <1>4, <1>5, <1>6, <1>7, <1>8 DEF Kinds

\* extractor.rs:113 and 133: without colons in user ids two requests have one
\* key exactly if they have one caller.
LEMMA KeyWithSeparates ==
    ASSUME NEW e, e.kind \in Kinds, NEW d \in Nat, NEW a \in Arrival, NEW b \in Arrival,
           e.kind = "UserIdAndPath" =>
               \A uid \in a.identity \cup b.identity : ":" \notin ToSet(uid)
    PROVE  KeyWith(e, d, a) = KeyWith(e, d, b) <=> CallerWith(e, d, a) = CallerWith(e, d, b)
<1> DEFINE k(r) == KeyWith(e, d, r)
           c(r) == CallerWith(e, d, r)
           ips(r) == ClientAddress(r, d)
           named(r) == GetHeader(r.headers, e.header)
           N(r) == NormalizePath(r.path)
           E(r) == Endpoint(r.path)
<1>2. \A r \in {a, b} :
      /\ e.kind = "Ip" => /\ k(r) = {IpBucket(ip) : ip \in ips(r)}
                          /\ c(r) = {Subscriber(ip) : ip \in ips(r)}
      /\ e.kind = "UserId" => k(r) = r.identity /\ c(r) = r.identity
      /\ e.kind = "ApiKey" =>
             /\ k(r) = {ApiKeyBucket(v) : v \in {v \in named(r) : v # <<>> /\ v \in IsValid}}
             /\ c(r) = named(r) \cap (IsValid \ {<<>>})
      /\ e.kind = "Header" => k(r) = named(r) /\ c(r) = named(r)
      /\ e.kind = "IpAndPath" =>
             /\ k(r) = {Glued(IpBucket(ip), r.path) : ip \in ips(r)}
             /\ c(r) = {Subscriber(ip) : ip \in ips(r)} \X {E(r)}
      /\ e.kind = "UserIdAndPath" =>
             /\ k(r) = {Glued(uid, r.path) : uid \in r.identity}
             /\ c(r) = r.identity \X {E(r)}
  <2> SUFFICES ASSUME NEW r
               PROVE
            /\ e.kind = "Ip" => /\ k(r) = {IpBucket(ip) : ip \in ips(r)}
                                /\ c(r) = {Subscriber(ip) : ip \in ips(r)}
            /\ e.kind = "UserId" => k(r) = r.identity /\ c(r) = r.identity
            /\ e.kind = "ApiKey" =>
                   /\ k(r) = {ApiKeyBucket(v) : v \in {v \in named(r) : v # <<>> /\ v \in IsValid}}
                   /\ c(r) = named(r) \cap (IsValid \ {<<>>})
            /\ e.kind = "Header" => k(r) = named(r) /\ c(r) = named(r)
            /\ e.kind = "IpAndPath" =>
                   /\ k(r) = {Glued(IpBucket(ip), r.path) : ip \in ips(r)}
                   /\ c(r) = {Subscriber(ip) : ip \in ips(r)} \X {E(r)}
            /\ e.kind = "UserIdAndPath" =>
                   /\ k(r) = {Glued(uid, r.path) : uid \in r.identity}
                   /\ c(r) = r.identity \X {E(r)}
    OBVIOUS
  <2>1. e.kind = "Ip" =>
             k(r) = {IpBucket(ip) : ip \in ips(r)} /\ c(r) = {Subscriber(ip) : ip \in ips(r)}
    BY FormsAre
  <2>2. e.kind = "UserId" =>
             k(r) = r.identity /\ c(r) = r.identity
    BY FormsAre
  <2>3. e.kind = "ApiKey" =>
             /\ k(r) = {ApiKeyBucket(v) : v \in {v \in named(r) : v # <<>> /\ v \in IsValid}}
             /\ c(r) = named(r) \cap (IsValid \ {<<>>})
    BY FormsAre
  <2>4. e.kind = "Header" =>
             k(r) = named(r) /\ c(r) = named(r)
    BY FormsAre
  <2>5. e.kind = "IpAndPath" =>
             /\ k(r) = {Glued(IpBucket(ip), r.path) : ip \in ips(r)}
             /\ c(r) = {Subscriber(ip) : ip \in ips(r)} \X {E(r)}
    <3>1. ASSUME e.kind = "IpAndPath"
          PROVE  k(r) = {Glued(IpBucket(ip), r.path) : ip \in ips(r)}
      BY <3>1, FormsAre
    <3>2. ASSUME e.kind = "IpAndPath"
          PROVE  c(r) = {Subscriber(ip) : ip \in ips(r)} \X {E(r)}
      BY <3>2, FormsAre
    <3>3. QED
      BY <3>1, <3>2
  <2>6. e.kind = "UserIdAndPath" =>
             /\ k(r) = {Glued(uid, r.path) : uid \in r.identity}
             /\ c(r) = r.identity \X {E(r)}
    <3>1. ASSUME e.kind = "UserIdAndPath"
          PROVE  k(r) = {Glued(uid, r.path) : uid \in r.identity}
      BY <3>1, FormsAre
    <3>2. ASSUME e.kind = "UserIdAndPath"
          PROVE  c(r) = r.identity \X {E(r)}
      BY <3>2, FormsAre
    <3>3. QED
      BY <3>1, <3>2
  <2>7. QED
    BY <2>1, <2>2, <2>3, <2>4, <2>5, <2>6
<1>0. \A r \in {a, b} : k(r) = {} <=> c(r) = {}
  BY KeyWithOption
<1> SUFFICES ASSUME k(a) # {}, k(b) # {}
             PROVE  k(a) = k(b) <=> c(a) = c(b)
  BY <1>0, Zenon
<1>1. \A r \in {a, b} :
         /\ r.path \in Text
         /\ ips(r) = {} \/ \E ip \in Address : ips(r) = {ip}
         /\ r.identity = {} \/ \E uid \in Text : r.identity = {uid}
         /\ named(r) = {} \/ \E v \in Text : named(r) = {v}
  <2> SUFFICES ASSUME NEW r \in Arrival
               PROVE  /\ r.path \in Text
                      /\ ips(r) = {} \/ \E ip \in Address : ips(r) = {ip}
                      /\ r.identity = {} \/ \E uid \in Text : r.identity = {uid}
                      /\ named(r) = {} \/ \E v \in Text : named(r) = {v}
    OBVIOUS
  <2>1. QED
    BY ArrivalHas
<1>3. N(a) = N(b) <=> E(a) = E(b)
  BY <1>1, NormalizePathIs DEF Text
<1> HIDE DEF k, c, ips, named
<1>4. CASE e.kind = "Ip"
  <2>1. PICK x \in Address, y \in Address :
            k(a) = {IpBucket(x)} /\ c(a) = {Subscriber(x)}
            /\ k(b) = {IpBucket(y)} /\ c(b) = {Subscriber(y)}
    <3>1. ASSUME NEW r \in {a, b}
          PROVE  \E x \in Address : k(r) = {IpBucket(x)} /\ c(r) = {Subscriber(x)}
      <4>1. k(r) = {IpBucket(ip) : ip \in ips(r)} /\ c(r) = {Subscriber(ip) : ip \in ips(r)}
        BY <1>2, <1>4
      <4>2. ips(r) # {}
        BY <4>1
      <4>3. PICK x \in Address : ips(r) = {x}
        BY <1>1, <4>2
      <4>4. QED
        BY <4>1, <4>3
    <3>2. QED
      BY <3>1
  <2>2. QED
    BY <2>1, IpBucketSeparates
<1>5. CASE e.kind = "UserId"
  BY <1>2, <1>5
<1>6. CASE e.kind = "ApiKey"
  <2>1. ASSUME NEW r \in {a, b}
        PROVE  \E v \in Text : k(r) = {ApiKeyBucket(v)} /\ c(r) = {v}
    <3>1. {v \in named(r) : v # <<>> /\ v \in IsValid} = c(r)
      BY <1>2, <1>6
    <3>2. k(r) = {ApiKeyBucket(v) : v \in c(r)}
      BY <1>2, <1>6, <3>1
    <3>3. c(r) # {} /\ c(r) \subseteq named(r)
      BY <1>2, <1>6, <3>2
    <3>4. PICK v \in Text : named(r) = {v}
      BY <1>1, <3>3
    <3>5. c(r) = {v}
      BY <3>3, <3>4
    <3>6. QED
      BY <3>2, <3>5
  <2>2. PICK x \in Text : k(a) = {ApiKeyBucket(x)} /\ c(a) = {x}
    BY <2>1
  <2>3. PICK y \in Text : k(b) = {ApiKeyBucket(y)} /\ c(b) = {y}
    BY <2>1
  <2>4. ApiKeyBucket(x) = ApiKeyBucket(y) => x = y
    BY TextIsTokens, ApiKeyBucketSeparates
  <2>5. QED
    BY <2>2, <2>3, <2>4
<1>7. CASE e.kind = "Header"
  BY <1>2, <1>7
<1>8. CASE e.kind = "IpAndPath"
  <2>1. ASSUME NEW r \in {a, b}
        PROVE  \E x \in Address : /\ k(r) = {Glued(IpBucket(x), r.path)}
                                  /\ c(r) = {<<Subscriber(x), E(r)>>}
    <3>1. /\ k(r) = {Glued(IpBucket(ip), r.path) : ip \in ips(r)}
          /\ c(r) = {Subscriber(ip) : ip \in ips(r)} \X {E(r)}
      BY <1>2, <1>8
    <3>2. ips(r) # {}
      BY <3>1
    <3>3. PICK x \in Address : ips(r) = {x}
      BY <1>1, <3>2
    <3> HIDE DEF N, E
    <3>4. {Subscriber(ip) : ip \in ips(r)} = {Subscriber(x)}
      BY <3>3
    <3>5. {Subscriber(x)} \X {E(r)} = {<<Subscriber(x), E(r)>>}
      OBVIOUS
    <3>6. QED
      BY <3>1, <3>3, <3>4, <3>5
  <2>2. PICK x \in Address : /\ k(a) = {Glued(IpBucket(x), a.path)}
                             /\ c(a) = {<<Subscriber(x), E(a)>>}
    BY <2>1
  <2>3. PICK y \in Address : /\ k(b) = {Glued(IpBucket(y), b.path)}
                             /\ c(b) = {<<Subscriber(y), E(b)>>}
    BY <2>1
  <2>4. ASSUME Glued(IpBucket(x), a.path) = Glued(IpBucket(y), b.path)
        PROVE  IpBucket(x) = IpBucket(y) /\ N(a) = N(b)
    <3>1. a.path \in Text /\ b.path \in Text
      BY <1>1
    <3>2. QED
      BY <2>4, <3>1, IpAndPathSeparates
  <2>8. ASSUME IpBucket(x) = IpBucket(y), N(a) = N(b)
        PROVE  Glued(IpBucket(x), a.path) = Glued(IpBucket(y), b.path)
    BY <2>8, GluedSame
  <2>5. IpBucket(x) = IpBucket(y) <=> Subscriber(x) = Subscriber(y)
    BY IpBucketSeparates
  <2> HIDE DEF N, E
  <2>6. <<Subscriber(x), E(a)>> = <<Subscriber(y), E(b)>>
            <=> Subscriber(x) = Subscriber(y) /\ E(a) = E(b)
    OBVIOUS
  <2>7. QED
    BY <1>3, <2>2, <2>3, <2>4, <2>5, <2>6, <2>8
<1>9. CASE e.kind = "UserIdAndPath"
  <2>1. ASSUME NEW r \in {a, b}
        PROVE  \E u \in Text : /\ k(r) = {Glued(u, r.path)} /\ r.identity = {u}
                               /\ c(r) = {<<u, E(r)>>}
    <3>1. /\ k(r) = {Glued(uid, r.path) : uid \in r.identity}
          /\ c(r) = r.identity \X {E(r)}
      BY <1>2, <1>9
    <3>2. r.identity # {}
      BY <3>1
    <3>3. PICK u \in Text : r.identity = {u}
      BY <1>1, <3>2
    <3> HIDE DEF N, E
    <3>4. {u} \X {E(r)} = {<<u, E(r)>>}
      OBVIOUS
    <3>5. QED
      BY <3>1, <3>3, <3>4
  <2>2. PICK x \in Text : /\ k(a) = {Glued(x, a.path)} /\ a.identity = {x}
                          /\ c(a) = {<<x, E(a)>>}
    BY <2>1
  <2>3. PICK y \in Text : /\ k(b) = {Glued(y, b.path)} /\ b.identity = {y}
                          /\ c(b) = {<<y, E(b)>>}
    BY <2>1
  <2>4. ASSUME Glued(x, a.path) = Glued(y, b.path)
        PROVE  x = y /\ N(a) = N(b)
    <3>1. ":" \notin ToSet(x) /\ ":" \notin ToSet(y)
      BY <1>9, <2>2, <2>3
    <3>2. a.path \in Text /\ b.path \in Text
      BY <1>1
    <3>3. QED
      BY <2>4, <3>1, <3>2, UserIdAndPathSeparates
  <2>8. ASSUME x = y, N(a) = N(b)
        PROVE  Glued(x, a.path) = Glued(y, b.path)
    <3>1. NormalizePath(a.path) = NormalizePath(b.path)
      BY <2>8
    <3>2. Glued(x, a.path) = Glued(x, b.path)
      BY <3>1, GluedSame, Zenon
    <3>3. QED
      BY <2>8, <3>2, Zenon
  <2> HIDE DEF N, E
  <2>5. <<x, E(a)>> = <<y, E(b)>> <=> x = y /\ E(a) = E(b)
    OBVIOUS
  <2>6. QED
    BY <1>3, <2>2, <2>3, <2>4, <2>5, <2>8
<1>10. QED
  BY <1>4, <1>5, <1>6, <1>7, <1>8, <1>9 DEF Kinds

-----------------------------------------------------------------------------
\* The inductive invariant, first its types.

\* The values of the variables.
Configs ==
    [algorithm : Option(Algorithms), store_type : StoreTypes, include_headers : BOOLEAN,
     skip_on_error : BOOLEAN, bypass_keys : SUBSET BypassKeys,
     trusted_proxy_depth : Depths \cup {0},
     extractor : Extractors \cup {DefaultExtractor},
     unkeyed_policy : UnkeyedRequestPolicies]

Answers == {ans \in [key : StoreKeys, allowed : BOOLEAN, remaining : Nat] :
                ans.allowed => ans.remaining < Limit}

Headers == [limit : {Limit}, remaining : {n \in Nat : n < Limit}, reset : Nat,
            retry_after : SUBSET Nat]

Replies == [status : {0, 200, 429, 500}, headers : Option(Headers),
            retry_after : Option(Nat)]

Phases == {"checking", "passed", "answered", "dropped", "abandoned"}

\* A limiter that serves can divide by its parameters, and requests come to
\* one that serves only.
ConfigTyped ==
    /\ stage \in {"building", "built", "failed", "serving"}
    /\ config \in Configs
    /\ stage \in {"built", "serving"} =>
           \E a \in config.algorithm : a.limit > 0 /\ a.ms > 0
    /\ stage # "serving" => Len(req) = 0
    /\ clock \in Nat

\* Who waits for the store, or has had its answer, has a key to ask for.
RequestsTyped ==
    /\ req \in Seq(Arrivals) /\ Len(req) <= MaxRequests
    /\ phase \in [1..Len(req) -> Phases]
    /\ key \in [1..Len(req) -> StoreKeys \cup {{}}]
    /\ result \in [1..Len(req) -> Option(Answers)]
    /\ reply \in [1..Len(req) -> Replies]
    /\ late \subseteq 1..Len(req)
    /\ \A r \in 1..Len(req) :
          phase[r] = "checking" \/ r \in late \/ result[r] # {} => key[r] # {}

Typed ==
    /\ ConfigTyped
    /\ RequestsTyped
    /\ level \in [StoreKeys -> 0..Limit]
    /\ skip_on_error_count \in Nat /\ unkeyed_allow_count \in Nat

-----------------------------------------------------------------------------
\* The arithmetic of the headers.

\* Milliseconds and seconds.
LEMMA SecsIs ==
    ASSUME NEW x \in Nat, NEW y \in Nat
    PROVE  /\ Secs(x) \in Nat
           /\ x <= y => Secs(x) <= Secs(y)
           /\ Secs(x) + Secs(y) <= Secs(x + y)
  BY DEF Secs

\* Multiplication makes no number smaller, but by zero.
LEMMA TimesAtLeast ==
    ASSUME NEW n \in Nat, n > 0, NEW x \in Nat
    PROVE  n * x \in Nat /\ x <= n * x
<1>1. PICK k \in Nat : n = k + 1
  <2>1. n - 1 \in Nat /\ n = (n - 1) + 1
    OBVIOUS
  <2>2. QED
    BY <2>1
<1>2. k * x \in Nat
  OBVIOUS
<1>3. n * x = k * x + x
  BY <1>1
<1>4. QED
  BY <1>2, <1>3

\* What is left by a division is less than the divisor.
LEMMA DivIs ==
    ASSUME NEW n \in Nat, NEW w \in Nat, w > 0
    PROVE  n \div w \in Nat /\ n < (n \div w) * w + w
  OBVIOUS

\* A window ends after now, by its length at most.
LEMMA NextBoundaryIs ==
    ASSUME NEW a, NEW now \in Nat, a.ms \in Nat, a.ms > 0
    PROVE  NextBoundary(a, now) \in Nat /\ now < NextBoundary(a, now)
<1>1. PICK w \in Nat, q \in Nat : /\ w = a.ms /\ q = now \div w
                                  /\ now < q * w + w
  BY DivIs
<1>2. NextBoundary(a, now) = (q + 1) * w
  BY <1>1 DEF NextBoundary
<1>3. (q + 1) * w = q * w + w /\ q * w \in Nat
  OBVIOUS
<1>4. QED
  BY <1>1, <1>2, <1>3

\* RateLimiter::check: a denial's reset is no sooner than its retry.
LEMMA CheckResultIs ==
    ASSUME NEW a, a.kind \in AlgorithmKinds, a.limit \in Nat, a.limit > 0,
           a.ms \in Nat, a.ms > 0, NEW ans \in Answers, NEW now \in Nat
    PROVE  \E t \in Nat, d \in Nat :
              /\ Secs(now) + Secs(d) <= t
              /\ CheckResult(a, ans, now) =
                     IF ans.allowed THEN Allowed(ans.remaining, a.limit, t)
                                    ELSE Denied(a.limit, t, d)
<1>1. CASE a.kind = "TokenBucket"
  <2>1. a.limit * a.ms \in Nat /\ a.ms <= a.limit * a.ms
    BY TimesAtLeast
  <2>2. PICK x \in Nat : x = a.limit * a.ms
    BY <2>1
  <2>3. /\ Secs(now) \in Nat /\ Secs(x) \in Nat /\ Secs(a.ms) \in Nat
        /\ Secs(a.ms) <= Secs(x)
    BY <2>1, <2>2, SecsIs
  <2>4. PICK t \in Nat : t = Secs(now) + Secs(x) /\ Secs(now) + Secs(a.ms) <= t
    BY <2>3
  <2>5. CheckResult(a, ans, now) =
            IF ans.allowed THEN Allowed(ans.remaining, a.limit, t)
                           ELSE Denied(a.limit, t, a.ms)
    BY <1>1, <2>2, <2>4 DEF CheckResult, TokenBucketResult
  <2>6. QED
    BY <2>4, <2>5
<1>2. CASE a.kind = "SlidingWindowLog"
  <2>1. Secs(now) \in Nat /\ Secs(a.ms) \in Nat
    BY SecsIs
  <2>2. PICK t \in Nat : t = Secs(now) + Secs(a.ms) /\ Secs(now) + Secs(a.ms) <= t
    BY <2>1
  <2>3. CheckResult(a, ans, now) =
            IF ans.allowed THEN Allowed(ans.remaining, a.limit, t)
                           ELSE Denied(a.limit, t, a.ms)
    BY <1>2, <2>2 DEF CheckResult, SlidingWindowResult
  <2>4. QED
    BY <2>2, <2>3
<1>3. CASE a.kind = "FixedWindow"
  <2>1. PICK b \in Nat : b = NextBoundary(a, now) /\ now < b
    BY NextBoundaryIs
  <2>2. PICK d \in Nat : d = b - now /\ now + d = b
    BY <2>1
  <2>3. PICK t \in Nat : t = Secs(b) /\ Secs(now) + Secs(d) <= t
    BY <2>2, SecsIs
  <2>4. CheckResult(a, ans, now) =
            IF ans.allowed THEN Allowed(ans.remaining, a.limit, t)
                           ELSE Denied(a.limit, t, d)
    BY <1>3, <2>1, <2>2, <2>3 DEF CheckResult, FixedWindowResult
  <2>5. QED
    BY <2>2, <2>3, <2>4
<1>4. QED
  BY <1>1, <1>2, <1>3 DEF AlgorithmKinds

\* What a decision changes.
LEMMA DecidedIs ==
    ASSUME Typed, stage = "serving", NEW r, NEW ans \in Answers, Decided(r, ans)
    PROVE  \E h \in Headers, s \in Nat :
              LET given == IF config.include_headers THEN {h} ELSE {}
              IN  \/ /\ ans.allowed
                     /\ phase' = [phase EXCEPT ![r] = "passed"]
                     /\ reply' = [reply EXCEPT ![r].headers = given]
                  \/ /\ ~ans.allowed
                     /\ phase' = [phase EXCEPT ![r] = "answered"]
                     /\ reply' = [reply EXCEPT ![r] = [status |-> 429, headers |-> given,
                                                       retry_after |-> {s}]]
                     /\ Secs(clock) + s <= h.reset
<1>1. PICK a \in config.algorithm :
          LET res == CheckResult(a, ans, clock)
              Given(h) == IF config.include_headers THEN {h} ELSE {}
          IN  \/ /\ res.allowed
                 /\ Through(r, Given(HeadersAllowed(res.limit, res.remaining,
                                                    res.reset_at)))
              \/ /\ ~res.allowed
                 /\ \E d \in res.retry_after :
                        Limited(r, Given(HeadersDenied(res.limit, res.reset_at,
                                                       Secs(d))), {Secs(d)})
  BY DEF Decided
<1> DEFINE res == CheckResult(a, ans, clock)
<1>2. /\ a \in Algorithms /\ a.limit > 0 /\ a.ms > 0 /\ clock \in Nat
  <2>1. config.algorithm \in Option(Algorithms)
    BY DEF Typed, ConfigTyped, Configs
  <2>2. PICK b \in config.algorithm : b.limit > 0 /\ b.ms > 0
    BY DEF Typed, ConfigTyped
  <2>3. a = b /\ a \in Algorithms
    BY <2>1, <2>2 DEF Option
  <2>4. QED
    BY <2>2, <2>3 DEF Typed, ConfigTyped
<1>3. a.kind \in AlgorithmKinds /\ a.limit = Limit /\ Limit \in Nat /\ a.ms \in Nat
  <2>1. a.kind \in AlgorithmKinds /\ a.limit \in {0, Limit} /\ Limit \in Nat /\ a.ms \in Nat
    BY <1>2, MiddlewareAssumption
  <2>2. QED
    BY <1>2, <2>1
<1>4. /\ res.allowed = ans.allowed /\ res.limit = Limit /\ res.reset_at \in Nat
      /\ ans.allowed => res.remaining = ans.remaining
      /\ ~ans.allowed =>
             \E d \in Nat : /\ res.retry_after = {d}
                            /\ Secs(clock) + Secs(d) <= res.reset_at
  <2>1. PICK t \in Nat, d \in Nat :
            /\ Secs(clock) + Secs(d) <= t
            /\ res = IF ans.allowed THEN Allowed(ans.remaining, a.limit, t)
                                    ELSE Denied(a.limit, t, d)
    BY <1>2, <1>3, CheckResultIs
  <2> HIDE DEF res
  <2>2. /\ res.allowed = ans.allowed /\ res.limit = a.limit /\ res.reset_at \in Nat
        /\ ans.allowed => res.remaining = ans.remaining
        /\ ~ans.allowed =>
               \E e \in Nat : /\ res.retry_after = {e}
                              /\ Secs(clock) + Secs(e) <= res.reset_at
    <3>1. ans.allowed \in BOOLEAN
      BY DEF Answers
    <3>2. CASE ans.allowed = TRUE
      <4>1. res = Allowed(ans.remaining, a.limit, t)
        BY <2>1, <3>2
      <4>2. QED
        BY <3>2, <4>1 DEF Allowed
    <3>3. CASE ans.allowed = FALSE
      <4>1. res = Denied(a.limit, t, d)
        BY <2>1, <3>3
      <4>2. /\ res.allowed = FALSE /\ res.limit = a.limit /\ res.reset_at = t
            /\ res.retry_after = {d}
        BY <4>1 DEF Denied
      <4>3. QED
        BY <2>1, <3>3, <4>2
    <3>4. QED
      BY <3>1, <3>2, <3>3
  <2>3. QED
    BY <1>3, <2>2
<1> HIDE DEF res
<1>5. CASE ans.allowed
  <2> DEFINE h == HeadersAllowed(res.limit, res.remaining, res.reset_at)
  <2>1. ans.remaining \in Nat /\ ans.remaining < Limit
    BY <1>5 DEF Answers
  <2>2. h \in Headers
    BY <1>4, <1>5, <2>1 DEF HeadersAllowed, Headers
  <2>3. Through(r, IF config.include_headers THEN {h} ELSE {})
    BY <1>1, <1>4, <1>5 DEF res
  <2> HIDE DEF h
  <2>4. QED
    BY <1>5, <2>2, <2>3 DEF Through
<1>6. CASE ~ans.allowed
  <2>1. PICK d \in Nat : res.retry_after = {d} /\ Secs(clock) + Secs(d) <= res.reset_at
    BY <1>4, <1>6
  <2> DEFINE h == HeadersDenied(res.limit, res.reset_at, Secs(d))
  <2>2. Secs(d) \in Nat
    BY SecsIs
  <2>3. 0 < Limit
    BY <1>2, <1>3
  <2>4. h \in Headers /\ h.reset = res.reset_at
    BY <1>4, <2>2, <2>3 DEF HeadersDenied, Headers
  <2>5. Limited(r, IF config.include_headers THEN {h} ELSE {}, {Secs(d)})
    BY <1>1, <1>4, <1>6, <2>1 DEF res
  <2> HIDE DEF h
  <2>6. QED
    BY <1>6, <2>1, <2>2, <2>4, <2>5 DEF Limited
<1>7. QED
  BY <1>5, <1>6

\* What a sequence is with one element more.
LEMMA AppendIs ==
    ASSUME NEW S, NEW n \in Nat, NEW f \in [1..n -> S], NEW x \in S
    PROVE  /\ Append(f, x) \in [1..n + 1 -> S]
           /\ \A i \in 1..n : Append(f, x)[i] = f[i]
           /\ Append(f, x)[n + 1] = x
<1>1. f \in Seq(S) /\ Len(f) = n
  BY SeqDef
<1>2. /\ Append(f, x) \in Seq(S) /\ Len(Append(f, x)) = n + 1
      /\ \A i \in 1..n : Append(f, x)[i] = f[i]
      /\ Append(f, x)[n + 1] = x
  BY <1>1, AppendProperties
<1>3. Append(f, x) \in [1..n + 1 -> S]
  BY <1>2, LenProperties
<1>4. QED
  BY <1>2, <1>3

\* The defaults are a configuration.
LEMMA NewMiddlewareIs ==
    /\ NewMiddleware(NewBuilder) \in Configs
    /\ NewMiddleware(NewBuilder).algorithm = {}
<1> DEFINE m == NewMiddleware(NewBuilder)
           fields == {"algorithm", "store_type", "include_headers", "skip_on_error",
                      "bypass_keys", "trusted_proxy_depth", "extractor", "unkeyed_policy"}
<1>1. DOMAIN NewBuilder = fields \ {"extractor", "unkeyed_policy"}
  BY DEF NewBuilder
<1>2. DOMAIN NewBuilder \cup {"extractor", "unkeyed_policy"} = fields
  BY <1>1
<1>3. m = [name \in fields |-> CASE name = "extractor"      -> DefaultExtractor
                                 [] name = "unkeyed_policy" -> "Deny"
                                 [] OTHER                   -> NewBuilder[name]]
  BY <1>2 DEF NewMiddleware
<1> HIDE DEF m
<1>4. /\ m["algorithm"] = NewBuilder.algorithm /\ m["store_type"] = NewBuilder.store_type
      /\ m["include_headers"] = NewBuilder.include_headers
      /\ m["skip_on_error"] = NewBuilder.skip_on_error
      /\ m["bypass_keys"] = NewBuilder.bypass_keys
      /\ m["trusted_proxy_depth"] = NewBuilder.trusted_proxy_depth
      /\ m["extractor"] = DefaultExtractor /\ m["unkeyed_policy"] = "Deny"
  BY <1>3
<1>5. /\ NewBuilder.algorithm = {} /\ NewBuilder.store_type = "Memory"
      /\ NewBuilder.include_headers = TRUE /\ NewBuilder.skip_on_error = TRUE
      /\ NewBuilder.bypass_keys = {} /\ NewBuilder.trusted_proxy_depth = 0
  BY DEF NewBuilder
<1>6. m = [algorithm |-> {}, store_type |-> "Memory", include_headers |-> TRUE,
           skip_on_error |-> TRUE, bypass_keys |-> {}, trusted_proxy_depth |-> 0,
           extractor |-> DefaultExtractor, unkeyed_policy |-> "Deny"]
  BY <1>3, <1>4, <1>5
<1>7. {} \in Option(Algorithms)
  BY DEF Option
<1>8. m \in Configs /\ m.algorithm = {}
  BY <1>6, <1>7 DEF Configs, StoreTypes, UnkeyedRequestPolicies
<1>9. QED
  BY <1>8 DEF m

requestVars == <<req, phase, key, result, reply, late>>

\* A setting changes the configuration alone, and before the first request.
LEMMA ConfigureIs ==
    ASSUME Typed, Configure
    PROVE  /\ Len(req) = 0 /\ stage \in {"building", "built"}
           /\ stage' \in {"building", "built", "failed"}
           /\ config' \in Configs
           /\ stage' = "built" => \E a \in config'.algorithm : a.limit > 0 /\ a.ms > 0
           /\ UNCHANGED <<clock, requestVars, counters, storeVars>>
<1> USE DEF requestVars
<1>1. config \in Configs /\ (stage = "built" => \E a \in config.algorithm : a.limit > 0 /\ a.ms > 0)
  BY DEF Typed, ConfigTyped
<1>2. stage # "serving" => Len(req) = 0
  BY DEF Typed, ConfigTyped
<1>3. ASSUME NEW c \in Configs, Set(c), stage = "building"
      PROVE  /\ stage' = "building" /\ config' \in Configs
             /\ UNCHANGED <<clock, requestVars, counters, storeVars>>
  BY <1>3 DEF Set
<1>4. ASSUME NEW c \in Configs, Set(c), stage = "built", c.algorithm = config.algorithm
      PROVE  /\ stage' = "built" /\ config' \in Configs
             /\ config'.algorithm = config.algorithm
             /\ UNCHANGED <<clock, requestVars, counters, storeVars>>
  BY <1>4 DEF Set
<1>5. ASSUME NEW a \in Algorithms, SetAlgorithm(a)
      PROVE  stage = "building" /\ \E c \in Configs : Set(c)
  <2>1. {a} \in Option(Algorithms)
    BY DEF Option
  <2>2. [config EXCEPT !.algorithm = {a}] \in Configs
    BY <1>1, <2>1 DEF Configs
  <2>3. QED
    BY <1>5, <2>2 DEF SetAlgorithm
<1>6. ASSUME NEW s \in StoreTypes, SetStore(s)
      PROVE  stage = "building" /\ \E c \in Configs : Set(c)
  <2>1. [config EXCEPT !.store_type = s] \in Configs
    BY <1>1 DEF Configs
  <2>2. QED
    BY <1>6, <2>1 DEF SetStore
<1>7. ASSUME NEW b \in BOOLEAN, SetIncludeHeaders(b) \/ SetSkipOnError(b)
      PROVE  stage = "building" /\ \E c \in Configs : Set(c)
  <2>1. /\ [config EXCEPT !.include_headers = b] \in Configs
        /\ [config EXCEPT !.skip_on_error = b] \in Configs
    BY <1>1 DEF Configs
  <2>2. QED
    BY <1>7, <2>1 DEF SetIncludeHeaders, SetSkipOnError
<1>8. ASSUME NEW d \in Depths, SetTrustedProxyDepth(d)
      PROVE  stage = "building" /\ \E c \in Configs : Set(c)
  <2>1. [config EXCEPT !.trusted_proxy_depth = d] \in Configs
    BY <1>1 DEF Configs
  <2>2. QED
    BY <1>8, <2>1 DEF SetTrustedProxyDepth
<1>9. ASSUME NEW b \in BypassKeys, AddBypassKey(b)
      PROVE  stage = "building" /\ \E c \in Configs : Set(c)
  <2>1. [config EXCEPT !.bypass_keys = @ \cup {b}] \in Configs
    BY <1>1 DEF Configs
  <2>2. QED
    BY <1>9, <2>1 DEF AddBypassKey
<1>10. ASSUME NEW b \in BOOLEAN, WithHeaders(b)
       PROVE  stage = "built" /\ \E c \in Configs : Set(c) /\ c.algorithm = config.algorithm
  <2> DEFINE c == [config EXCEPT !.include_headers = b]
  <2>1. c \in Configs /\ c.algorithm = config.algorithm
    BY <1>1 DEF Configs
  <2>2. QED
    BY <1>10, <2>1 DEF WithHeaders
<1>11. ASSUME NEW d \in Depths, WithTrustedProxyDepth(d)
       PROVE  stage = "built" /\ \E c \in Configs : Set(c) /\ c.algorithm = config.algorithm
  <2> DEFINE c == [config EXCEPT !.trusted_proxy_depth = d]
  <2>1. c \in Configs /\ c.algorithm = config.algorithm
    BY <1>1 DEF Configs
  <2>2. QED
    BY <1>11, <2>1 DEF WithTrustedProxyDepth
<1>12. ASSUME NEW b \in BypassKeys, WithBypassKeys(b)
       PROVE  stage = "built" /\ \E c \in Configs : Set(c) /\ c.algorithm = config.algorithm
  <2> DEFINE c == [config EXCEPT !.bypass_keys = @ \cup {b}]
  <2>1. c \in Configs /\ c.algorithm = config.algorithm
    BY <1>1 DEF Configs
  <2>2. QED
    BY <1>12, <2>1 DEF WithBypassKeys
<1>13. ASSUME NEW e \in Extractors, WithExtractor(e)
       PROVE  stage = "built" /\ \E c \in Configs : Set(c) /\ c.algorithm = config.algorithm
  <2> DEFINE c == [config EXCEPT !.extractor = e]
  <2>1. c \in Configs /\ c.algorithm = config.algorithm
    BY <1>1 DEF Configs
  <2>2. QED
    BY <1>13, <2>1 DEF WithExtractor
<1>14. ASSUME NEW p \in UnkeyedRequestPolicies, WithUnkeyedPolicy(p)
       PROVE  stage = "built" /\ \E c \in Configs : Set(c) /\ c.algorithm = config.algorithm
  <2> DEFINE c == [config EXCEPT !.unkeyed_policy = p]
  <2>1. c \in Configs /\ c.algorithm = config.algorithm
    BY <1>1 DEF Configs
  <2>2. QED
    BY <1>14, <2>1 DEF WithUnkeyedPolicy
<1>15. ASSUME Build
       PROVE  /\ stage = "building" /\ stage' \in {"built", "failed"}
              /\ config' = config
              /\ stage' = "built" => \E a \in config.algorithm : a.limit > 0 /\ a.ms > 0
              /\ UNCHANGED <<clock, requestVars, counters, storeVars>>
  <2>1. ASSUME Buildable(config)
        PROVE  \E a \in config.algorithm : a.limit > 0 /\ a.ms > 0
    <3>1. PICK a \in config.algorithm : ValidateAlgorithm(a)
      BY <2>1 DEF Buildable
    <3>2. a \in Algorithms
      BY <1>1 DEF Configs, Option
    <3>3. a.kind \in AlgorithmKinds
      BY <3>2, MiddlewareAssumption
    <3>4. a.limit > 0 /\ a.ms > 0
      BY <3>1, <3>3 DEF ValidateAlgorithm, AlgorithmKinds
    <3>5. QED
      BY <3>4
  <2>2. QED
    BY <1>15, <2>1 DEF Build
<1>16. \/ stage = "building" /\ \E c \in Configs : Set(c)
       \/ stage = "built" /\ \E c \in Configs : Set(c) /\ c.algorithm = config.algorithm
       \/ Build
  BY <1>5, <1>6, <1>7, <1>8, <1>9, <1>10, <1>11, <1>12, <1>13, <1>14 DEF Configure
<1>17. CASE stage = "building" /\ \E c \in Configs : Set(c)
  BY <1>2, <1>3, <1>17
<1>18. CASE stage = "built" /\ \E c \in Configs : Set(c) /\ c.algorithm = config.algorithm
  <2>1. PICK c \in Configs : Set(c) /\ c.algorithm = config.algorithm
    BY <1>18
  <2>2. /\ stage' = "built" /\ config' \in Configs
        /\ config'.algorithm = config.algorithm
        /\ UNCHANGED <<clock, requestVars, counters, storeVars>>
    BY <1>4, <1>18, <2>1
  <2>3. QED
    BY <1>1, <1>2, <1>18, <2>2
<1>19. CASE Build
  BY <1>1, <1>2, <1>15, <1>19
<1>20. QED
  BY <1>16, <1>17, <1>18, <1>19

\* What the store does with a key.
LEMMA AskIs ==
    ASSUME level \in [StoreKeys -> 0..Limit], NEW k \in StoreKeys, Store!Ask(k)
    PROVE  /\ level' \in [StoreKeys -> 0..Limit] /\ answer' \in Answers
           /\ \A j \in StoreKeys : j # k => level'[j] = level[j]
           /\ answer'.allowed => level[k] >= 1 /\ level'[k] = level[k] - 1
           /\ ~answer'.allowed => level[k] = 0 /\ level'[k] = level[k]
<1>1. Limit \in Nat /\ level[k] \in 0..Limit
  BY MiddlewareAssumption
<1>2. CASE level[k] >= 1
  <2>1. PICK n \in Nat : level[k] = n + 1 /\ n < Limit
    <3>1. level[k] - 1 \in Nat /\ level[k] = (level[k] - 1) + 1 /\ level[k] - 1 < Limit
      BY <1>1, <1>2
    <3>2. QED
      BY <3>1
  <2>2. /\ level' = [level EXCEPT ![k] = @ - 1]
        /\ answer' = [key |-> k, allowed |-> TRUE, remaining |-> level'[k] \div 1]
    BY <1>2 DEF Store!Ask
  <2>3. level[k] - 1 = n /\ n \div 1 = n /\ n \in 0..Limit
    BY <1>1, <2>1
  <2>4. /\ level' \in [StoreKeys -> 0..Limit] /\ level'[k] = n
        /\ \A j \in StoreKeys : j # k => level'[j] = level[j]
    BY <2>2, <2>3
  <2>5. answer' = [key |-> k, allowed |-> TRUE, remaining |-> n]
    BY <2>2, <2>3, <2>4
  <2>6. answer' \in Answers /\ answer'.allowed
    BY <2>1, <2>5 DEF Answers
  <2>7. QED
    BY <1>2, <2>3, <2>4, <2>6
<1>3. CASE ~(level[k] >= 1)
  <2>1. /\ level' = level
        /\ answer' = [key |-> k, allowed |-> FALSE, remaining |-> 0]
    BY <1>3 DEF Store!Ask
  <2>2. level[k] = 0
    BY <1>1, <1>3
  <2>3. answer' \in Answers /\ ~answer'.allowed
    BY <2>1 DEF Answers
  <2>4. QED
    BY <2>1, <2>2, <2>3
<1>4. QED
  BY <1>2, <1>3

\* The key of a request is one of the store's, if there is one.
LEMMA KeyOfTyped ==
    ASSUME config \in Configs, NEW a \in Arrivals
    PROVE  KeyOf(a) \in StoreKeys \cup {{}}
<1>1. /\ a \in Arrival
      /\ config.extractor \in Extractors \cup {DefaultExtractor}
      /\ config.trusted_proxy_depth \in Depths \cup {0}
  BY MiddlewareAssumption DEF Configs
<1>2. config.extractor.kind \in Kinds
  <2>1. \A e \in Extractors : e.kind \in Kinds
    BY MiddlewareAssumption
  <2>2. DefaultExtractor.kind \in Kinds
    BY DEF DefaultExtractor, Kinds
  <2>3. QED
    BY <1>1, <2>1, <2>2
<1>3. KeyOf(a) = KeyWith(config.extractor, config.trusted_proxy_depth, a)
  BY <1>1, <1>2, RequiredHeaderIs
<1>4. \A e \in Extractors \cup {DefaultExtractor}, d \in Depths \cup {0} :
         KeyWith(e, d, a) \in StoreKeys \cup {{}}
  <2> SUFFICES ASSUME NEW e \in Extractors \cup {DefaultExtractor},
                      NEW d \in Depths \cup {0}, KeyWith(e, d, a) # {}
               PROVE  KeyWith(e, d, a) \in StoreKeys
    OBVIOUS
  <2>1. StoreKeys = {KeyWith(f, c, b) : f \in Extractors \cup {DefaultExtractor},
                         b \in Arrivals, c \in Depths \cup {0}} \ {{}}
    BY DEF StoreKeys, KeyWith
  <2>2. QED
    BY <2>1
<1>5. QED
  BY <1>1, <1>3, <1>4

\* The initial states are typed.
THEOREM TypedInit == Init => Typed
<1> SUFFICES ASSUME Init PROVE Typed
  OBVIOUS
<1>1. /\ stage = "building" /\ config = NewMiddleware(NewBuilder) /\ clock \in Clocks
      /\ req = <<>> /\ phase = <<>> /\ key = <<>> /\ result = <<>> /\ reply = <<>>
      /\ late = {} /\ skip_on_error_count = 0 /\ unkeyed_allow_count = 0
      /\ level = [k \in StoreKeys |-> Limit * 1]
  BY DEF Init, Store!Init, Store!Brimful
<1>2. Clocks \subseteq Nat /\ Limit \in Nat /\ MaxRequests \in Nat
  BY MiddlewareAssumption
<1>3. ConfigTyped
  BY <1>1, <1>2, NewMiddlewareIs DEF ConfigTyped
<1>4. Len(<<>>) = 0 /\ <<>> \in Seq(Arrivals) /\ 1..0 = {}
  BY EmptySeq
<1>5. \A S : <<>> \in [1..0 -> S]
  BY <1>4
<1>6. RequestsTyped
  BY <1>1, <1>2, <1>4, <1>5 DEF RequestsTyped
<1>7. level \in [StoreKeys -> 0..Limit]
  <2>1. Limit * 1 \in 0..Limit
    BY <1>2
  <2>2. QED
    BY <1>1, <2>1
<1>8. QED
  BY <1>1, <1>3, <1>6, <1>7 DEF Typed

\* A request comes in.
LEMMA HandleIs ==
    ASSUME Typed, NEW a \in Arrivals, Handle(a)
    PROVE  LET n == Len(req) + 1
           IN  /\ stage \in {"built", "serving"} /\ stage' = "serving" /\ config' = config
               /\ n <= MaxRequests
               /\ req' \in Seq(Arrivals) /\ Len(req') = n /\ req'[n] = a
               /\ phase' \in [1..n -> Phases] /\ phase'[n] \in {"checking", "passed", "answered"}
               /\ key' \in [1..n -> StoreKeys \cup {{}}] /\ key'[n] = KeyOf(a)
               /\ result' \in [1..n -> Option(Answers)] /\ result'[n] = {}
               /\ reply' \in [1..n -> Replies]
               /\ \A r \in 1..Len(req) :
                     /\ req'[r] = req[r] /\ phase'[r] = phase[r] /\ key'[r] = key[r]
                     /\ result'[r] = result[r] /\ reply'[r] = reply[r]
               /\ \/ /\ KeyOf(a) = {} /\ config.unkeyed_policy = "Allow"
                     /\ phase'[n] = "passed" /\ reply'[n] = NoReply
                     /\ unkeyed_allow_count' = unkeyed_allow_count + 1
                  \/ /\ KeyOf(a) = {} /\ config.unkeyed_policy = "Deny"
                     /\ phase'[n] = "answered"
                     /\ reply'[n] = [status |-> 429, headers |-> {}, retry_after |-> {}]
                     /\ UNCHANGED unkeyed_allow_count
                  \/ /\ KeyOf(a) # {} /\ \A x \in KeyOf(a) : Bypasses(x)
                     /\ phase'[n] = "passed" /\ reply'[n] = NoReply
                     /\ UNCHANGED unkeyed_allow_count
                  \/ /\ KeyOf(a) # {} /\ ~ \A x \in KeyOf(a) : Bypasses(x)
                     /\ phase'[n] = "checking" /\ reply'[n] = NoReply
                     /\ UNCHANGED unkeyed_allow_count
               /\ UNCHANGED <<clock, late, skip_on_error_count, storeVars>>
<1> DEFINE n == Len(req) + 1
           k == KeyOf(a)
<1>1. /\ Len(req) \in Nat /\ req \in Seq(Arrivals) /\ config \in Configs
      /\ phase \in [1..Len(req) -> Phases]
      /\ key \in [1..Len(req) -> StoreKeys \cup {{}}]
      /\ result \in [1..Len(req) -> Option(Answers)]
      /\ reply \in [1..Len(req) -> Replies]
  BY LenProperties DEF Typed, ConfigTyped, RequestsTyped
<1>2. k \in StoreKeys \cup {{}}
  BY <1>1, KeyOfTyped
<1>3. {} \in Option(Answers) /\ {} \in Option(Headers) /\ {} \in Option(Nat)
  BY DEF Option
<1>4. /\ NoReply \in Replies
      /\ [status |-> 429, headers |-> {}, retry_after |-> {}] \in Replies
  BY <1>3 DEF NoReply, Replies
<1>5. /\ [NoReply EXCEPT !.status = 0] = NoReply
      /\ [NoReply EXCEPT !.status = 429] = [status |-> 429, headers |-> {}, retry_after |-> {}]
  BY DEF NoReply
<1>6. PICK p \in {"checking", "passed", "answered"}, w \in Replies :
          /\ phase' = Append(phase, p) /\ reply' = Append(reply, w)
          /\ \/ /\ k = {} /\ config.unkeyed_policy = "Allow"
                /\ p = "passed" /\ w = NoReply
                /\ unkeyed_allow_count' = unkeyed_allow_count + 1
             \/ /\ k = {} /\ config.unkeyed_policy = "Deny"
                /\ p = "answered"
                /\ w = [status |-> 429, headers |-> {}, retry_after |-> {}]
                /\ UNCHANGED unkeyed_allow_count
             \/ /\ k # {} /\ \A x \in k : Bypasses(x)
                /\ p = "passed" /\ w = NoReply
                /\ UNCHANGED unkeyed_allow_count
             \/ /\ k # {} /\ ~ \A x \in k : Bypasses(x)
                /\ p = "checking" /\ w = NoReply
                /\ UNCHANGED unkeyed_allow_count
  <2> HIDE DEF k
  <2>1. \/ /\ k = {} /\ config.unkeyed_policy = "Allow"
           /\ unkeyed_allow_count' = unkeyed_allow_count + 1
           /\ phase' = Append(phase, "passed") /\ reply' = Append(reply, NoReply)
        \/ /\ k = {} /\ config.unkeyed_policy = "Deny"
           /\ phase' = Append(phase, "answered")
           /\ reply' = Append(reply, [status |-> 429, headers |-> {}, retry_after |-> {}])
           /\ UNCHANGED unkeyed_allow_count
        \/ /\ k # {} /\ UNCHANGED unkeyed_allow_count
           /\ reply' = Append(reply, NoReply)
           /\ phase' = Append(phase, IF \A x \in k : Bypasses(x) THEN "passed" ELSE "checking")
    BY <1>5, Zenon DEF Handle, k
  <2>2. QED
    BY <1>4, <2>1
<1>7. /\ req' = Append(req, a) /\ key' = Append(key, k) /\ result' = Append(result, {})
      /\ stage \in {"built", "serving"} /\ stage' = "serving" /\ config' = config
      /\ Len(req) < MaxRequests
      /\ UNCHANGED <<clock, late, skip_on_error_count, storeVars>>
  BY DEF Handle
<1> HIDE DEF k
<1>8. n <= MaxRequests
  BY <1>1, <1>7, MiddlewareAssumption
<1>9. /\ req' \in Seq(Arrivals) /\ Len(req') = n /\ req'[n] = a
      /\ \A r \in 1..Len(req) : req'[r] = req[r]
  BY <1>1, <1>7, AppendProperties
<1>10. /\ phase' \in [1..n -> Phases] /\ phase'[n] = p
       /\ \A r \in 1..Len(req) : phase'[r] = phase[r]
  <2>1. p \in Phases
    BY DEF Phases
  <2>2. QED
    <3>1. Append(phase, p) \in [1..Len(req) + 1 -> Phases]
      BY <1>1, <2>1, AppendIs
    <3>2. \A i \in 1..Len(req) : Append(phase, p)[i] = phase[i]
      BY <1>1, <2>1, AppendIs
    <3>3. Append(phase, p)[Len(req) + 1] = p
      BY <1>1, <2>1, AppendIs
    <3>4. phase' = Append(phase, p)
      BY <1>6, <1>7
    <3>5. QED
      BY <3>1, <3>2, <3>3, <3>4
<1>11. /\ key' \in [1..n -> StoreKeys \cup {{}}] /\ key'[n] = k
       /\ \A r \in 1..Len(req) : key'[r] = key[r]
  <2>1. Append(key, k) \in [1..Len(req) + 1 -> StoreKeys \cup {{}}]
    BY <1>1, <1>2, AppendIs
  <2>2. \A i \in 1..Len(req) : Append(key, k)[i] = key[i]
    BY <1>1, <1>2, AppendIs
  <2>3. Append(key, k)[Len(req) + 1] = k
    BY <1>1, <1>2, AppendIs
  <2>4. key' = Append(key, k)
    BY <1>6, <1>7
  <2>5. QED
    BY <2>1, <2>2, <2>3, <2>4
<1>12. /\ result' \in [1..n -> Option(Answers)] /\ result'[n] = {}
       /\ \A r \in 1..Len(req) : result'[r] = result[r]
  <2>1. Append(result, {}) \in [1..Len(req) + 1 -> Option(Answers)]
    BY <1>1, <1>3, AppendIs
  <2>2. \A i \in 1..Len(req) : Append(result, {})[i] = result[i]
    BY <1>1, <1>3, AppendIs
  <2>3. Append(result, {})[Len(req) + 1] = {}
    BY <1>1, <1>3, AppendIs
  <2>4. result' = Append(result, {})
    BY <1>6, <1>7
  <2>5. QED
    BY <2>1, <2>2, <2>3, <2>4
<1>13. /\ reply' \in [1..n -> Replies] /\ reply'[n] = w
       /\ \A r \in 1..Len(req) : reply'[r] = reply[r]
  <2>1. Append(reply, w) \in [1..Len(req) + 1 -> Replies]
    BY <1>1, AppendIs
  <2>2. \A i \in 1..Len(req) : Append(reply, w)[i] = reply[i]
    BY <1>1, AppendIs
  <2>3. Append(reply, w)[Len(req) + 1] = w
    BY <1>1, AppendIs
  <2>4. reply' = Append(reply, w)
    BY <1>6, <1>7
  <2>5. QED
    BY <2>1, <2>2, <2>3, <2>4
<1> HIDE DEF n
<1>14. /\ \/ /\ k = {} /\ config.unkeyed_policy = "Allow"
             /\ phase'[n] = "passed" /\ reply'[n] = NoReply
             /\ unkeyed_allow_count' = unkeyed_allow_count + 1
          \/ /\ k = {} /\ config.unkeyed_policy = "Deny"
             /\ phase'[n] = "answered"
             /\ reply'[n] = [status |-> 429, headers |-> {}, retry_after |-> {}]
             /\ UNCHANGED unkeyed_allow_count
          \/ /\ k # {} /\ \A x \in k : Bypasses(x)
             /\ phase'[n] = "passed" /\ reply'[n] = NoReply
             /\ UNCHANGED unkeyed_allow_count
          \/ /\ k # {} /\ ~ \A x \in k : Bypasses(x)
             /\ phase'[n] = "checking" /\ reply'[n] = NoReply
             /\ UNCHANGED unkeyed_allow_count
       /\ phase'[n] \in {"checking", "passed", "answered"}
  BY <1>6, <1>10, <1>13
<1>15. QED
  BY <1>7, <1>8, <1>9, <1>10, <1>11, <1>12, <1>13, <1>14, Zenon DEF n, k

-----------------------------------------------------------------------------
\* What the steps of a request change.

\* A step of r's touches nobody else.
StepOf(r) ==
    /\ UNCHANGED <<settingVars, req, key>>
    /\ phase' \in [1..Len(req) -> Phases]
    /\ result' \in [1..Len(req) -> Option(Answers)]
    /\ reply' \in [1..Len(req) -> Replies]
    /\ \A s \in 1..Len(req) : s # r =>
          phase'[s] = phase[s] /\ result'[s] = result[s] /\ reply'[s] = reply[s]

\* The store has run an operation for a key, with a token or without.
Asked(k) ==
    /\ level' \in [StoreKeys -> 0..Limit] /\ answer' \in Answers
    /\ \A j \in StoreKeys : j # k => level'[j] = level[j]
    /\ answer'.allowed => level[k] >= 1 /\ level'[k] = level[k] - 1
    /\ ~answer'.allowed => level[k] = 0 /\ level'[k] = level[k]

\* check goes on with an answer: to the next handler, or to the 429.
Deciding(r, ans) ==
    \E h \in Headers, s \in Nat :
        LET given == IF config.include_headers THEN {h} ELSE {}
        IN  \/ /\ ans.allowed
               /\ phase'[r] = "passed"
               /\ reply'[r] = [reply[r] EXCEPT !.headers = given]
            \/ /\ ~ans.allowed
               /\ phase'[r] = "answered"
               /\ reply'[r] = [status |-> 429, headers |-> given, retry_after |-> {s}]
               /\ Secs(clock) + s <= h.reset

\* check goes on without one.
Erring(r) ==
    \/ /\ config.skip_on_error /\ skip_on_error_count' = skip_on_error_count + 1
       /\ phase'[r] = "passed"
       /\ reply'[r] = [reply[r] EXCEPT !.headers = {}]
    \/ /\ ~config.skip_on_error /\ skip_on_error_count' = skip_on_error_count
       /\ phase'[r] = "answered"
       /\ reply'[r] = [status |-> 429, headers |-> {}, retry_after |-> {}]

\* An operation is given up.
GivingUp(r) ==
    /\ result'[r] = {}
    /\ \/ late' = late
       \/ result[r] = {} /\ late' = late \cup {r}

\* What the types say of a request.
LEMMA RequestTyped ==
    ASSUME Typed, NEW r \in Requests
    PROVE  /\ r \in 1..Len(req) /\ Len(req) \in Nat /\ stage = "serving" /\ config \in Configs
           /\ phase \in [1..Len(req) -> Phases] /\ result \in [1..Len(req) -> Option(Answers)]
           /\ reply \in [1..Len(req) -> Replies] /\ key[r] \in StoreKeys \cup {{}}
           /\ level \in [StoreKeys -> 0..Limit] /\ late \subseteq 1..Len(req)
           /\ phase[r] = "checking" \/ r \in late \/ result[r] # {} => key[r] \in StoreKeys
           /\ reply[r] \in Replies
<1>1. req \in Seq(Arrivals)
  BY DEF Typed, RequestsTyped
<1>2. r \in 1..Len(req) /\ Len(req) \in Nat
  BY <1>1, LenProperties DEF Requests
<1>3. stage = "serving"
  <2>1. Len(req) # 0
    BY <1>2
  <2>2. QED
    BY <2>1 DEF Typed, ConfigTyped
<1>4. QED
  BY <1>2, <1>3 DEF Typed, ConfigTyped, RequestsTyped

\* Headers and statuses stay what they are.
LEMMA OptionsAre ==
    ASSUME NEW S
    PROVE  {} \in Option(S) /\ \A x \in S : {x} \in Option(S)
  BY DEF Option

\* Replies with other headers or another status are replies.
LEMMA ReplyWithHeaders ==
    ASSUME NEW w \in Replies, NEW hs \in Option(Headers)
    PROVE  [w EXCEPT !.headers = hs] \in Replies
  BY DEF Replies

\* A reply with another status is one.
LEMMA ReplyWith200 ==
    ASSUME NEW w \in Replies
    PROVE  [w EXCEPT !.status = 200] \in Replies
  BY DEF Replies

\* A reply is put together from its parts.
LEMMA ReplyOf ==
    ASSUME NEW st \in {0, 200, 429, 500}, NEW hs \in Option(Headers), NEW ss \in Option(Nat)
    PROVE  [status |-> st, headers |-> hs, retry_after |-> ss] \in Replies
  BY DEF Replies

\* Store!Ask is Asked.
LEMMA AskedIs ==
    ASSUME Typed, NEW k \in StoreKeys, Store!Ask(k)
    PROVE  Asked(k)
<1>1. level \in [StoreKeys -> 0..Limit]
  BY DEF Typed
<1>2. QED
  BY <1>1, AskIs, Zenon DEF Asked

\* Decided is Deciding, for one request.
LEMMA DecidingIs ==
    ASSUME Typed, NEW r \in Requests, NEW ans \in Answers, Decided(r, ans)
    PROVE  /\ phase' \in [1..Len(req) -> Phases] /\ reply' \in [1..Len(req) -> Replies]
           /\ \A s \in 1..Len(req) : s # r => phase'[s] = phase[s] /\ reply'[s] = reply[s]
           /\ Deciding(r, ans)
<1>1. /\ r \in 1..Len(req) /\ stage = "serving" /\ reply[r] \in Replies
      /\ phase \in [1..Len(req) -> Phases] /\ reply \in [1..Len(req) -> Replies]
  BY RequestTyped
<1>2. PICK h \in Headers, s \in Nat :
          LET given == IF config.include_headers THEN {h} ELSE {}
          IN  \/ /\ ans.allowed
                 /\ phase' = [phase EXCEPT ![r] = "passed"]
                 /\ reply' = [reply EXCEPT ![r].headers = given]
              \/ /\ ~ans.allowed
                 /\ phase' = [phase EXCEPT ![r] = "answered"]
                 /\ reply' = [reply EXCEPT ![r] = [status |-> 429, headers |-> given,
                                                   retry_after |-> {s}]]
                 /\ Secs(clock) + s <= h.reset
  BY <1>1, DecidedIs
<1> DEFINE given == IF config.include_headers THEN {h} ELSE {}
           w1 == [reply[r] EXCEPT !.headers = given]
           w2 == [status |-> 429, headers |-> given, retry_after |-> {s}]
<1>3. given \in Option(Headers) /\ {s} \in Option(Nat)
  <2>1. {} \in Option(Headers) /\ {h} \in Option(Headers) /\ {s} \in Option(Nat)
    BY OptionsAre
  <2>2. QED
    BY <2>1
<1>4. w1 \in Replies
  <2> HIDE DEF given
  <2>1. QED
    BY <1>1, <1>3, ReplyWithHeaders
<1>5. w2 \in Replies
  <2> HIDE DEF given
  <2>1. 429 \in {0, 200, 429, 500}
    OBVIOUS
  <2>2. QED
    BY <1>3, <2>1, ReplyOf
<1>6. \/ /\ ans.allowed
         /\ phase' = [phase EXCEPT ![r] = "passed"]
         /\ reply' = [reply EXCEPT ![r] = w1]
      \/ /\ ~ans.allowed
         /\ phase' = [phase EXCEPT ![r] = "answered"]
         /\ reply' = [reply EXCEPT ![r] = w2]
         /\ Secs(clock) + s <= h.reset
  BY <1>2
<1>7. "passed" \in Phases /\ "answered" \in Phases
  BY DEF Phases
<1> HIDE DEF w1, w2
<1>8. /\ phase' \in [1..Len(req) -> Phases] /\ reply' \in [1..Len(req) -> Replies]
      /\ \A q \in 1..Len(req) : q # r => phase'[q] = phase[q] /\ reply'[q] = reply[q]
  BY <1>1, <1>4, <1>5, <1>6, <1>7
<1>9. \/ ans.allowed /\ phase'[r] = "passed" /\ reply'[r] = w1
      \/ /\ ~ans.allowed /\ phase'[r] = "answered" /\ reply'[r] = w2
         /\ Secs(clock) + s <= h.reset
  BY <1>1, <1>6
<1>10. Deciding(r, ans)
  BY <1>9 DEF Deciding, w1, w2
<1>11. QED
  BY <1>8, <1>10

\* Erred is Erring, for one request.
LEMMA ErringIs ==
    ASSUME Typed, NEW r \in Requests, Erred(r)
    PROVE  /\ phase' \in [1..Len(req) -> Phases] /\ reply' \in [1..Len(req) -> Replies]
           /\ \A s \in 1..Len(req) : s # r => phase'[s] = phase[s] /\ reply'[s] = reply[s]
           /\ Erring(r)
<1>1. /\ r \in 1..Len(req) /\ reply[r] \in Replies
      /\ phase \in [1..Len(req) -> Phases] /\ reply \in [1..Len(req) -> Replies]
  BY RequestTyped
<1> DEFINE w1 == [reply[r] EXCEPT !.headers = {}]
           w2 == [status |-> 429, headers |-> {}, retry_after |-> {}]
<1>2. w1 \in Replies /\ w2 \in Replies
  <2>1. {} \in Option(Headers) /\ {} \in Option(Nat) /\ 429 \in {0, 200, 429, 500}
    BY OptionsAre
  <2>2. w1 \in Replies
    BY <1>1, <2>1, ReplyWithHeaders
  <2>3. w2 \in Replies
    BY <2>1, ReplyOf
  <2>4. QED
    BY <2>2, <2>3
<1>3. \/ /\ config.skip_on_error /\ skip_on_error_count' = skip_on_error_count + 1
         /\ phase' = [phase EXCEPT ![r] = "passed"]
         /\ reply' = [reply EXCEPT ![r] = w1]
      \/ /\ ~config.skip_on_error /\ skip_on_error_count' = skip_on_error_count
         /\ phase' = [phase EXCEPT ![r] = "answered"]
         /\ reply' = [reply EXCEPT ![r] = w2]
  BY DEF Erred, Through, Limited
<1>4. "passed" \in Phases /\ "answered" \in Phases
  BY DEF Phases
<1> HIDE DEF w1, w2
<1>5. /\ phase' \in [1..Len(req) -> Phases] /\ reply' \in [1..Len(req) -> Replies]
      /\ \A s \in 1..Len(req) : s # r => phase'[s] = phase[s] /\ reply'[s] = reply[s]
  BY <1>1, <1>2, <1>3, <1>4
<1>6. Erring(r)
  BY <1>1, <1>3 DEF Erring, w1, w2
<1>7. QED
  BY <1>5, <1>6

\* GivenUp is GivingUp, for one request.
LEMMA GivingUpIs ==
    ASSUME Typed, NEW r \in Requests, GivenUp(r)
    PROVE  /\ result' \in [1..Len(req) -> Option(Answers)]
           /\ \A s \in 1..Len(req) : s # r => result'[s] = result[s]
           /\ GivingUp(r)
<1>1. r \in 1..Len(req) /\ result \in [1..Len(req) -> Option(Answers)]
  BY RequestTyped
<1>2. /\ result' = [result EXCEPT ![r] = {}]
      /\ (late' = late \/ (result[r] = {} /\ late' = late \cup {r}))
  BY DEF GivenUp
<1>3. {} \in Option(Answers)
  BY OptionsAre
<1>4. QED
  BY <1>1, <1>2, <1>3 DEF GivingUp

\* Each step of a request, by what it does to that request.
LEMMA MemoryChecksIs ==
    ASSUME Typed, NEW r \in Requests, MemoryChecks(r)
    PROVE  /\ StepOf(r) /\ phase[r] = "checking" /\ result[r] = {} /\ key[r] \in StoreKeys
           /\ Asked(key[r]) /\ result'[r] = {answer'} /\ Deciding(r, answer')
           /\ UNCHANGED <<late, counters>>
<1>1. /\ phase[r] = "checking" /\ result[r] = {}
      /\ Store!Ask(key[r]) /\ result' = [result EXCEPT ![r] = {answer'}]
      /\ Decided(r, answer')
      /\ UNCHANGED <<settingVars, req, key, late, counters>>
  BY DEF MemoryChecks, Checking, Runs
<1>2. /\ r \in 1..Len(req) /\ result \in [1..Len(req) -> Option(Answers)]
      /\ key[r] \in StoreKeys
  BY <1>1, RequestTyped
<1>3. Asked(key[r])
  BY <1>1, <1>2, AskedIs
<1>4. answer' \in Answers /\ {answer'} \in Option(Answers)
  BY <1>3, OptionsAre DEF Asked
<1>5. /\ phase' \in [1..Len(req) -> Phases] /\ reply' \in [1..Len(req) -> Replies]
      /\ \A s \in 1..Len(req) : s # r => phase'[s] = phase[s] /\ reply'[s] = reply[s]
      /\ Deciding(r, answer')
  BY <1>1, <1>4, DecidingIs
<1>6. /\ result' \in [1..Len(req) -> Option(Answers)] /\ result'[r] = {answer'}
      /\ \A s \in 1..Len(req) : s # r => result'[s] = result[s]
  BY <1>1, <1>2, <1>4
<1>7. StepOf(r)
  BY <1>1, <1>5, <1>6 DEF StepOf
<1>8. QED
  BY <1>1, <1>2, <1>3, <1>5, <1>6, <1>7

\* A script runs, and its answer is on the way.
LEMMA RedisRunsIs ==
    ASSUME Typed, NEW r \in Requests, RedisRuns(r)
    PROVE  /\ StepOf(r) /\ phase[r] = "checking" /\ result[r] = {} /\ key[r] \in StoreKeys
           /\ Asked(key[r]) /\ result'[r] = {answer'}
           /\ UNCHANGED <<phase, reply, late, counters>>
<1>1. /\ phase[r] = "checking" /\ result[r] = {}
      /\ Store!Ask(key[r]) /\ result' = [result EXCEPT ![r] = {answer'}]
      /\ UNCHANGED <<settingVars, req, phase, key, reply, late, counters>>
  BY DEF RedisRuns, Checking, Runs
<1>2. /\ r \in 1..Len(req) /\ result \in [1..Len(req) -> Option(Answers)]
      /\ key[r] \in StoreKeys
      /\ phase \in [1..Len(req) -> Phases] /\ reply \in [1..Len(req) -> Replies]
  BY <1>1, RequestTyped
<1>3. Asked(key[r])
  BY <1>1, <1>2, AskedIs
<1>4. {answer'} \in Option(Answers)
  BY <1>3, OptionsAre DEF Asked
<1>5. /\ result' \in [1..Len(req) -> Option(Answers)] /\ result'[r] = {answer'}
      /\ \A s \in 1..Len(req) : s # r => result'[s] = result[s]
  BY <1>1, <1>2, <1>4
<1>6. StepOf(r)
  BY <1>1, <1>2, <1>5 DEF StepOf
<1>7. QED
  BY <1>1, <1>2, <1>3, <1>5, <1>6

\* The answer arrives.
LEMMA RedisRepliesIs ==
    ASSUME Typed, NEW r \in Requests, RedisReplies(r)
    PROVE  /\ StepOf(r) /\ phase[r] = "checking" /\ result[r] # {}
           /\ \E ans \in result[r] : ans \in Answers /\ result[r] = {ans} /\ Deciding(r, ans)
           /\ UNCHANGED <<result, late, counters, storeVars>>
<1>1. /\ phase[r] = "checking" /\ result[r] # {}
      /\ UNCHANGED <<settingVars, req, key, result, late, counters, storeVars>>
  BY DEF RedisReplies
<1>2. PICK ans \in result[r] : Decided(r, ans)
  BY DEF RedisReplies
<1>3. r \in 1..Len(req) /\ result \in [1..Len(req) -> Option(Answers)]
  BY RequestTyped
<1>4. ans \in Answers /\ result[r] = {ans}
  BY <1>2, <1>3 DEF Option
<1>5. /\ phase' \in [1..Len(req) -> Phases] /\ reply' \in [1..Len(req) -> Replies]
      /\ \A s \in 1..Len(req) : s # r => phase'[s] = phase[s] /\ reply'[s] = reply[s]
      /\ Deciding(r, ans)
  BY <1>2, <1>4, DecidingIs
<1>6. StepOf(r)
  BY <1>1, <1>3, <1>5 DEF StepOf
<1>7. QED
  BY <1>1, <1>2, <1>4, <1>5, <1>6

\* It does not.
LEMMA StoreFailsIs ==
    ASSUME Typed, NEW r \in Requests, StoreFails(r)
    PROVE  /\ StepOf(r) /\ phase[r] = "checking" /\ config.store_type = "Redis"
           /\ Erring(r) /\ GivingUp(r)
           /\ UNCHANGED <<unkeyed_allow_count, storeVars>>
<1>1. /\ phase[r] = "checking" /\ config.store_type = "Redis" /\ Erred(r) /\ GivenUp(r)
      /\ UNCHANGED <<settingVars, req, key, unkeyed_allow_count, storeVars>>
  BY DEF StoreFails
<1>2. /\ phase' \in [1..Len(req) -> Phases] /\ reply' \in [1..Len(req) -> Replies]
      /\ \A s \in 1..Len(req) : s # r => phase'[s] = phase[s] /\ reply'[s] = reply[s]
      /\ Erring(r)
  BY <1>1, ErringIs
<1>3. /\ result' \in [1..Len(req) -> Option(Answers)]
      /\ \A s \in 1..Len(req) : s # r => result'[s] = result[s]
      /\ GivingUp(r)
  BY <1>1, GivingUpIs
<1>4. QED
  BY <1>1, <1>2, <1>3 DEF StepOf

\* A script runs for nobody.
LEMMA LateRunsIs ==
    ASSUME Typed, NEW r \in Requests, LateRuns(r)
    PROVE  /\ StepOf(r) /\ r \in late /\ late' = late \ {r} /\ key[r] \in StoreKeys
           /\ Asked(key[r])
           /\ UNCHANGED <<phase, result, reply, counters>>
<1>1. /\ r \in late /\ late' = late \ {r} /\ Store!Ask(key[r])
      /\ UNCHANGED <<settingVars, req, phase, key, result, reply, counters>>
  BY DEF LateRuns
<1>2. /\ key[r] \in StoreKeys /\ result \in [1..Len(req) -> Option(Answers)]
      /\ phase \in [1..Len(req) -> Phases] /\ reply \in [1..Len(req) -> Replies]
  BY <1>1, RequestTyped
<1>3. Asked(key[r])
  BY <1>1, <1>2, AskedIs
<1>4. QED
  BY <1>1, <1>2, <1>3 DEF StepOf

\* The next handler returns.
LEMMA HandlerReturnsIs ==
    ASSUME Typed, NEW r \in Requests, HandlerReturns(r)
    PROVE  /\ StepOf(r) /\ phase[r] = "passed" /\ phase'[r] = "answered"
           /\ \/ reply'[r] = [reply[r] EXCEPT !.status = 200]
              \/ reply'[r] = [status |-> 500, headers |-> {}, retry_after |-> {}]
           /\ UNCHANGED <<result, late, counters, storeVars>>
<1>1. /\ phase[r] = "passed" /\ phase' = [phase EXCEPT ![r] = "answered"]
      /\ UNCHANGED <<settingVars, req, key, result, late, counters, storeVars>>
  BY DEF HandlerReturns
<1>2. /\ r \in 1..Len(req) /\ reply[r] \in Replies
      /\ phase \in [1..Len(req) -> Phases] /\ reply \in [1..Len(req) -> Replies]
      /\ result \in [1..Len(req) -> Option(Answers)]
  BY RequestTyped
<1> DEFINE w1 == [reply[r] EXCEPT !.status = 200]
           w2 == [status |-> 500, headers |-> {}, retry_after |-> {}]
<1>3. w1 \in Replies /\ w2 \in Replies
  <2>1. /\ {} \in Option(Headers) /\ {} \in Option(Nat)
        /\ 500 \in {0, 200, 429, 500}
    BY OptionsAre
  <2>2. w1 \in Replies
    BY <1>2, ReplyWith200
  <2>3. w2 \in Replies
    BY <2>1, ReplyOf
  <2>4. QED
    BY <2>2, <2>3
<1>4. reply' = [reply EXCEPT ![r] = w1] \/ reply' = [reply EXCEPT ![r] = w2]
  BY DEF HandlerReturns, NoReply
<1>5. "answered" \in Phases
  BY DEF Phases
<1> HIDE DEF w1, w2
<1>6. /\ phase' \in [1..Len(req) -> Phases] /\ reply' \in [1..Len(req) -> Replies]
      /\ \A s \in 1..Len(req) : s # r => phase'[s] = phase[s] /\ reply'[s] = reply[s]
      /\ phase'[r] = "answered" /\ reply'[r] \in {w1, w2}
  BY <1>1, <1>2, <1>3, <1>4, <1>5
<1>7. StepOf(r)
  BY <1>1, <1>2, <1>6 DEF StepOf
<1>8. QED
  BY <1>1, <1>6, <1>7 DEF w1, w2

\* The client goes away.
LEMMA DropIs ==
    ASSUME Typed, NEW r \in Requests, Drop(r)
    PROVE  /\ StepOf(r)
           /\ \/ /\ phase[r] = "passed" /\ phase'[r] = "abandoned"
                 /\ UNCHANGED <<late, result>>
              \/ /\ phase[r] = "checking" /\ phase'[r] = "dropped" /\ GivingUp(r)
           /\ UNCHANGED <<reply, counters, storeVars>>
<1>1. /\ phase' = [phase EXCEPT ![r] = IF @ = "passed" THEN "abandoned" ELSE "dropped"]
      /\ UNCHANGED <<settingVars, req, key, reply, counters, storeVars>>
      /\ \/ phase[r] = "passed" /\ UNCHANGED <<late, result>>
         \/ phase[r] = "checking" /\ GivenUp(r)
  BY DEF Drop
<1>2. /\ r \in 1..Len(req)
      /\ phase \in [1..Len(req) -> Phases] /\ reply \in [1..Len(req) -> Replies]
      /\ result \in [1..Len(req) -> Option(Answers)]
  BY RequestTyped
<1>3. "abandoned" \in Phases /\ "dropped" \in Phases
  BY DEF Phases
<1>4. /\ phase' \in [1..Len(req) -> Phases]
      /\ \A s \in 1..Len(req) : s # r => phase'[s] = phase[s]
      /\ phase'[r] = IF phase[r] = "passed" THEN "abandoned" ELSE "dropped"
  BY <1>1, <1>2, <1>3
<1>5. CASE phase[r] = "passed" /\ UNCHANGED <<late, result>>
  BY <1>1, <1>2, <1>4, <1>5 DEF StepOf
<1>6. CASE phase[r] = "checking" /\ GivenUp(r)
  <2>1. /\ result' \in [1..Len(req) -> Option(Answers)]
        /\ \A s \in 1..Len(req) : s # r => result'[s] = result[s]
        /\ GivingUp(r)
    BY <1>6, GivingUpIs
  <2>2. QED
    BY <1>1, <1>2, <1>4, <1>6, <2>1 DEF StepOf
<1>7. QED
  BY <1>1, <1>5, <1>6

\* A step of one request keeps the types if it does for that request.
LEMMA StepTyped ==
    ASSUME Typed, NEW r \in Requests, StepOf(r), late' \subseteq late \cup {r},
           phase'[r] = "checking" \/ r \in late' \/ result'[r] # {} => key[r] # {},
           level' \in [StoreKeys -> 0..Limit],
           skip_on_error_count' \in Nat, unkeyed_allow_count' \in Nat
    PROVE  Typed'
<1>1. /\ UNCHANGED <<stage, config, clock, req, key>>
      /\ phase' \in [1..Len(req) -> Phases]
      /\ result' \in [1..Len(req) -> Option(Answers)]
      /\ reply' \in [1..Len(req) -> Replies]
      /\ \A s \in 1..Len(req) : s # r =>
            phase'[s] = phase[s] /\ result'[s] = result[s] /\ reply'[s] = reply[s]
  BY DEF StepOf, settingVars
<1>2. ConfigTyped'
  BY <1>1 DEF Typed, ConfigTyped
<1>3. r \in 1..Len(req) /\ late \subseteq 1..Len(req)
  BY RequestTyped
<1>4. \A s \in 1..Len(req) :
         phase'[s] = "checking" \/ s \in late' \/ result'[s] # {} => key'[s] # {}
  <2> SUFFICES ASSUME NEW s \in 1..Len(req),
                      phase'[s] = "checking" \/ s \in late' \/ result'[s] # {}
               PROVE  key[s] # {}
    BY <1>1
  <2>1. CASE s = r
    BY <2>1
  <2>2. CASE s # r
    BY <1>1, <2>2 DEF Typed, RequestsTyped
  <2>3. QED
    BY <2>1, <2>2
<1>5. RequestsTyped'
  BY <1>1, <1>3, <1>4 DEF Typed, RequestsTyped
<1>6. QED
  BY <1>2, <1>5 DEF Typed

\* The counts and the levels are numbers.
LEMMA CountersTyped == Typed => skip_on_error_count \in Nat /\ unkeyed_allow_count \in Nat
                                /\ level \in [StoreKeys -> 0..Limit]
  BY DEF Typed

\* Every step is one of these.
RequestStep(r) ==
    \/ MemoryChecks(r) \/ RedisRuns(r) \/ RedisReplies(r) \/ StoreFails(r)
    \/ LateRuns(r) \/ HandlerReturns(r) \/ Drop(r)

\* A step is a setting, an arrival, a step of one request, or none.
LEMMA NextIs ==
    [Next]_vars => \/ Configure
                   \/ \E a \in Arrivals : Handle(a)
                   \/ \E r \in Requests : RequestStep(r)
                   \/ UNCHANGED vars
  BY DEF Next, RequestStep

\* The steps of a request keep the types.
LEMMA RequestStepTyped ==
    ASSUME Typed, NEW r \in Requests, RequestStep(r)
    PROVE  Typed'
<1>0. /\ skip_on_error_count \in Nat /\ unkeyed_allow_count \in Nat
      /\ level \in [StoreKeys -> 0..Limit]
      /\ {} \notin StoreKeys
      /\ key[r] \in StoreKeys \cup {{}}
      /\ phase[r] = "checking" \/ r \in late \/ result[r] # {} => key[r] # {}
  <2>1. {} \notin StoreKeys
    BY DEF StoreKeys
  <2>2. phase[r] = "checking" \/ r \in late \/ result[r] # {} => key[r] \in StoreKeys
    BY RequestTyped
  <2>3. key[r] \in StoreKeys \cup {{}}
    BY RequestTyped
  <2> HIDE DEF StoreKeys
  <2>4. phase[r] = "checking" \/ r \in late \/ result[r] # {} => key[r] # {}
    BY <2>1, <2>2
  <2>5. QED
    BY <2>1, <2>3, <2>4, CountersTyped
<1>1. CASE MemoryChecks(r)
  <2>1. /\ StepOf(r) /\ late' = late /\ key[r] \in StoreKeys
        /\ level' \in [StoreKeys -> 0..Limit]
        /\ skip_on_error_count' = skip_on_error_count
        /\ unkeyed_allow_count' = unkeyed_allow_count
    BY <1>1, MemoryChecksIs DEF Asked, counters
  <2>2. QED
    BY <1>0, <2>1, StepTyped
<1>2. CASE RedisRuns(r)
  <2>1. /\ StepOf(r) /\ late' = late /\ key[r] \in StoreKeys
        /\ level' \in [StoreKeys -> 0..Limit]
        /\ skip_on_error_count' = skip_on_error_count
        /\ unkeyed_allow_count' = unkeyed_allow_count
    BY <1>2, RedisRunsIs DEF Asked, counters
  <2>2. QED
    BY <1>0, <2>1, StepTyped
<1>3. CASE RedisReplies(r)
  <2>1. /\ StepOf(r) /\ late' = late /\ phase[r] = "checking" /\ level' = level
        /\ skip_on_error_count' = skip_on_error_count
        /\ unkeyed_allow_count' = unkeyed_allow_count
    BY <1>3, RedisRepliesIs DEF storeVars, counters
  <2>2. QED
    BY <1>0, <2>1, StepTyped
<1>4. CASE StoreFails(r)
  <2>1. /\ StepOf(r) /\ late' \subseteq late \cup {r} /\ phase[r] = "checking" /\ level' = level
        /\ skip_on_error_count' \in {skip_on_error_count, skip_on_error_count + 1}
        /\ unkeyed_allow_count' = unkeyed_allow_count
    BY <1>4, StoreFailsIs DEF storeVars, GivingUp, Erring
  <2>2. skip_on_error_count' \in Nat
    BY <1>0, <2>1
  <2>3. QED
    BY <1>0, <2>1, <2>2, StepTyped
<1>5. CASE LateRuns(r)
  <2>1. /\ StepOf(r) /\ late' \subseteq late /\ key[r] \in StoreKeys
        /\ level' \in [StoreKeys -> 0..Limit]
        /\ skip_on_error_count' = skip_on_error_count
        /\ unkeyed_allow_count' = unkeyed_allow_count
    BY <1>5, LateRunsIs DEF Asked, counters
  <2>2. QED
    BY <1>0, <2>1, StepTyped
<1>6. CASE HandlerReturns(r)
  <2>1. /\ StepOf(r) /\ late' = late /\ result' = result /\ level' = level
        /\ phase'[r] = "answered"
        /\ skip_on_error_count' = skip_on_error_count
        /\ unkeyed_allow_count' = unkeyed_allow_count
    BY <1>6, HandlerReturnsIs DEF storeVars, counters
  <2>2. QED
    BY <1>0, <2>1, StepTyped
<1>7. CASE Drop(r)
  <2>1. /\ StepOf(r) /\ late' \subseteq late \cup {r} /\ level' = level
        /\ skip_on_error_count' = skip_on_error_count
        /\ unkeyed_allow_count' = unkeyed_allow_count
        /\ \/ phase[r] = "checking"
           \/ phase'[r] = "abandoned" /\ late' = late /\ result' = result
    BY <1>7, DropIs DEF storeVars, counters, GivingUp
  <2>2. QED
    BY <1>0, <2>1, StepTyped
<1>8. QED
  BY <1>1, <1>2, <1>3, <1>4, <1>5, <1>6, <1>7 DEF RequestStep

\* So does an arrival.
LEMMA HandleTyped ==
    ASSUME Typed, NEW a \in Arrivals, Handle(a)
    PROVE  Typed'
<1> DEFINE n == Len(req) + 1
<1>0. /\ Len(req) \in Nat /\ late \subseteq 1..Len(req) /\ unkeyed_allow_count \in Nat
      /\ skip_on_error_count \in Nat /\ level \in [StoreKeys -> 0..Limit]
      /\ config \in Configs /\ clock \in Nat
      /\ stage \in {"built", "serving"} => \E b \in config.algorithm : b.limit > 0 /\ b.ms > 0
  BY LenProperties DEF Typed, ConfigTyped, RequestsTyped
<1>1. /\ stage \in {"built", "serving"} /\ stage' = "serving" /\ config' = config
      /\ n <= MaxRequests /\ req' \in Seq(Arrivals) /\ Len(req') = n
      /\ phase' \in [1..n -> Phases]
      /\ key' \in [1..n -> StoreKeys \cup {{}}] /\ key'[n] = KeyOf(a)
      /\ result' \in [1..n -> Option(Answers)] /\ result'[n] = {}
      /\ reply' \in [1..n -> Replies]
      /\ \A r \in 1..Len(req) :
            phase'[r] = phase[r] /\ key'[r] = key[r] /\ result'[r] = result[r]
      /\ phase'[n] = "checking" => KeyOf(a) # {}
      /\ unkeyed_allow_count' \in {unkeyed_allow_count, unkeyed_allow_count + 1}
      /\ clock' = clock /\ late' = late /\ skip_on_error_count' = skip_on_error_count
      /\ level' = level
  BY HandleIs DEF storeVars
<1>2. ConfigTyped'
  BY <1>0, <1>1 DEF ConfigTyped
<1>3. \A r \in 1..n : phase'[r] = "checking" \/ r \in late' \/ result'[r] # {} => key'[r] # {}
  <2> SUFFICES ASSUME NEW r \in 1..n,
                      phase'[r] = "checking" \/ r \in late' \/ result'[r] # {}
               PROVE  key'[r] # {}
    OBVIOUS
  <2>1. CASE r \in 1..Len(req)
    BY <1>1, <2>1 DEF Typed, RequestsTyped
  <2>2. CASE r = n
    <3>1. n \notin late
      BY <1>0
    <3>2. QED
      BY <1>1, <2>2, <3>1
  <2>3. QED
    BY <1>0, <2>1, <2>2
<1>4. late' \subseteq 1..n
  BY <1>0, <1>1
<1>5. RequestsTyped'
  BY <1>1, <1>3, <1>4 DEF RequestsTyped
<1>6. unkeyed_allow_count' \in Nat
  BY <1>0, <1>1
<1>7. QED
  BY <1>0, <1>1, <1>2, <1>5, <1>6 DEF Typed

\* So does every step.
THEOREM TypedNext == Typed /\ [Next]_vars => Typed'
<1> SUFFICES ASSUME Typed, [Next]_vars PROVE Typed'
  OBVIOUS
<1>1. CASE Configure
  <2>1. /\ Len(req) = 0 /\ stage' \in {"building", "built", "failed"}
        /\ config' \in Configs
        /\ stage' = "built" => \E a \in config'.algorithm : a.limit > 0 /\ a.ms > 0
        /\ UNCHANGED <<clock, req, phase, key, result, reply, late,
                       skip_on_error_count, unkeyed_allow_count, level>>
    BY <1>1, ConfigureIs DEF requestVars, counters, storeVars
  <2>2. ConfigTyped'
    BY <2>1 DEF Typed, ConfigTyped
  <2>3. RequestsTyped'
    BY <2>1 DEF Typed, RequestsTyped
  <2>4. QED
    BY <2>1, <2>2, <2>3 DEF Typed
<1>2. CASE \E a \in Arrivals : Handle(a)
  BY <1>2, HandleTyped
<1>3. CASE \E r \in Requests : RequestStep(r)
  BY <1>3, RequestStepTyped
<1>4. CASE UNCHANGED vars
  BY <1>4 DEF vars, Typed, ConfigTyped, RequestsTyped
<1>5. QED
  BY <1>1, <1>2, <1>3, <1>4, NextIs

\* The types hold in every state that can be reached.
THEOREM TypedCorrect == Spec => []Typed
<1>1. Init => Typed
  BY TypedInit
<1>2. Typed /\ [Next]_vars => Typed'
  BY TypedNext
<1>3. QED
  BY <1>1, <1>2, PTL DEF Spec

-----------------------------------------------------------------------------
\* What holds of each request, whatever the others do.

\* A key the bypass list waves through, as itself or as an API key's bucket.
Waved(bs, k) == k # {} /\ \A x \in k : \E b \in bs : b = x \/ ApiKeyBucket(b) = x

\* The next handler has had the request.
Went(p, w) == p \in {"passed", "abandoned"} \/ w.status \in {200, 500}

\* Who waits for the store, or has had its answer, has a key that is not
\* waved through; and nothing is told before the end.
FinePending(c, p, k, res, w, isLate) ==
    /\ p = "checking" \/ res # {} \/ isLate => k # {} /\ ~Waved(c.bypass_keys, k)
    /\ p = "checking" => w = NoReply
    /\ isLate => p # "checking" /\ res = {}

\* A 429 is given to nobody who is waved through, with a time to wait that
\* ends by the reset, or for want of a key or of an answer.
FineReply(c, now, p, k, res, w) ==
    /\ p # "answered" => w.status = 0
    /\ w.status # 429 => w.retry_after = {}
    /\ p = "passed" \/ w.status \in {200, 429} =>
          (w.headers # {} <=> c.include_headers /\ res # {})
    /\ w.status = 429 =>
          /\ ~Waved(c.bypass_keys, k)
          /\ \A h \in w.headers, s \in w.retry_after : Secs(now) + s <= h.reset
          /\ w.retry_after = {} =>
                 \/ k = {} /\ c.unkeyed_policy = "Deny"
                 \/ c.store_type = "Redis" /\ ~c.skip_on_error

\* Nobody gets through against the answer of the store or against the
\* configuration.
FinePass(c, p, k, res, w) ==
    Went(p, w) =>
        /\ \A ans \in res : ans.allowed
        /\ k = {} => c.unkeyed_policy = "Allow"
        /\ res = {} /\ k # {} /\ ~Waved(c.bypass_keys, k) => c.skip_on_error

\* The invariant of one request, over the values it is about.
Fine(c, now, a, p, k, res, w, isLate) ==
    /\ k = KeyWith(c.extractor, c.trusted_proxy_depth, a)
    /\ FinePending(c, p, k, res, w, isLate)
    /\ FineReply(c, now, p, k, res, w)
    /\ FinePass(c, p, k, res, w)

RequestsFine ==
    \A r \in 1..Len(req) :
        Fine(config, clock, req[r], phase[r], key[r], result[r], reply[r], r \in late)

\* A step of one request leaves the others fine.
LEMMA StepFine ==
    ASSUME Typed, RequestsFine, NEW r \in Requests, StepOf(r),
           \A s \in 1..Len(req) : s # r => (s \in late' <=> s \in late),
           Fine(config, clock, req[r], phase'[r], key[r], result'[r], reply'[r], r \in late')
    PROVE  RequestsFine'
<1>1. /\ UNCHANGED <<config, clock, req, key>>
      /\ \A s \in 1..Len(req) : s # r =>
            phase'[s] = phase[s] /\ result'[s] = result[s] /\ reply'[s] = reply[s]
  BY DEF StepOf, settingVars
<1> SUFFICES ASSUME NEW s \in 1..Len(req)
             PROVE  Fine(config, clock, req[s], phase'[s], key[s], result'[s], reply'[s],
                         s \in late')
  BY <1>1 DEF RequestsFine
<1>2. CASE s = r
  BY <1>2
<1>3. CASE s # r
  <2>1. Fine(config, clock, req[s], phase[s], key[s], result[s], reply[s], s \in late)
    BY DEF RequestsFine
  <2>2. /\ phase'[s] = phase[s] /\ result'[s] = result[s] /\ reply'[s] = reply[s]
        /\ (s \in late' <=> s \in late)
    BY <1>1, <1>3
  <2>3. FinePending(config, phase'[s], key[s], result'[s], reply'[s], s \in late')
    BY <2>1, <2>2 DEF Fine, FinePending
  <2>4. QED
    BY <2>1, <2>2, <2>3 DEF Fine
<1>4. QED
  BY <1>2, <1>3

\* What a request that is being checked has behind it.
LEMMA CheckingFine ==
    ASSUME Typed, RequestsFine, NEW r \in Requests, phase[r] = "checking"
    PROVE  /\ key[r] = KeyWith(config.extractor, config.trusted_proxy_depth, req[r])
           /\ key[r] # {} /\ ~Waved(config.bypass_keys, key[r])
           /\ reply[r] = [status |-> 0, headers |-> {}, retry_after |-> {}]
           /\ r \notin late
<1>1. r \in 1..Len(req)
  BY RequestTyped
<1>2. Fine(config, clock, req[r], phase[r], key[r], result[r], reply[r], r \in late)
  BY <1>1 DEF RequestsFine
<1>3. QED
  BY <1>2 DEF Fine, FinePending, NoReply

\* A request is fine once check has its answer,
LEMMA DecidingFine ==
    ASSUME Typed, RequestsFine, NEW r \in Requests, phase[r] = "checking",
           NEW ans \in Answers, Deciding(r, ans), late' = late, result'[r] = {ans}
    PROVE  Fine(config, clock, req[r], phase'[r], key[r], result'[r], reply'[r], r \in late')
<1>1. /\ key[r] = KeyWith(config.extractor, config.trusted_proxy_depth, req[r])
      /\ key[r] # {} /\ ~Waved(config.bypass_keys, key[r])
      /\ reply[r] = [status |-> 0, headers |-> {}, retry_after |-> {}]
      /\ r \notin late
  BY CheckingFine
<1>2. PICK h \in Headers, s \in Nat :
          LET given == IF config.include_headers THEN {h} ELSE {}
          IN  \/ /\ ans.allowed
                 /\ phase'[r] = "passed"
                 /\ reply'[r] = [reply[r] EXCEPT !.headers = given]
              \/ /\ ~ans.allowed
                 /\ phase'[r] = "answered"
                 /\ reply'[r] = [status |-> 429, headers |-> given, retry_after |-> {s}]
                 /\ Secs(clock) + s <= h.reset
  BY DEF Deciding
<1> DEFINE given == IF config.include_headers THEN {h} ELSE {}
<1>3. given # {} <=> config.include_headers
  OBVIOUS
<1>4. \A g \in given : g = h
  OBVIOUS
<1>5. \/ /\ ans.allowed
         /\ phase'[r] = "passed"
         /\ reply'[r] = [status |-> 0, headers |-> given, retry_after |-> {}]
      \/ /\ ~ans.allowed
         /\ phase'[r] = "answered"
         /\ reply'[r] = [status |-> 429, headers |-> given, retry_after |-> {s}]
         /\ Secs(clock) + s <= h.reset
  <2>1. \/ /\ ans.allowed
           /\ phase'[r] = "passed"
           /\ reply'[r] = [reply[r] EXCEPT !.headers = given]
        \/ /\ ~ans.allowed
           /\ phase'[r] = "answered"
           /\ reply'[r] = [status |-> 429, headers |-> given, retry_after |-> {s}]
           /\ Secs(clock) + s <= h.reset
    BY <1>2
  <2> HIDE DEF given
  <2>2. [reply[r] EXCEPT !.headers = given]
            = [status |-> 0, headers |-> given, retry_after |-> {}]
    BY <1>1
  <2>3. QED
    BY <2>1, <2>2
<1> HIDE DEF given
<1>6. CASE /\ ans.allowed
           /\ phase'[r] = "passed"
           /\ reply'[r] = [status |-> 0, headers |-> given, retry_after |-> {}]
  <2>1. FinePending(config, phase'[r], key[r], result'[r], reply'[r], r \in late')
    BY <1>1, <1>6 DEF FinePending
  <2>2. FineReply(config, clock, phase'[r], key[r], result'[r], reply'[r])
    BY <1>3, <1>6 DEF FineReply
  <2>3. FinePass(config, phase'[r], key[r], result'[r], reply'[r])
    BY <1>1, <1>6 DEF FinePass
  <2>4. QED
    BY <1>1, <2>1, <2>2, <2>3 DEF Fine
<1>7. CASE /\ ~ans.allowed
           /\ phase'[r] = "answered"
           /\ reply'[r] = [status |-> 429, headers |-> given, retry_after |-> {s}]
           /\ Secs(clock) + s <= h.reset
  <2>1. FinePending(config, phase'[r], key[r], result'[r], reply'[r], r \in late')
    BY <1>1, <1>7 DEF FinePending
  <2>2. FineReply(config, clock, phase'[r], key[r], result'[r], reply'[r])
    BY <1>1, <1>3, <1>4, <1>7 DEF FineReply
  <2>3. FinePass(config, phase'[r], key[r], result'[r], reply'[r])
    BY <1>7 DEF FinePass, Went
  <2>4. QED
    BY <1>1, <2>1, <2>2, <2>3 DEF Fine
<1>8. QED
  BY <1>5, <1>6, <1>7

\* or has none.
LEMMA ErringFine ==
    ASSUME Typed, RequestsFine, NEW r \in Requests, phase[r] = "checking",
           config.store_type = "Redis", Erring(r), GivingUp(r)
    PROVE  Fine(config, clock, req[r], phase'[r], key[r], result'[r], reply'[r], r \in late')
<1>1. /\ key[r] = KeyWith(config.extractor, config.trusted_proxy_depth, req[r])
      /\ key[r] # {} /\ ~Waved(config.bypass_keys, key[r])
      /\ reply[r] = [status |-> 0, headers |-> {}, retry_after |-> {}]
      /\ r \notin late
  BY CheckingFine
<1>2. result'[r] = {}
  BY DEF GivingUp
<1>3. CASE /\ config.skip_on_error /\ phase'[r] = "passed"
           /\ reply'[r] = [status |-> 0, headers |-> {}, retry_after |-> {}]
  <2>1. FinePending(config, phase'[r], key[r], result'[r], reply'[r], r \in late')
    BY <1>1, <1>2, <1>3 DEF FinePending
  <2>2. FineReply(config, clock, phase'[r], key[r], result'[r], reply'[r])
    BY <1>2, <1>3 DEF FineReply
  <2>3. FinePass(config, phase'[r], key[r], result'[r], reply'[r])
    BY <1>1, <1>2, <1>3 DEF FinePass
  <2>4. QED
    BY <1>1, <2>1, <2>2, <2>3 DEF Fine
<1>4. CASE /\ ~config.skip_on_error /\ phase'[r] = "answered"
           /\ reply'[r] = [status |-> 429, headers |-> {}, retry_after |-> {}]
  <2>1. FinePending(config, phase'[r], key[r], result'[r], reply'[r], r \in late')
    BY <1>1, <1>2, <1>4 DEF FinePending
  <2>2. FineReply(config, clock, phase'[r], key[r], result'[r], reply'[r])
    BY <1>1, <1>2, <1>4 DEF FineReply
  <2>3. FinePass(config, phase'[r], key[r], result'[r], reply'[r])
    BY <1>4 DEF FinePass, Went
  <2>4. QED
    BY <1>1, <2>1, <2>2, <2>3 DEF Fine
<1>5. QED
  BY <1>1, <1>3, <1>4 DEF Erring

\* What the invariant says of a request.
LEMMA MovedIs ==
    ASSUME Typed, RequestsFine, NEW r \in Requests
    PROVE  /\ Fine(config, clock, req[r], phase[r], key[r], result[r], reply[r], r \in late)
           /\ reply[r] \in Replies
  BY RequestTyped DEF RequestsFine

\* A request is fine once the next handler has returned,
LEMMA ReturnsFine ==
    ASSUME Typed, RequestsFine, NEW r \in Requests, HandlerReturns(r)
    PROVE  Fine(config, clock, req[r], phase'[r], key[r], result'[r], reply'[r], r \in late')
<1>1. /\ phase[r] = "passed" /\ phase'[r] = "answered"
      /\ \/ reply'[r] = [reply[r] EXCEPT !.status = 200]
         \/ reply'[r] = [status |-> 500, headers |-> {}, retry_after |-> {}]
      /\ UNCHANGED <<result, late>>
  BY HandlerReturnsIs
<1>2. /\ Fine(config, clock, req[r], phase[r], key[r], result[r], reply[r], r \in late)
      /\ reply[r] \in Replies
  BY MovedIs
<1>3. FinePass(config, "passed", key[r], result[r], reply[r])
  BY <1>1, <1>2 DEF Fine
<1>4. FinePass(config, phase'[r], key[r], result'[r], reply'[r])
  BY <1>1, <1>3 DEF FinePass, Went
<1>5. FinePending(config, phase'[r], key[r], result'[r], reply'[r], r \in late')
  BY <1>1, <1>2 DEF Fine, FinePending
<1>6. FineReply(config, clock, phase[r], key[r], result[r], reply[r])
  BY <1>2 DEF Fine
<1>7. reply[r].status = 0 /\ reply[r].retry_after = {}
      /\ (reply[r].headers # {} <=> config.include_headers /\ result[r] # {})
  BY <1>1, <1>6 DEF FineReply
<1>8. CASE reply'[r] = [reply[r] EXCEPT !.status = 200]
  <2>1. /\ reply'[r].status = 200 /\ reply'[r].retry_after = {}
        /\ reply'[r].headers = reply[r].headers
    BY <1>2, <1>7, <1>8 DEF Replies
  <2>2. FineReply(config, clock, phase'[r], key[r], result'[r], reply'[r])
    BY <1>1, <1>7, <2>1 DEF FineReply
  <2>3. QED
    BY <1>2, <1>4, <1>5, <2>2 DEF Fine
<1>9. CASE reply'[r] = [status |-> 500, headers |-> {}, retry_after |-> {}]
  <2>1. FineReply(config, clock, phase'[r], key[r], result'[r], reply'[r])
    BY <1>1, <1>9 DEF FineReply
  <2>2. QED
    BY <1>2, <1>4, <1>5, <2>1 DEF Fine
<1>10. QED
  BY <1>1, <1>8, <1>9

\* or once its client is gone.
LEMMA DropFine ==
    ASSUME Typed, RequestsFine, NEW r \in Requests, Drop(r)
    PROVE  Fine(config, clock, req[r], phase'[r], key[r], result'[r], reply'[r], r \in late')
<1>1. /\ \/ /\ phase[r] = "passed" /\ phase'[r] = "abandoned"
            /\ UNCHANGED <<late, result>>
         \/ /\ phase[r] = "checking" /\ phase'[r] = "dropped" /\ GivingUp(r)
      /\ reply' = reply
  BY DropIs
<1>2. Fine(config, clock, req[r], phase[r], key[r], result[r], reply[r], r \in late)
  BY MovedIs
<1>3. CASE /\ phase[r] = "passed" /\ phase'[r] = "abandoned" /\ UNCHANGED <<late, result>>
  <2>1. FinePending(config, phase'[r], key[r], result'[r], reply'[r], r \in late')
    BY <1>1, <1>2, <1>3 DEF Fine, FinePending
  <2>2. FineReply(config, clock, phase'[r], key[r], result'[r], reply'[r])
    BY <1>1, <1>2, <1>3 DEF Fine, FineReply
  <2>3. FinePass(config, phase'[r], key[r], result'[r], reply'[r])
    BY <1>1, <1>2, <1>3 DEF Fine, FinePass, Went
  <2>4. QED
    BY <1>2, <2>1, <2>2, <2>3 DEF Fine
<1>4. CASE phase[r] = "checking" /\ phase'[r] = "dropped" /\ GivingUp(r)
  <2>1. /\ key[r] # {} /\ ~Waved(config.bypass_keys, key[r])
        /\ reply[r] = [status |-> 0, headers |-> {}, retry_after |-> {}]
    BY <1>4, CheckingFine
  <2>2. result'[r] = {}
    BY <1>4 DEF GivingUp
  <2>3. FinePending(config, phase'[r], key[r], result'[r], reply'[r], r \in late')
    BY <1>4, <2>1, <2>2 DEF FinePending
  <2>4. FineReply(config, clock, phase'[r], key[r], result'[r], reply'[r])
    BY <1>1, <1>4, <2>1 DEF FineReply
  <2>5. FinePass(config, phase'[r], key[r], result'[r], reply'[r])
    BY <1>1, <1>4, <2>1 DEF FinePass, Went
  <2>6. QED
    BY <1>2, <2>3, <2>4, <2>5 DEF Fine
<1>5. QED
  BY <1>1, <1>3, <1>4

\* Every step of a request leaves all the requests fine.
LEMMA RequestStepFine ==
    ASSUME Typed, RequestsFine, NEW r \in Requests, RequestStep(r)
    PROVE  RequestsFine'
<1>1. CASE MemoryChecks(r)
  <2>1. /\ StepOf(r) /\ phase[r] = "checking" /\ Asked(key[r])
        /\ result'[r] = {answer'} /\ Deciding(r, answer') /\ late' = late
    BY <1>1, MemoryChecksIs
  <2>2. answer' \in Answers
    BY <2>1 DEF Asked
  <2>3. Fine(config, clock, req[r], phase'[r], key[r], result'[r], reply'[r], r \in late')
    BY <2>1, <2>2, DecidingFine
  <2>4. QED
    BY <2>1, <2>3, StepFine
<1>2. CASE RedisRuns(r)
  <2>1. /\ StepOf(r) /\ phase[r] = "checking" /\ UNCHANGED <<phase, reply, late>>
    BY <1>2, RedisRunsIs
  <2>2. /\ key[r] # {} /\ ~Waved(config.bypass_keys, key[r]) /\ r \notin late
        /\ reply[r] = [status |-> 0, headers |-> {}, retry_after |-> {}]
        /\ key[r] = KeyWith(config.extractor, config.trusted_proxy_depth, req[r])
    BY <2>1, CheckingFine
  <2>3. FinePending(config, phase'[r], key[r], result'[r], reply'[r], r \in late')
    BY <2>1, <2>2 DEF FinePending, NoReply
  <2>4. FineReply(config, clock, phase'[r], key[r], result'[r], reply'[r])
    BY <2>1, <2>2 DEF FineReply
  <2>5. FinePass(config, phase'[r], key[r], result'[r], reply'[r])
    BY <2>1, <2>2 DEF FinePass, Went
  <2>6. Fine(config, clock, req[r], phase'[r], key[r], result'[r], reply'[r], r \in late')
    BY <2>2, <2>3, <2>4, <2>5 DEF Fine
  <2>7. QED
    BY <2>1, <2>6, StepFine
<1>3. CASE RedisReplies(r)
  <2>1. /\ StepOf(r) /\ phase[r] = "checking" /\ result' = result /\ late' = late
    BY <1>3, RedisRepliesIs
  <2>2. PICK ans \in Answers : result[r] = {ans} /\ Deciding(r, ans)
    BY <1>3, RedisRepliesIs
  <2>3. result'[r] = {ans}
    BY <2>1, <2>2
  <2>4. Fine(config, clock, req[r], phase'[r], key[r], result'[r], reply'[r], r \in late')
    BY <2>1, <2>2, <2>3, DecidingFine
  <2>5. QED
    BY <2>1, <2>4, StepFine
<1>4. CASE StoreFails(r)
  <2>1. /\ StepOf(r) /\ phase[r] = "checking" /\ config.store_type = "Redis"
        /\ Erring(r) /\ GivingUp(r)
    BY <1>4, StoreFailsIs
  <2>2. Fine(config, clock, req[r], phase'[r], key[r], result'[r], reply'[r], r \in late')
    BY <2>1, ErringFine
  <2>3. \A s \in 1..Len(req) : s # r => (s \in late' <=> s \in late)
    BY <2>1 DEF GivingUp
  <2>4. QED
    BY <2>1, <2>2, <2>3, StepFine
<1>5. CASE LateRuns(r)
  <2>1. /\ StepOf(r) /\ r \in late /\ late' = late \ {r}
        /\ UNCHANGED <<phase, result, reply>>
    BY <1>5, LateRunsIs
  <2>2. Fine(config, clock, req[r], phase[r], key[r], result[r], reply[r], r \in late)
    BY MovedIs
  <2>3. FinePending(config, phase'[r], key[r], result'[r], reply'[r], r \in late')
    BY <2>1, <2>2 DEF Fine, FinePending
  <2>4. Fine(config, clock, req[r], phase'[r], key[r], result'[r], reply'[r], r \in late')
    BY <2>1, <2>2, <2>3 DEF Fine
  <2>5. QED
    BY <2>1, <2>4, StepFine
<1>6. CASE HandlerReturns(r)
  <2>1. StepOf(r) /\ late' = late
    BY <1>6, HandlerReturnsIs
  <2>2. Fine(config, clock, req[r], phase'[r], key[r], result'[r], reply'[r], r \in late')
    BY <1>6, ReturnsFine
  <2>3. QED
    BY <2>1, <2>2, StepFine
<1>7. CASE Drop(r)
  <2>1. StepOf(r) /\ (late' = late \/ late' = late \cup {r})
    BY <1>7, DropIs DEF GivingUp
  <2>2. Fine(config, clock, req[r], phase'[r], key[r], result'[r], reply'[r], r \in late')
    BY <1>7, DropFine
  <2>3. \A s \in 1..Len(req) : s # r => (s \in late' <=> s \in late)
    BY <2>1
  <2>4. QED
    BY <2>1, <2>2, <2>3, StepFine
<1>8. QED
  BY <1>1, <1>2, <1>3, <1>4, <1>5, <1>6, <1>7 DEF RequestStep

\* bypass_keys is asked as handle asks it.
LEMMA WavedIs ==
    ASSUME NEW k, k # {}
    PROVE  Waved(config.bypass_keys, k) <=> \A x \in k : Bypasses(x)
  BY DEF Waved, Bypasses

\* A request that has just come in is fine.
LEMMA HandleFine ==
    ASSUME Typed, RequestsFine, NEW a \in Arrivals, Handle(a)
    PROVE  RequestsFine'
<1> DEFINE n == Len(req) + 1
<1>0. Len(req) \in Nat /\ late \subseteq 1..Len(req) /\ config \in Configs
  BY LenProperties DEF Typed, ConfigTyped, RequestsTyped
<1>1. /\ config' = config /\ clock' = clock /\ late' = late
      /\ Len(req') = n /\ req'[n] = a /\ key'[n] = KeyOf(a) /\ result'[n] = {}
      /\ \A r \in 1..Len(req) :
            /\ req'[r] = req[r] /\ phase'[r] = phase[r] /\ key'[r] = key[r]
            /\ result'[r] = result[r] /\ reply'[r] = reply[r]
      /\ \/ /\ KeyOf(a) = {} /\ config.unkeyed_policy = "Allow"
            /\ phase'[n] = "passed" /\ reply'[n] = NoReply
         \/ /\ KeyOf(a) = {} /\ config.unkeyed_policy = "Deny"
            /\ phase'[n] = "answered"
            /\ reply'[n] = [status |-> 429, headers |-> {}, retry_after |-> {}]
         \/ /\ KeyOf(a) # {} /\ \A x \in KeyOf(a) : Bypasses(x)
            /\ phase'[n] = "passed" /\ reply'[n] = NoReply
         \/ /\ KeyOf(a) # {} /\ ~ \A x \in KeyOf(a) : Bypasses(x)
            /\ phase'[n] = "checking" /\ reply'[n] = NoReply
  BY HandleIs
<1>2. n \notin late
  BY <1>0
<1>3. KeyOf(a) = KeyWith(config.extractor, config.trusted_proxy_depth, a)
  <2>1. a \in Arrival /\ config.extractor \in Extractors \cup {DefaultExtractor}
    BY <1>0, MiddlewareAssumption DEF Configs
  <2>2. config.extractor.kind \in Kinds
    <3>1. \A e \in Extractors : e.kind \in Kinds
      BY MiddlewareAssumption
    <3>2. DefaultExtractor.kind \in Kinds
      BY DEF DefaultExtractor, Kinds
    <3>3. QED
      BY <2>1, <3>1, <3>2
  <2>3. QED
    BY <2>1, <2>2, RequiredHeaderIs
<1>4. KeyOf(a) # {} =>
          (Waved(config.bypass_keys, KeyOf(a)) <=> \A x \in KeyOf(a) : Bypasses(x))
  BY WavedIs
<1>5. KeyOf(a) = {} => ~Waved(config.bypass_keys, KeyOf(a))
  BY DEF Waved
<1> DEFINE k == KeyOf(a)
<1> HIDE DEF n
<1>6. \/ k = {} /\ config.unkeyed_policy = "Allow" /\ phase'[n] = "passed"
         /\ reply'[n] = [status |-> 0, headers |-> {}, retry_after |-> {}]
      \/ k = {} /\ config.unkeyed_policy = "Deny" /\ phase'[n] = "answered"
         /\ reply'[n] = [status |-> 429, headers |-> {}, retry_after |-> {}]
      \/ k # {} /\ Waved(config.bypass_keys, k) /\ phase'[n] = "passed"
         /\ reply'[n] = [status |-> 0, headers |-> {}, retry_after |-> {}]
      \/ k # {} /\ ~Waved(config.bypass_keys, k) /\ phase'[n] = "checking"
         /\ reply'[n] = [status |-> 0, headers |-> {}, retry_after |-> {}]
  BY <1>1, <1>4 DEF NoReply
<1>7. k = {} => ~Waved(config.bypass_keys, k)
  BY <1>5
<1>8. key'[n] = k /\ k = KeyWith(config.extractor, config.trusted_proxy_depth, a)
  BY <1>1, <1>3
<1> HIDE DEF k
<1>9. FinePending(config, phase'[n], k, {}, reply'[n], n \in late')
  BY <1>1, <1>2, <1>6, <1>7 DEF FinePending, NoReply
<1>10. FineReply(config, clock, phase'[n], k, {}, reply'[n])
  BY <1>6, <1>7 DEF FineReply
<1>11. FinePass(config, phase'[n], k, {}, reply'[n])
  BY <1>6, <1>7 DEF FinePass, Went
<1>12. Fine(config, clock, a, phase'[n], k, {}, reply'[n], n \in late')
  BY <1>8, <1>9, <1>10, <1>11 DEF Fine
<1>13. ASSUME NEW r \in 1..n
       PROVE  Fine(config, clock, req'[r], phase'[r], key'[r], result'[r], reply'[r],
                   r \in late')
  <2>1. CASE r = n
    BY <1>1, <1>8, <1>12, <2>1
  <2>2. CASE r # n
    <3>1. r \in 1..Len(req)
      BY <1>0, <2>2 DEF n
    <3>2. Fine(config, clock, req[r], phase[r], key[r], result[r], reply[r], r \in late)
      BY <3>1 DEF RequestsFine
    <3>3. QED
      BY <1>1, <3>1, <3>2
  <2>3. QED
    BY <2>1, <2>2
<1>14. QED
  BY <1>1, <1>13 DEF RequestsFine

\* So are they after every step.
THEOREM FineNext == Typed /\ RequestsFine /\ [Next]_vars => RequestsFine'
<1> SUFFICES ASSUME Typed, RequestsFine, [Next]_vars PROVE RequestsFine'
  OBVIOUS
<1>1. CASE Configure
  <2>1. Len(req) = 0 /\ req' = req
    BY <1>1, ConfigureIs DEF requestVars
  <2>2. QED
    BY <2>1 DEF RequestsFine
<1>2. CASE \E a \in Arrivals : Handle(a)
  BY <1>2, HandleFine
<1>3. CASE \E r \in Requests : RequestStep(r)
  BY <1>3, RequestStepFine
<1>4. CASE UNCHANGED vars
  BY <1>4 DEF vars, RequestsFine
<1>5. QED
  BY <1>1, <1>2, <1>3, <1>4, NextIs

\* Every request is fine in every state that can be reached.
THEOREM FineCorrect == Spec => []RequestsFine
<1>1. Init => RequestsFine
  <2>1. Init => Len(req) = 0
    BY EmptySeq DEF Init
  <2>2. QED
    BY <2>1 DEF RequestsFine
<1>2. Typed /\ RequestsFine /\ [Next]_vars => RequestsFine'
  BY FineNext
<1>3. QED
  BY <1>1, <1>2, TypedCorrect, PTL DEF Spec

-----------------------------------------------------------------------------
\* What follows for each request by itself.

\* A configured extractor is of a kind there is.
LEMMA KindsAre ==
    ASSUME config \in Configs
    PROVE  /\ config.extractor.kind \in Kinds /\ config.trusted_proxy_depth \in Nat
<1>1. /\ config.extractor \in Extractors \cup {DefaultExtractor}
      /\ config.trusted_proxy_depth \in Depths \cup {0}
  BY DEF Configs
<1>2. \A e \in Extractors : e.kind \in Kinds
  BY MiddlewareAssumption
<1>3. DefaultExtractor.kind \in Kinds
  BY DEF DefaultExtractor, Kinds
<1>4. Depths \cup {0} \subseteq Nat
  BY MiddlewareAssumption
<1>5. QED
  BY <1>1, <1>2, <1>3, <1>4

\* The default is by address; any other extractor has been chosen.
LEMMA ChosenExtractor ==
    ASSUME Typed, config.extractor.kind # "Ip"
    PROVE  config.extractor \in Extractors
<1>1. config.extractor \in Extractors \cup {DefaultExtractor}
  BY DEF Typed, ConfigTyped, Configs
<1>2. DefaultExtractor.kind = "Ip"
  BY DEF DefaultExtractor
<1>3. QED
  BY <1>1, <1>2

\* The key and the caller of a request, by the extractor and the depth.
LEMMA RequestIs ==
    ASSUME Typed, RequestsFine, NEW r \in Requests
    PROVE  /\ r \in 1..Len(req) /\ req[r] \in Arrivals /\ req[r] \in Arrival
           /\ config.extractor.kind \in Kinds /\ config.trusted_proxy_depth \in Nat
           /\ key[r] = KeyWith(config.extractor, config.trusted_proxy_depth, req[r])
           /\ Caller(req[r]) = CallerWith(config.extractor, config.trusted_proxy_depth, req[r])
           /\ Extract(config.extractor, ExtractRequestInfo(req[r])) = key[r]
<1>1. r \in 1..Len(req) /\ config \in Configs
  BY RequestTyped
<1>2. req[r] \in Arrivals /\ req[r] \in Arrival
  <2>1. req \in Seq(Arrivals)
    BY DEF Typed, RequestsTyped
  <2>2. req[r] \in Arrivals
    BY <1>1, <2>1, ElementOfSeq
  <2>3. QED
    BY <2>2, MiddlewareAssumption
<1>3. config.extractor.kind \in Kinds /\ config.trusted_proxy_depth \in Nat
  BY <1>1, KindsAre
<1>4. key[r] = KeyWith(config.extractor, config.trusted_proxy_depth, req[r])
  BY <1>1 DEF RequestsFine, Fine
<1>5. /\ Extract(config.extractor, ExtractRequestInfo(req[r]))
             = KeyWith(config.extractor, config.trusted_proxy_depth, req[r])
      /\ Caller(req[r]) = CallerWith(config.extractor, config.trusted_proxy_depth, req[r])
  BY <1>2, <1>3, RequiredHeaderIs
<1>6. QED
  BY <1>1, <1>2, <1>3, <1>4, <1>5

\* What holds one value at most has one element at most.
LEMMA SingleCardinality ==
    ASSUME NEW o, o = {} \/ \E x : o = {x}
    PROVE  Cardinality(o) <= 1
<1>1. CASE o = {}
  <2>1. Cardinality(o) = 0
    BY <1>1, FS_EmptySet
  <2>2. QED
    BY <2>1
<1>2. CASE \E x : o = {x}
  <2>1. Cardinality(o) = 1
    BY <1>2, FS_Singleton
  <2>2. QED
    BY <2>1
<1>3. QED
  BY <1>1, <1>2

\* An Option has one element at most.
LEMMA OptionCardinality ==
    ASSUME NEW S, NEW o \in Option(S)
    PROVE  Cardinality(o) <= 1
<1>1. o = {} \/ \E x : o = {x}
  BY DEF Option
<1>2. QED
  BY <1>1, SingleCardinality

\* The invariants for which each request is enough.
LEMMA TypeOKHolds ==
    ASSUME Typed, RequestsFine
    PROVE  TypeOK
<1>1. /\ stage \in {"building", "built", "failed", "serving"}
      /\ (stage \in {"built", "serving"} => \E a \in config.algorithm : a.limit > 0 /\ a.ms > 0)
      /\ config \in Configs
  BY DEF Typed, ConfigTyped
<1>2. /\ Requests = 1..Len(req) /\ Len(req) <= MaxRequests
      /\ phase \in [1..Len(req) -> Phases]
      /\ key \in [1..Len(req) -> StoreKeys \cup {{}}]
      /\ result \in [1..Len(req) -> Option(Answers)]
      /\ reply \in [1..Len(req) -> Replies]
      /\ late \subseteq 1..Len(req)
      /\ level \in [StoreKeys -> 0..Limit]
  <2>1. req \in Seq(Arrivals)
    BY DEF Typed, RequestsTyped
  <2>2. Requests = 1..Len(req)
    BY <2>1, LenProperties DEF Requests
  <2>3. QED
    BY <2>2 DEF Typed, RequestsTyped
<1>3. \A a \in config.algorithm : a.kind \in AlgorithmKinds
  <2>1. config.algorithm \subseteq Algorithms
    BY <1>1 DEF Configs, Option
  <2>2. QED
    BY <2>1, MiddlewareAssumption
<1>4. /\ config.store_type \in StoreTypes
      /\ config.unkeyed_policy \in UnkeyedRequestPolicies
  BY <1>1 DEF Configs
<1>5. config.extractor.kind \in Kinds
  BY <1>1, KindsAre
<1>6. ASSUME NEW r \in Requests
      PROVE  /\ phase[r] \in {"checking", "passed", "answered", "dropped", "abandoned"}
             /\ (key[r] = {} \/ key[r] \in DOMAIN level)
             /\ reply[r].status \in {0, 200, 429, 500}
             /\ Cardinality(key[r]) <= 1 /\ Cardinality(result[r]) <= 1
  <2>1. /\ phase[r] \in Phases /\ key[r] \in StoreKeys \cup {{}}
        /\ result[r] \in Option(Answers) /\ reply[r] \in Replies
    BY <1>2
  <2>2. Cardinality(result[r]) <= 1
    BY <2>1, OptionCardinality
  <2>3. Cardinality(key[r]) <= 1
    <3>1. /\ req[r] \in Arrival
          /\ config.extractor.kind \in Kinds /\ config.trusted_proxy_depth \in Nat
          /\ key[r] = KeyWith(config.extractor, config.trusted_proxy_depth, req[r])
      BY RequestIs
    <3>2. key[r] = {} \/ \E k : key[r] = {k}
      BY <3>1, KeyWithOption
    <3>3. QED
      BY <3>2, SingleCardinality
  <2>4. phase[r] \in {"checking", "passed", "answered", "dropped", "abandoned"}
    BY <2>1 DEF Phases
  <2>5. key[r] = {} \/ key[r] \in DOMAIN level
    BY <1>2, <2>1
  <2>6. reply[r].status \in {0, 200, 429, 500}
    BY <2>1 DEF Replies
  <2>7. QED
    BY <2>2, <2>3, <2>4, <2>5, <2>6
<1>7. \A k \in DOMAIN level : level[k] \in 0..Limit
  BY <1>2
<1>8. /\ Requests = DOMAIN phase /\ Requests = DOMAIN key
      /\ Requests = DOMAIN result /\ Requests = DOMAIN reply
      /\ late \subseteq Requests
  BY <1>2
<1>9. QED
  BY <1>1, <1>2, <1>3, <1>4, <1>5, <1>6, <1>7, <1>8 DEF TypeOK

\* The copied header is enough.
LEMMA RequiredHeaderHolds ==
    ASSUME Typed, RequestsFine
    PROVE  RequiredHeaderSuffices
  BY RequestIs DEF RequiredHeaderSuffices

\* Keys are shared exactly by those who share their caller.
LEMMA KeysHold ==
    ASSUME Typed, RequestsFine, NoColons
    PROVE  KeysSeparate
<1> SUFFICES ASSUME NEW r \in Requests, NEW s \in Requests
             PROVE  /\ key[r] = {} <=> Caller(req[r]) = {}
                    /\ key[r] = key[s] <=> Caller(req[r]) = Caller(req[s])
  BY RequiredHeaderHolds DEF KeysSeparate
<1>1. /\ req[r] \in Arrivals /\ req[r] \in Arrival
      /\ config.extractor.kind \in Kinds /\ config.trusted_proxy_depth \in Nat
      /\ key[r] = KeyWith(config.extractor, config.trusted_proxy_depth, req[r])
      /\ Caller(req[r]) = CallerWith(config.extractor, config.trusted_proxy_depth, req[r])
  BY RequestIs
<1>2. /\ req[s] \in Arrivals /\ req[s] \in Arrival
      /\ key[s] = KeyWith(config.extractor, config.trusted_proxy_depth, req[s])
      /\ Caller(req[s]) = CallerWith(config.extractor, config.trusted_proxy_depth, req[s])
  BY RequestIs
<1>3. ASSUME config.extractor.kind = "UserIdAndPath"
      PROVE  \A uid \in req[r].identity \cup req[s].identity : ":" \notin ToSet(uid)
  <2>1. config.extractor \in Extractors
    BY <1>3, ChosenExtractor
  <2>2. QED
    BY <1>1, <1>2, <1>3, <2>1 DEF NoColons
<1>4. key[r] = {} <=> Caller(req[r]) = {}
  BY <1>1, KeyWithOption
<1>5. key[r] = key[s] <=> Caller(req[r]) = Caller(req[s])
  BY <1>1, <1>2, <1>3, KeyWithSeparates
<1>6. QED
  BY <1>4, <1>5

\* Who is listed is waved through, by its key or by the bucket of its API key.
LEMMA ListedIsWaved ==
    ASSUME Typed, RequestsFine, NEW r \in Requests, key[r] # {}, IsListed(r)
    PROVE  Waved(config.bypass_keys, key[r])
<1> DEFINE e == config.extractor
           d == config.trusted_proxy_depth
<1>1. /\ req[r] \in Arrival /\ e.kind \in Kinds /\ d \in Nat
      /\ key[r] = KeyWith(e, d, req[r])
      /\ Caller(req[r]) = CallerWith(e, d, req[r])
  BY RequestIs
<1>2. PICK k : key[r] = {k}
  BY <1>1, KeyWithOption
<1>3. PICK b \in config.bypass_keys : b \in key[r] \/ (e.kind = "ApiKey" /\ b \in Caller(req[r]))
  BY DEF IsListed
<1>4. CASE b \in key[r]
  BY <1>2, <1>3, <1>4 DEF Waved
<1>5. CASE e.kind = "ApiKey" /\ b \in Caller(req[r])
  <2>1. /\ key[r] = {ApiKeyBucket(v) : v \in {v \in GetHeader(req[r].headers, e.header) :
                                                  v # <<>> /\ v \in IsValid}}
        /\ Caller(req[r]) = GetHeader(req[r].headers, e.header) \cap (IsValid \ {<<>>})
    BY <1>1, <1>5, FormsAre
  <2>2. ApiKeyBucket(b) \in key[r]
    BY <1>5, <2>1
  <2>3. QED
    BY <1>2, <1>3, <2>2 DEF Waved
<1>6. QED
  BY <1>3, <1>4, <1>5

\* A 429 is not for the listed.
LEMMA BypassHolds ==
    ASSUME Typed, RequestsFine
    PROVE  BypassNeverLimited
<1> SUFFICES ASSUME NEW r \in Requests, key[r] # {}, IsListed(r), reply[r].status = 429
             PROVE  FALSE
  BY DEF BypassNeverLimited
<1>1. Fine(config, clock, req[r], phase[r], key[r], result[r], reply[r], r \in late)
  BY MovedIs
<1>2. ~Waved(config.bypass_keys, key[r])
  BY <1>1 DEF Fine, FineReply
<1>3. QED
  BY <1>2, ListedIsWaved

\* Headers tell what the store has answered.
LEMMA HeadersHold ==
    ASSUME Typed, RequestsFine
    PROVE  HeadersTell
<1> SUFFICES ASSUME NEW r \in Requests
             PROVE  /\ reply[r].status \in {200, 429} =>
                           (reply[r].headers # {} <=> config.include_headers /\ result[r] # {})
                    /\ \A h \in reply[r].headers :
                           /\ h.limit = Limit
                           /\ h.remaining < Limit
                           /\ \A s \in reply[r].retry_after : Secs(clock) + s <= h.reset
                    /\ (reply[r].status = 429 /\ reply[r].retry_after = {}) =>
                           \/ key[r] = {} /\ config.unkeyed_policy = "Deny"
                           \/ config.store_type = "Redis" /\ ~config.skip_on_error
  BY DEF HeadersTell
<1>1. /\ Fine(config, clock, req[r], phase[r], key[r], result[r], reply[r], r \in late)
      /\ reply[r] \in Replies
  BY MovedIs
<1>2. FineReply(config, clock, phase[r], key[r], result[r], reply[r])
  BY <1>1 DEF Fine
<1>3. \A h \in reply[r].headers : h.limit = Limit /\ h.remaining < Limit
  <2>1. reply[r].headers \subseteq Headers
    BY <1>1 DEF Replies, Option
  <2>2. QED
    BY <2>1 DEF Headers
<1>4. \A h \in reply[r].headers, s \in reply[r].retry_after : Secs(clock) + s <= h.reset
  BY <1>2 DEF FineReply
<1>5. QED
  BY <1>2, <1>3, <1>4 DEF FineReply

-----------------------------------------------------------------------------
\* The type invariant: a limiter the builder made serves with parameters that
\* divide by no zero, and each request has one key and one answer at most.
THEOREM RequestTypeCorrect == Spec => []TypeOK
  BY TypedCorrect, FineCorrect, TypeOKHolds, PTL

\* extractor.rs, required_header: in the one header that handle copies the
\* extractor finds all that it would find in the full request.
THEOREM RequiredHeaderCorrect == Spec => []RequiredHeaderSuffices
  BY TypedCorrect, FineCorrect, RequiredHeaderHolds, PTL

\* extractor.rs:113 and 133: the key is that of the full request, and requests
\* share it exactly if they share their caller, if no user id has a ':' in it,
\* which joins the path unescaped.
THEOREM KeysCorrect == ASSUME NoColons PROVE Spec => []KeysSeparate
  BY TypedCorrect, FineCorrect, KeysHold, PTL

\* config.rs:80, "these keys will never be rate limited": no request of a
\* listed key or a listed API key is answered 429, by the limit or by a store
\* that fails.
THEOREM BypassCorrect == Spec => []BypassNeverLimited
  BY TypedCorrect, FineCorrect, BypassHolds, PTL

\* The headers of a response are those of the store's own answer; nobody who
\* waits for Retry-After is sent past X-RateLimit-Reset; and a 429 without it
\* is one that no waiting helps.
THEOREM HeadersCorrect == Spec => []HeadersTell
  BY TypedCorrect, FineCorrect, HeadersHold, PTL

-----------------------------------------------------------------------------
\* Who is waved through is listed, unless a user id or a header value starts
\* as the bucket of an API key does.

\* The bucket of an API key is no address, and no address at a path.
LEMMA BucketIsNoAddress ==
    ASSUME NEW b \in Seq(Token), NEW ip \in Address, NEW p \in Seq(Token)
    PROVE  /\ ApiKeyBucket(b) # IpBucket(ip)
           /\ ApiKeyBucket(b) # IpBucket(ip) \o <<":">> \o p
<1> DEFINE w == ApiKeyBucket(b)
<1>1. /\ Len(w) = Len(b) + 3 /\ w[2] = "sha256(" /\ Len(b) \in Nat
  BY ApiKeyBucketIs, LenProperties
<1> HIDE DEF w
<1>2. PICK n \in STRING : IpBucket(ip) = <<n>> \/ IpBucket(ip) = <<n, "/64">>
  BY IpBucketIs
<1>3. /\ Len(<<n>>) = 1 /\ Len(<<n, "/64">>) = 2
      /\ <<n, "/64">>[2] = "/64"
  OBVIOUS
<1>4. w # IpBucket(ip)
  <2>1. Len(w) # 1 /\ Len(w) # 2
    BY <1>1
  <2>2. QED
    BY <1>2, <1>3, <2>1
<1>5. w # IpBucket(ip) \o <<":">> \o p
  <2> DEFINE u == IpBucket(ip)
             g == u \o <<":">> \o p
  <2>1. u \in Seq(Token)
    BY IpBucketTyped
  <2>2. /\ \A i \in 1..Len(u) : g[i] = u[i]
        /\ g[Len(u) + 1] = ":"
    <3> HIDE DEF u
    <3>1. QED
      BY <2>1, GlueIs
  <2>3. (Len(u) = 1) \/ (Len(u) = 2 /\ u[2] = "/64")
    BY <1>2, <1>3
  <2> HIDE DEF g, u
  <2>4. g[2] = ":" \/ g[2] = "/64"
    <3>1. CASE Len(u) = 1
      <4>1. g[Len(u) + 1] = g[2]
        BY <3>1
      <4>2. QED
        BY <2>2, <4>1
    <3>2. CASE Len(u) = 2 /\ u[2] = "/64"
      <4>1. 2 \in 1..Len(u)
        BY <3>2
      <4>2. QED
        BY <2>2, <3>2, <4>1
    <3>3. QED
      BY <2>3, <3>1, <3>2
  <2>5. g # w
    BY <1>1, <2>4
  <2>6. QED
    BY <2>5 DEF g, u
<1>6. QED
  BY <1>4, <1>5 DEF w

\* Nor is it a text that does not start like one, alone or at a path.
LEMMA BucketIsNoText ==
    ASSUME NEW b \in Seq(Token), NEW t \in Seq(Token), t = <<>> \/ t[1] # "apikey:",
           NEW p \in Seq(Token)
    PROVE  /\ ApiKeyBucket(b) # t
           /\ ApiKeyBucket(b) # t \o <<":">> \o p
<1> DEFINE w == ApiKeyBucket(b)
<1>1. /\ Len(w) = Len(b) + 3 /\ w[1] = "apikey:" /\ Len(b) \in Nat
  BY ApiKeyBucketIs, LenProperties
<1> HIDE DEF w
<1>2. w # t
  <2>1. Len(w) # 0
    BY <1>1
  <2>2. Len(<<>>) = 0
    OBVIOUS
  <2>3. QED
    BY <1>1, <2>1, <2>2
<1>3. w # t \o <<":">> \o p
  <2> DEFINE g == t \o <<":">> \o p
  <2>1. /\ \A i \in 1..Len(t) : g[i] = t[i]
        /\ g[Len(t) + 1] = ":"
    BY GlueIs
  <2> HIDE DEF g
  <2>2. CASE t = <<>>
    <3>1. g[1] = ":"
      <4>1. Len(t) = 0
        BY <2>2
      <4>2. QED
        BY <2>1, <4>1
    <3>2. QED
      BY <1>1, <3>1 DEF g
  <2>3. CASE t # <<>> /\ t[1] # "apikey:"
    <3>1. 1 \in 1..Len(t)
      BY <2>3, EmptySeq, LenProperties
    <3>2. g[1] = t[1]
      BY <2>1, <3>1
    <3>3. QED
      BY <1>1, <2>3, <3>2 DEF g
  <2>4. QED
    BY <2>2, <2>3
<1>4. QED
  BY <1>2, <1>3 DEF w

\* A key is no API key's bucket unless its extractor is one of API keys.
LEMMA KeyIsNoBucket ==
    ASSUME NEW e, e.kind \in Kinds, e.kind # "ApiKey", NEW d \in Nat,
           NEW a \in Arrival, NoDigestsFrom(e, a), NEW b \in Seq(Token)
    PROVE  ApiKeyBucket(b) \notin KeyWith(e, d, a)
<1> DEFINE named == GetHeader(a.headers, e.header)
<1> SUFFICES ASSUME NEW k \in KeyWith(e, d, a), ApiKeyBucket(b) = k
             PROVE  FALSE
  OBVIOUS
<1>1. NormalizePath(a.path) \in Seq(Token)
  BY ArrivalHas, PathIs
<1>2. /\ ClientAddress(a, d) \subseteq Address
      /\ a.identity \subseteq Text /\ named \subseteq Text
  <2>1. /\ ClientAddress(a, d) = {} \/ \E ip \in Address : ClientAddress(a, d) = {ip}
        /\ a.identity = {} \/ \E uid \in Text : a.identity = {uid}
        /\ named = {} \/ \E v \in Text : named = {v}
    BY ArrivalHas
  <2> HIDE DEF named
  <2>2. ClientAddress(a, d) \subseteq Address
    BY <2>1
  <2>3. a.identity \subseteq Text
    BY <2>1
  <2>4. named \subseteq Text
    BY <2>1
  <2>5. QED
    BY <2>2, <2>3, <2>4
<1>3. \A t \in a.identity \cup named : t \in Seq(Token)
  BY <1>2, TextIsTokens
<1>4. /\ e.kind \in {"UserId", "UserIdAndPath"} =>
            \A t \in a.identity : t = <<>> \/ t[1] # "apikey:"
      /\ e.kind = "Header" => \A t \in named : t = <<>> \/ t[1] # "apikey:"
  <2>1. e.kind \in {"UserId", "UserIdAndPath"} =>
            \A t \in a.identity : t = <<>> \/ t[1] # "apikey:"
    BY DEF NoDigestsFrom
  <2>2. e.kind = "Header" => \A t \in named : t = <<>> \/ t[1] # "apikey:"
    BY DEF NoDigestsFrom
  <2>3. QED
    BY <2>1, <2>2
<1> HIDE DEF named
<1>5. CASE e.kind = "Ip"
  <2>1. PICK ip \in ClientAddress(a, d) : k = IpBucket(ip)
    BY <1>5, FormsAre
  <2>2. QED
    BY <1>1, <1>2, <2>1, BucketIsNoAddress
<1>6. CASE e.kind = "UserId"
  <2>1. k \in a.identity
    BY <1>6, FormsAre
  <2>2. QED
    BY <1>1, <1>3, <1>4, <1>6, <2>1, BucketIsNoText
<1>7. CASE e.kind = "Header"
  <2>1. k \in named
    BY <1>7, FormsAre DEF named
  <2>2. QED
    BY <1>1, <1>3, <1>4, <1>7, <2>1, BucketIsNoText
<1>8. CASE e.kind = "IpAndPath"
  <2>1. PICK ip \in ClientAddress(a, d) : k = Glued(IpBucket(ip), a.path)
    BY <1>8, FormsAre
  <2>2. QED
    BY <1>1, <1>2, <2>1, BucketIsNoAddress DEF Glued
<1>9. CASE e.kind = "UserIdAndPath"
  <2>1. PICK uid \in a.identity : k = Glued(uid, a.path)
    BY <1>9, FormsAre
  <2>2. QED
    BY <1>1, <1>3, <1>4, <1>9, <2>1, BucketIsNoText DEF Glued
<1>10. QED
  BY <1>5, <1>6, <1>7, <1>8, <1>9 DEF Kinds

\* Who is waved through carries a key or an API key that is listed.
LEMMA WavedIsListed ==
    ASSUME Typed, RequestsFine, NoDigests, NEW r \in Requests,
           Waved(config.bypass_keys, key[r])
    PROVE  IsListed(r)
<1> DEFINE e == config.extractor
           d == config.trusted_proxy_depth
           a == req[r]
           named == GetHeader(a.headers, e.header)
<1>1. /\ a \in Arrivals /\ a \in Arrival /\ e.kind \in Kinds /\ d \in Nat
      /\ key[r] = KeyWith(e, d, a)
      /\ Caller(a) = CallerWith(e, d, a)
  BY RequestIs
<1>2. PICK k : key[r] = {k}
  BY <1>1, KeyWithOption DEF Waved
<1>3. PICK b \in config.bypass_keys : b = k \/ ApiKeyBucket(b) = k
  BY <1>2 DEF Waved
<1>4. CASE b = k
  BY <1>2, <1>3, <1>4 DEF IsListed
<1>5. CASE ApiKeyBucket(b) = k
  <2>1. b \in Seq(Token)
    <3>1. config.bypass_keys \subseteq BypassKeys
      BY DEF Typed, ConfigTyped, Configs
    <3>2. QED
      BY <1>3, <3>1, TextIsTokens, MiddlewareAssumption
  <2>2. e.kind = "ApiKey"
    <3> SUFFICES ASSUME e.kind # "ApiKey"
                 PROVE  FALSE
      OBVIOUS
    <3>1. NoDigestsFrom(e, a)
      <4>1. CASE e.kind = "Ip"
        BY <4>1 DEF NoDigestsFrom
      <4>2. CASE e.kind # "Ip"
        BY <1>1, <4>2, ChosenExtractor DEF NoDigests
      <4>3. QED
        BY <4>1, <4>2
    <3>2. ApiKeyBucket(b) \notin KeyWith(e, d, a)
      BY <1>1, <2>1, <3>1, KeyIsNoBucket
    <3>3. QED
      BY <1>1, <1>2, <1>5, <3>2
  <2>3. /\ key[r] = {ApiKeyBucket(v) : v \in {v \in named : v # <<>> /\ v \in IsValid}}
        /\ Caller(a) = named \cap (IsValid \ {<<>>})
    BY <1>1, <2>2, FormsAre
  <2>4. PICK v \in named : v # <<>> /\ v \in IsValid /\ k = ApiKeyBucket(v)
    BY <1>2, <2>3
  <2>5. v \in Seq(Token)
    <3>1. named = {} \/ \E w \in Text : named = {w}
      BY <1>1, ArrivalHas
    <3>2. v \in Text
      BY <3>1
    <3>3. QED
      BY <3>2, TextIsTokens
  <2>6. v = b
    BY <1>5, <2>1, <2>4, <2>5, ApiKeyBucketSeparates
  <2>7. b \in Caller(a)
    BY <2>3, <2>4, <2>6
  <2>8. QED
    BY <1>3, <2>2, <2>7 DEF IsListed
<1>6. QED
  BY <1>3, <1>4, <1>5

-----------------------------------------------------------------------------
\* What a chain of extractors makes of a request.

\* An extractor finds in the whole request the key of its caller.
LEMMA WholeInfoIs ==
    ASSUME NEW e, NEW a
    PROVE  LET d == config.trusted_proxy_depth
           IN  /\ Extract(e, ExtractRequestInfo(a)) = KeyWith(e, d, a)
               /\ CallerBy(e, a) = CallerWith(e, d, a)
<1> DEFINE d == config.trusted_proxy_depth
           whole == ExtractRequestInfo(a)
           info == [NewInfo(a.path) EXCEPT !.ip = ClientAddress(a, d),
                        !.user_id = a.identity, !.headers = a.headers]
<1>1. /\ info.ip = ClientAddress(a, d) /\ info.user_id = a.identity
      /\ info.headers = a.headers /\ info.path = a.path
  BY DEF NewInfo
<1>2. /\ whole.ip = ClientAddress(a, d) /\ whole.user_id = a.identity
      /\ whole.headers = a.headers /\ whole.path = a.path
  BY DEF NewInfo, ExtractRequestInfo
<1>3. KeyWith(e, d, a) = Extract(e, info)
  BY DEF KeyWith
<1>4. CallerBy(e, a) = CallerWith(e, d, a)
  BY DEF CallerBy, CallerWith
<1> HIDE DEF info, whole
<1>5. Extract(e, whole) = Extract(e, info)
  BY <1>1, <1>2 DEF Extract
<1>6. QED
  BY <1>3, <1>4, <1>5 DEF whole

\* The one API key a chain knows a request by names its bucket; and a request
\* it knows otherwise is in no bucket of an API key.
LEMMA ChainIs ==
    ASSUME Typed, NoDigestsInChains, NEW c \in Chains, NEW a \in Arrivals
    PROVE  LET known == KnownApiKey(c, a)
               got == BuiltExtract(c, ExtractRequestInfo(a))
           IN  \/ \E v \in Seq(Token) : known = {v} /\ got = {ApiKeyBucket(v)}
               \/ known = {} /\ \A b \in Seq(Token) : ApiKeyBucket(b) \notin got
<1> DEFINE links == c.extractors
           d == config.trusted_proxy_depth
           info == ExtractRequestInfo(a)
           hits == {i \in DOMAIN links : Extract(links[i], info) # {}}
           first == {i \in DOMAIN links : \A h \in 1..i - 1 : CallerBy(links[h], a) = {}}
           known == KnownApiKey(c, a)
           got == BuiltExtract(c, info)
<1>1. /\ DOMAIN links = 1..Len(links) /\ Len(links) \in Nat
      /\ \A i \in DOMAIN links : links[i].kind \in Kinds
  <2>1. links \in Seq([kind : Kinds, header : [folded : STRING, raw : STRING]])
    BY ChainsAssumption
  <2>2. DOMAIN links = 1..Len(links) /\ Len(links) \in Nat
    BY <2>1, LenProperties
  <2>3. \A i \in 1..Len(links) :
            links[i] \in [kind : Kinds, header : [folded : STRING, raw : STRING]]
    BY <2>1, ElementOfSeq
  <2>4. QED
    BY <2>2, <2>3
<1>2. a \in Arrival /\ d \in Nat
  BY MiddlewareAssumption, KindsAre DEF Typed, ConfigTyped
<1>3. \A i \in DOMAIN links :
          /\ Extract(links[i], info) = KeyWith(links[i], d, a)
          /\ CallerBy(links[i], a) = CallerWith(links[i], d, a)
          /\ Extract(links[i], info) = {} <=> CallerBy(links[i], a) = {}
  BY <1>1, <1>2, WholeInfoIs, KeyWithOption
<1>4. known = UNION {CallerBy(links[i], a) : i \in {j \in first : links[j].kind = "ApiKey"}}
  BY DEF KnownApiKey
<1>5. got = IF hits # {}
            THEN Extract(links[CHOOSE i \in hits : \A h \in hits : i <= h], info)
            ELSE IF c.fallback_to_ip THEN {IpBucket(ip) : ip \in info.ip} ELSE {}
  BY DEF BuiltExtract
<1>6. info.ip = ClientAddress(a, d) /\ ClientAddress(a, d) \subseteq Address
  <2>1. info.ip = ClientAddress(a, d)
    BY DEF ExtractRequestInfo, NewInfo
  <2>2. ClientAddress(a, d) = {} \/ \E ip \in Address : ClientAddress(a, d) = {ip}
    BY <1>2, ArrivalHas
  <2>3. QED
    BY <2>1, <2>2
<1>7. NoDigestsInChains
  OBVIOUS
<1> HIDE DEF known, got, info, d
<1>8. CASE hits = {}
  <2>1. \A i \in DOMAIN links : CallerBy(links[i], a) = {}
    BY <1>3, <1>8
  <2>2. known = {}
    <3>1. \A i \in first : CallerBy(links[i], a) = {}
      BY <2>1
    <3>2. QED
      BY <1>4, <3>1
  <2>3. got = {} \/ got = {IpBucket(ip) : ip \in ClientAddress(a, d)}
    BY <1>5, <1>6, <1>8
  <2>4. ASSUME NEW b \in Seq(Token) PROVE ApiKeyBucket(b) \notin got
    <3> SUFFICES ASSUME NEW ip \in Address, ApiKeyBucket(b) = IpBucket(ip)
                 PROVE  FALSE
      BY <1>6, <2>3
    <3>1. QED
      BY IpBucketTyped, BucketIsNoAddress
  <2>5. QED
    BY <2>2, <2>4 DEF known, got, info
<1>9. CASE hits # {}
  <2>1. hits \in SUBSET Nat
    BY <1>1
  <2>2. PICK i \in hits : \A h \in hits : i <= h
    BY <1>9, <2>1, Least
  <2>3. (CHOOSE j \in hits : \A h \in hits : j <= h) = i
    <3>1. \A j \in hits : (\A h \in hits : j <= h) => j = i
      <4> SUFFICES ASSUME NEW j \in hits, \A h \in hits : j <= h
                   PROVE  j = i
        OBVIOUS
      <4>1. j \in Nat /\ i \in Nat /\ j <= i /\ i <= j
        BY <2>1, <2>2
      <4>2. QED
        BY <4>1
    <3> HIDE DEF hits
    <3>2. QED
      BY <2>2, <3>1
  <2>4. got = KeyWith(links[i], d, a) /\ i \in DOMAIN links
    BY <1>3, <1>5, <1>9, <2>3
  <2>5. i \in first /\ CallerBy(links[i], a) # {}
    <3>1. ASSUME NEW h \in 1..i - 1
          PROVE  h \in DOMAIN links /\ h \notin hits
      <4>1. h \in Nat /\ i \in 1..Len(links) /\ h >= 1 /\ h < i
        BY <1>1, <2>4
      <4>2. h \in DOMAIN links
        BY <1>1, <4>1
      <4>3. ~(i <= h)
        BY <1>1, <4>1
      <4>4. QED
        BY <2>2, <4>2, <4>3
    <3>2. \A h \in 1..i - 1 : CallerBy(links[h], a) = {}
      BY <1>3, <3>1
    <3>3. QED
      BY <1>3, <2>2, <3>2
  <2>6. ASSUME NEW j \in first, j # i
        PROVE  CallerBy(links[j], a) = {}
    <3> SUFFICES ASSUME CallerBy(links[j], a) # {}
                 PROVE  FALSE
      OBVIOUS
    <3>1. j \in hits /\ j \in Nat /\ i \in Nat /\ i >= 1
      <4>1. j \in 1..Len(links) /\ i \in 1..Len(links)
        BY <1>1, <2>4
      <4>2. j \in hits
        BY <1>3
      <4>3. QED
        BY <1>1, <4>1, <4>2
    <3>2. i <= j
      BY <2>2, <3>1
    <3>3. i \in 1..j - 1
      BY <2>6, <3>1, <3>2
    <3>4. QED
      BY <2>5, <3>3
  <2>7. known = IF links[i].kind = "ApiKey" THEN CallerBy(links[i], a) ELSE {}
    <3> HIDE DEF first, hits
    <3>1. CASE links[i].kind = "ApiKey"
      <4>1. \A x : x \in known <=> x \in CallerBy(links[i], a)
        BY <1>4, <2>5, <2>6, <3>1
      <4>2. QED
        BY <3>1, <4>1
    <3>2. CASE links[i].kind # "ApiKey"
      <4>1. \A j \in first : links[j].kind = "ApiKey" => CallerBy(links[j], a) = {}
        BY <2>6, <3>2
      <4>2. known = {}
        BY <1>4, <4>1
      <4>3. QED
        BY <3>2, <4>2
    <3>3. QED
      BY <3>1, <3>2
  <2>8. CASE links[i].kind = "ApiKey"
    <3> DEFINE named == GetHeader(a.headers, links[i].header)
    <3>1. /\ got = {ApiKeyBucket(v) : v \in {v \in named : v # <<>> /\ v \in IsValid}}
          /\ known = named \cap (IsValid \ {<<>>})
      BY <1>3, <2>4, <2>7, <2>8, FormsAre
    <3>2. named = {} \/ \E v \in Text : named = {v}
      BY <1>2, ArrivalHas
    <3>3. known # {}
      BY <2>5, <2>7, <2>8
    <3> HIDE DEF named
    <3>4. PICK v \in Text : named = {v} /\ v # <<>> /\ v \in IsValid
      BY <3>1, <3>2, <3>3
    <3>5. known = {v} /\ got = {ApiKeyBucket(v)}
      BY <3>1, <3>4
    <3>6. v \in Seq(Token)
      BY TextIsTokens
    <3>7. QED
      BY <3>5, <3>6 DEF known, got, info
  <2>9. CASE links[i].kind # "ApiKey"
    <3>1. NoDigestsFrom(links[i], a) /\ links[i].kind \in Kinds
      BY <1>1, <1>7, <2>4 DEF NoDigestsInChains
    <3>2. ASSUME NEW b \in Seq(Token) PROVE ApiKeyBucket(b) \notin got
      BY <1>2, <2>4, <2>9, <3>1, KeyIsNoBucket
    <3>3. known = {}
      BY <2>7, <2>9
    <3>4. QED
      BY <3>2, <3>3 DEF known, got, info
  <2>10. QED
    BY <2>8, <2>9
<1>10. QED
  BY <1>8, <1>9

\* Who is known by an API key shares its bucket with nobody else.
LEMMA ChainsHold ==
    ASSUME Typed, RequestsFine, NoDigestsInChains
    PROVE  ChainedApiKeys
<1> SUFFICES ASSUME NEW c \in Chains, NEW r \in Requests, NEW s \in Requests,
                    KnownApiKey(c, req[r]) # {}
             PROVE  BuiltExtract(c, ExtractRequestInfo(req[r]))
                            = BuiltExtract(c, ExtractRequestInfo(req[s]))
                        <=> KnownApiKey(c, req[r]) = KnownApiKey(c, req[s])
  BY DEF ChainedApiKeys
<1> DEFINE known(n) == KnownApiKey(c, req[n])
           got(n) == BuiltExtract(c, ExtractRequestInfo(req[n]))
<1>1. \A n \in {r, s} :
          \/ \E v \in Seq(Token) : known(n) = {v} /\ got(n) = {ApiKeyBucket(v)}
          \/ known(n) = {} /\ \A b \in Seq(Token) : ApiKeyBucket(b) \notin got(n)
  BY RequestIs, ChainIs
<1> HIDE DEF known, got
<1>2. PICK v \in Seq(Token) : known(r) = {v} /\ got(r) = {ApiKeyBucket(v)}
  BY <1>1 DEF known
<1>3. CASE known(s) = {}
  <2>1. ApiKeyBucket(v) \notin got(s)
    BY <1>1, <1>3
  <2>2. got(r) # got(s) /\ known(r) # known(s)
    BY <1>2, <1>3, <2>1
  <2>3. QED
    BY <2>2 DEF known, got
<1>4. CASE known(s) # {}
  <2>1. PICK w \in Seq(Token) : known(s) = {w} /\ got(s) = {ApiKeyBucket(w)}
    BY <1>1, <1>4
  <2>2. ApiKeyBucket(v) = ApiKeyBucket(w) <=> v = w
    BY ApiKeyBucketSeparates
  <2>3. QED
    BY <1>2, <2>1, <2>2 DEF known, got
<1>5. QED
  BY <1>3, <1>4

\* extractor.rs:107 and 374: whom a chain knows by an API key it keeps apart
\* from everyone else, whatever the chain and the clients, if no user id or
\* header value that is a key starts as the bucket of an API key does.
THEOREM ChainsCorrect == ASSUME NoDigestsInChains PROVE Spec => []ChainedApiKeys
  BY TypedCorrect, FineCorrect, ChainsHold, PTL

-----------------------------------------------------------------------------
\* The two counts of requests that get through unchecked.

\* Who got through without a key, and who with one but without an answer.
Keyless == {r \in 1..Len(req) : Went(phase[r], reply[r]) /\ key[r] = {}}

Excused == {r \in 1..Len(req) : /\ Went(phase[r], reply[r])
                                /\ key[r] # {} /\ result[r] = {}
                                /\ ~Waved(config.bypass_keys, key[r])}

\* The counts count them.
CountsRight ==
    /\ unkeyed_allow_count = Cardinality(Keyless)
    /\ skip_on_error_count = Cardinality(Excused)

\* They are finitely many.
LEMMA CountedAreFinite ==
    ASSUME Len(req) \in Nat
    PROVE  IsFiniteSet(Keyless) /\ IsFiniteSet(Excused)
<1>1. IsFiniteSet(1..Len(req))
  BY FS_Interval
<1>2. Keyless \subseteq 1..Len(req) /\ Excused \subseteq 1..Len(req)
  BY DEF Keyless, Excused
<1>3. QED
  BY <1>1, <1>2, FS_Subset

\* The others are counted as they were.
LEMMA OthersCounted ==
    ASSUME Typed, NEW r \in Requests, StepOf(r)
    PROVE  /\ Keyless' \ {r} = Keyless \ {r} /\ Excused' \ {r} = Excused \ {r}
           /\ r \in Keyless' <=> Went(phase'[r], reply'[r]) /\ key[r] = {}
           /\ r \in Excused' <=> /\ Went(phase'[r], reply'[r])
                                 /\ key[r] # {} /\ result'[r] = {}
                                 /\ ~Waved(config.bypass_keys, key[r])
           /\ r \in Keyless <=> Went(phase[r], reply[r]) /\ key[r] = {}
           /\ r \in Excused <=> /\ Went(phase[r], reply[r])
                                /\ key[r] # {} /\ result[r] = {}
                                /\ ~Waved(config.bypass_keys, key[r])
<1>1. r \in 1..Len(req)
  BY RequestTyped
<1>2. /\ UNCHANGED <<config, clock, req, key>>
      /\ \A s \in 1..Len(req) : s # r =>
            phase'[s] = phase[s] /\ result'[s] = result[s] /\ reply'[s] = reply[s]
  BY DEF StepOf, settingVars
<1>3. Keyless' = {s \in 1..Len(req) : Went(phase'[s], reply'[s]) /\ key[s] = {}}
  BY <1>2 DEF Keyless
<1>4. Excused' = {s \in 1..Len(req) : /\ Went(phase'[s], reply'[s])
                                      /\ key[s] # {} /\ result'[s] = {}
                                      /\ ~Waved(config.bypass_keys, key[s])}
  BY <1>2 DEF Excused
<1>5. Keyless' \ {r} = Keyless \ {r}
  BY <1>2, <1>3 DEF Keyless
<1>6. Excused' \ {r} = Excused \ {r}
  BY <1>2, <1>4 DEF Excused
<1>7. QED
  BY <1>1, <1>3, <1>4, <1>5, <1>6 DEF Keyless, Excused

\* Sets that agree on an element and on all the others are the same.
LEMMA SameOutside ==
    ASSUME NEW S, NEW T, NEW r, S \ {r} = T \ {r}, r \in S <=> r \in T
    PROVE  S = T
  OBVIOUS

\* A step that neither lets a request through nor answers it leaves the counts.
LEMMA CountsSame ==
    ASSUME Typed, CountsRight, NEW r \in Requests, StepOf(r), UNCHANGED counters,
           r \in Keyless' <=> r \in Keyless, r \in Excused' <=> r \in Excused
    PROVE  CountsRight'
<1>1. Keyless' \ {r} = Keyless \ {r} /\ Excused' \ {r} = Excused \ {r}
  BY OthersCounted
<1>2. Keyless' = Keyless
  BY <1>1, SameOutside
<1>3. Excused' = Excused
  BY <1>1, SameOutside
<1>4. QED
  BY <1>2, <1>3 DEF CountsRight, counters

\* A request that is being checked is not counted yet.
LEMMA CheckingUncounted ==
    ASSUME Typed, RequestsFine, NEW r \in Requests, phase[r] = "checking"
    PROVE  ~Went(phase[r], reply[r]) /\ key[r] # {} /\ ~Waved(config.bypass_keys, key[r])
<1>1. /\ key[r] # {} /\ ~Waved(config.bypass_keys, key[r])
      /\ reply[r] = [status |-> 0, headers |-> {}, retry_after |-> {}]
  BY CheckingFine
<1>2. QED
  BY <1>1 DEF Went

\* With an answer it never is.
LEMMA DecidingCounts ==
    ASSUME Typed, RequestsFine, CountsRight, NEW r \in Requests, StepOf(r),
           phase[r] = "checking", result'[r] # {}, UNCHANGED counters
    PROVE  CountsRight'
<1>1. ~Went(phase[r], reply[r]) /\ key[r] # {}
  BY CheckingUncounted
<1>2. r \notin Keyless /\ r \notin Excused
  BY <1>1, OthersCounted
<1>3. r \notin Keyless' /\ r \notin Excused'
  BY <1>1, OthersCounted
<1>4. QED
  BY <1>2, <1>3, CountsSame

\* A request is counted when it gets through without an answer, and once.
LEMMA RequestStepCounts ==
    ASSUME Typed, RequestsFine, CountsRight, NEW r \in Requests, RequestStep(r)
    PROVE  CountsRight'
<1>1. CASE MemoryChecks(r)
  BY <1>1, MemoryChecksIs, DecidingCounts
<1>2. CASE RedisRuns(r)
  BY <1>2, RedisRunsIs, DecidingCounts
<1>3. CASE RedisReplies(r)
  <2>1. /\ StepOf(r) /\ phase[r] = "checking" /\ result[r] # {} /\ result' = result
        /\ UNCHANGED counters
    BY <1>3, RedisRepliesIs
  <2>2. QED
    BY <2>1, DecidingCounts
<1>4. CASE StoreFails(r)
  <2>1. /\ StepOf(r) /\ phase[r] = "checking" /\ Erring(r) /\ GivingUp(r)
        /\ unkeyed_allow_count' = unkeyed_allow_count
    BY <1>4, StoreFailsIs
  <2>2. ~Went(phase[r], reply[r]) /\ key[r] # {} /\ ~Waved(config.bypass_keys, key[r])
    BY <2>1, CheckingUncounted
  <2>3. r \notin Keyless /\ r \notin Excused /\ r \notin Keyless'
    BY <2>1, <2>2, OthersCounted
  <2>4. Keyless' = Keyless
    BY <2>1, <2>3, OthersCounted, SameOutside
  <2>5. CASE /\ skip_on_error_count' = skip_on_error_count + 1
             /\ phase'[r] = "passed"
    <3>1. r \in Excused'
      <4>1. Went(phase'[r], reply'[r]) /\ result'[r] = {}
        BY <2>1, <2>5 DEF Went, GivingUp
      <4>2. QED
        BY <2>1, <2>2, <4>1, OthersCounted
    <3>2. Excused' = Excused \cup {r}
      BY <2>1, <2>3, <3>1, OthersCounted
    <3>3. IsFiniteSet(Excused)
      BY RequestTyped, CountedAreFinite
    <3>4. Cardinality(Excused \cup {r}) = Cardinality(Excused) + 1
      BY <2>3, <3>3, FS_AddElement
    <3>5. QED
      BY <2>1, <2>4, <2>5, <3>2, <3>4 DEF CountsRight
  <2>6. CASE /\ skip_on_error_count' = skip_on_error_count
             /\ phase'[r] = "answered"
             /\ reply'[r] = [status |-> 429, headers |-> {}, retry_after |-> {}]
    <3>1. ~Went(phase'[r], reply'[r])
      BY <2>6 DEF Went
    <3>2. r \notin Excused'
      BY <2>1, <3>1, OthersCounted
    <3>3. Excused' = Excused
      BY <2>1, <2>3, <3>2, OthersCounted, SameOutside
    <3>4. QED
      BY <2>1, <2>4, <2>6, <3>3 DEF CountsRight
  <2>7. QED
    BY <2>1, <2>5, <2>6 DEF Erring
<1>5. CASE LateRuns(r)
  <2>1. StepOf(r) /\ UNCHANGED <<phase, result, reply, counters>>
    BY <1>5, LateRunsIs
  <2>2. (r \in Keyless' <=> r \in Keyless) /\ (r \in Excused' <=> r \in Excused)
    BY <2>1, OthersCounted
  <2>3. QED
    BY <2>1, <2>2, CountsSame
<1>6. CASE HandlerReturns(r)
  <2>1. /\ StepOf(r) /\ phase[r] = "passed" /\ UNCHANGED <<result, counters>>
        /\ \/ reply'[r] = [reply[r] EXCEPT !.status = 200]
           \/ reply'[r] = [status |-> 500, headers |-> {}, retry_after |-> {}]
    BY <1>6, HandlerReturnsIs
  <2>2. reply[r] \in Replies
    BY MovedIs
  <2>3. reply'[r].status \in {200, 500}
    BY <2>1, <2>2 DEF Replies
  <2>4. Went(phase[r], reply[r]) /\ Went(phase'[r], reply'[r])
    BY <2>1, <2>3 DEF Went
  <2>5. (r \in Keyless' <=> r \in Keyless) /\ (r \in Excused' <=> r \in Excused)
    BY <2>1, <2>4, OthersCounted
  <2>6. QED
    BY <2>1, <2>5, CountsSame
<1>7. CASE Drop(r)
  <2>1. /\ StepOf(r) /\ UNCHANGED <<reply, counters>>
        /\ \/ /\ phase[r] = "passed" /\ phase'[r] = "abandoned" /\ result' = result
           \/ /\ phase[r] = "checking" /\ phase'[r] = "dropped"
    BY <1>7, DropIs
  <2>2. CASE phase[r] = "passed" /\ phase'[r] = "abandoned" /\ result' = result
    <3>1. Went(phase[r], reply[r]) /\ Went(phase'[r], reply'[r])
      BY <2>2 DEF Went
    <3>2. (r \in Keyless' <=> r \in Keyless) /\ (r \in Excused' <=> r \in Excused)
      BY <2>1, <2>2, <3>1, OthersCounted
    <3>3. QED
      BY <2>1, <3>2, CountsSame
  <2>3. CASE phase[r] = "checking" /\ phase'[r] = "dropped"
    <3>1. ~Went(phase[r], reply[r])
      BY <2>3, CheckingUncounted
    <3>2. ~Went(phase'[r], reply'[r])
      BY <2>1, <2>3, <3>1 DEF Went
    <3>3. (r \in Keyless' <=> r \in Keyless) /\ (r \in Excused' <=> r \in Excused)
      BY <2>1, <3>1, <3>2, OthersCounted
    <3>4. QED
      BY <2>1, <3>3, CountsSame
  <2>4. QED
    BY <2>1, <2>2, <2>3
<1>8. QED
  BY <1>1, <1>2, <1>3, <1>4, <1>5, <1>6, <1>7 DEF RequestStep

\* Only a request without a key is counted as it comes in.
LEMMA HandleCounts ==
    ASSUME Typed, RequestsFine, CountsRight, NEW a \in Arrivals, Handle(a)
    PROVE  CountsRight'
<1> DEFINE n == Len(req) + 1
           k == KeyOf(a)
<1>0. Len(req) \in Nat
  BY LenProperties DEF Typed, RequestsTyped
<1>1. /\ config' = config /\ skip_on_error_count' = skip_on_error_count
      /\ Len(req') = n /\ key'[n] = k /\ result'[n] = {}
      /\ \A r \in 1..Len(req) :
            /\ phase'[r] = phase[r] /\ key'[r] = key[r]
            /\ result'[r] = result[r] /\ reply'[r] = reply[r]
      /\ \/ /\ k = {} /\ phase'[n] = "passed"
            /\ unkeyed_allow_count' = unkeyed_allow_count + 1
         \/ /\ k = {} /\ phase'[n] = "answered"
            /\ reply'[n] = [status |-> 429, headers |-> {}, retry_after |-> {}]
            /\ unkeyed_allow_count' = unkeyed_allow_count
         \/ /\ k # {} /\ \A x \in k : Bypasses(x)
            /\ unkeyed_allow_count' = unkeyed_allow_count
         \/ /\ k # {} /\ phase'[n] = "checking" /\ reply'[n] = NoReply
            /\ unkeyed_allow_count' = unkeyed_allow_count
  BY HandleIs
<1>2. k # {} => (Waved(config.bypass_keys, k) <=> \A x \in k : Bypasses(x))
  BY WavedIs
<1>3. 1..n = 1..Len(req) \cup {n} /\ n \notin 1..Len(req)
  BY <1>0
<1> HIDE DEF k, n
<1>4. /\ n \notin Keyless /\ n \notin Excused
      /\ IsFiniteSet(Keyless) /\ IsFiniteSet(Excused)
  BY <1>0, <1>3, CountedAreFinite DEF Keyless, Excused
<1>5. Keyless' = {r \in 1..n : Went(phase'[r], reply'[r]) /\ key'[r] = {}}
  BY <1>1 DEF Keyless
<1>6. Excused' = {r \in 1..n : /\ Went(phase'[r], reply'[r])
                               /\ key'[r] # {} /\ result'[r] = {}
                               /\ ~Waved(config.bypass_keys, key'[r])}
  BY <1>1 DEF Excused
<1>7. ASSUME NEW r \in 1..Len(req)
      PROVE  (r \in Keyless' <=> r \in Keyless) /\ (r \in Excused' <=> r \in Excused)
  BY <1>1, <1>3, <1>5, <1>6 DEF Keyless, Excused
<1>8. n \notin Excused'
  BY <1>1, <1>2, <1>6 DEF Went, NoReply
<1>9. Keyless \subseteq 1..Len(req) /\ Excused \subseteq 1..Len(req)
      /\ Keyless' \subseteq 1..n /\ Excused' \subseteq 1..n
  BY <1>5, <1>6 DEF Keyless, Excused
<1>10. Excused' = Excused
  BY <1>3, <1>4, <1>7, <1>8, <1>9
<1>11. CASE k = {} /\ phase'[n] = "passed"
            /\ unkeyed_allow_count' = unkeyed_allow_count + 1
  <2>1. n \in Keyless'
    BY <1>1, <1>3, <1>5, <1>11 DEF Went
  <2>2. Keyless' = Keyless \cup {n}
    BY <1>3, <1>7, <1>9, <2>1
  <2>3. Cardinality(Keyless \cup {n}) = Cardinality(Keyless) + 1
    BY <1>4, FS_AddElement
  <2>4. QED
    BY <1>1, <1>10, <1>11, <2>2, <2>3 DEF CountsRight
<1>12. CASE /\ unkeyed_allow_count' = unkeyed_allow_count
            /\ ~(k = {} /\ Went(phase'[n], reply'[n]))
  <2>1. n \notin Keyless'
    BY <1>1, <1>5, <1>12
  <2>2. Keyless' = Keyless
    BY <1>3, <1>4, <1>7, <1>9, <2>1
  <2>3. QED
    BY <1>1, <1>10, <1>12, <2>2 DEF CountsRight
<1>13. QED
  BY <1>1, <1>11, <1>12 DEF Went

\* Every step keeps the counts.
THEOREM CountsNext == Typed /\ RequestsFine /\ CountsRight /\ [Next]_vars => CountsRight'
<1> SUFFICES ASSUME Typed, RequestsFine, CountsRight, [Next]_vars PROVE CountsRight'
  OBVIOUS
<1>1. CASE Configure
  <2>1. Len(req) = 0 /\ UNCHANGED <<req, counters>>
    BY <1>1, ConfigureIs DEF requestVars
  <2>2. Keyless = {} /\ Excused = {} /\ Keyless' = {} /\ Excused' = {}
    <3>1. 1..0 = {}
      OBVIOUS
    <3>2. QED
      BY <2>1, <3>1 DEF Keyless, Excused
  <2>3. QED
    BY <2>1, <2>2 DEF CountsRight, counters
<1>2. CASE \E a \in Arrivals : Handle(a)
  BY <1>2, HandleCounts
<1>3. CASE \E r \in Requests : RequestStep(r)
  BY <1>3, RequestStepCounts
<1>4. CASE UNCHANGED vars
  BY <1>4 DEF vars, CountsRight, Keyless, Excused
<1>5. QED
  BY <1>1, <1>2, <1>3, <1>4, NextIs

\* The counts are exact in every state that can be reached.
THEOREM CountsCorrect == Spec => []CountsRight
<1>1. Init => CountsRight
  <2> SUFFICES ASSUME Init PROVE CountsRight
    OBVIOUS
  <2>1. Len(req) = 0 /\ unkeyed_allow_count = 0 /\ skip_on_error_count = 0
    BY EmptySeq DEF Init
  <2>2. 1..0 = {}
    OBVIOUS
  <2>3. Keyless = {} /\ Excused = {}
    BY <2>1, <2>2 DEF Keyless, Excused
  <2>4. QED
    BY <2>1, <2>3, FS_EmptySet DEF CountsRight
<1>2. Typed /\ RequestsFine /\ CountsRight /\ [Next]_vars => CountsRight'
  BY CountsNext
<1>3. QED
  BY <1>1, <1>2, TypedCorrect, FineCorrect, PTL DEF Spec

\* Whoever gets through without the store's consent and is not listed is
\* exactly who is counted.
LEMMA PassesHold ==
    ASSUME Typed, RequestsFine, CountsRight, NoDigests
    PROVE  PassesAccounted
<1> DEFINE unchecked == {r \in Requests : IsThrough(r) /\ ~Admitted(r) /\ ~IsListed(r)}
           unkeyed == {r \in unchecked : Caller(req[r]) = {}}
<1>0. Requests = 1..Len(req) /\ Len(req) \in Nat
  <2>1. req \in Seq(Arrivals)
    BY DEF Typed, RequestsTyped
  <2>2. QED
    BY <2>1, LenProperties DEF Requests
<1>1. ASSUME NEW r \in Requests
      PROVE  /\ IsThrough(r) <=> Went(phase[r], reply[r])
             /\ Caller(req[r]) = {} <=> key[r] = {}
             /\ key[r] = {} => ~IsListed(r) /\ result[r] = {}
             /\ key[r] # {} => (IsListed(r) <=> Waved(config.bypass_keys, key[r]))
             /\ Went(phase[r], reply[r]) =>
                    /\ Admitted(r) <=> result[r] # {}
                    /\ key[r] = {} => config.unkeyed_policy = "Allow"
                    /\ (result[r] = {} /\ key[r] # {} /\ ~Waved(config.bypass_keys, key[r]))
                          => config.skip_on_error
  <2>1. IsThrough(r) <=> Went(phase[r], reply[r])
    BY DEF IsThrough, Went
  <2>2. Caller(req[r]) = {} <=> key[r] = {}
    <3>1. /\ req[r] \in Arrival
          /\ config.extractor.kind \in Kinds /\ config.trusted_proxy_depth \in Nat
          /\ key[r] = KeyWith(config.extractor, config.trusted_proxy_depth, req[r])
          /\ Caller(req[r]) = CallerWith(config.extractor, config.trusted_proxy_depth, req[r])
      BY RequestIs
    <3>2. QED
      BY <3>1, KeyWithOption
  <2>3. key[r] = {} => ~IsListed(r)
    BY <2>2 DEF IsListed
  <2>4. key[r] = {} => result[r] = {}
    BY <1>0 DEF Typed, RequestsTyped
  <2>5. key[r] # {} => (IsListed(r) <=> Waved(config.bypass_keys, key[r]))
    BY ListedIsWaved, WavedIsListed
  <2>6. FinePass(config, phase[r], key[r], result[r], reply[r])
    BY MovedIs DEF Fine
  <2>7. Went(phase[r], reply[r]) => (Admitted(r) <=> result[r] # {})
    BY <2>1, <2>6 DEF FinePass, Admitted
  <2>8. QED
    BY <2>1, <2>2, <2>3, <2>4, <2>5, <2>6, <2>7 DEF FinePass
<1>2. unkeyed = Keyless
  BY <1>0, <1>1 DEF Keyless
<1>3. unchecked \ unkeyed = Excused
  BY <1>0, <1>1 DEF Excused
<1>4. unkeyed_allow_count > 0 => config.unkeyed_policy = "Allow"
  <2> SUFFICES ASSUME unkeyed_allow_count > 0 PROVE config.unkeyed_policy = "Allow"
    OBVIOUS
  <2>1. Keyless # {}
    BY FS_EmptySet DEF CountsRight
  <2>2. PICK r \in Requests : Went(phase[r], reply[r]) /\ key[r] = {}
    BY <1>0, <2>1 DEF Keyless
  <2>3. QED
    BY <1>1, <2>2
<1>5. skip_on_error_count > 0 => config.skip_on_error
  <2> SUFFICES ASSUME skip_on_error_count > 0 PROVE config.skip_on_error
    OBVIOUS
  <2>1. Excused # {}
    BY FS_EmptySet DEF CountsRight
  <2>2. PICK r \in Requests : /\ Went(phase[r], reply[r])
                              /\ key[r] # {} /\ result[r] = {}
                              /\ ~Waved(config.bypass_keys, key[r])
    BY <1>0, <2>1 DEF Excused
  <2>3. QED
    BY <1>1, <2>2
<1> HIDE DEF unchecked, unkeyed
<1>6. unkeyed_allow_count = Cardinality(unkeyed)
  BY <1>2 DEF CountsRight
<1>7. skip_on_error_count = Cardinality(unchecked \ unkeyed)
  BY <1>3 DEF CountsRight
<1>8. QED
  BY <1>4, <1>5, <1>6, <1>7 DEF PassesAccounted, unchecked, unkeyed

\* middleware.rs:296 and 309: the two counts are exact, if no user id and no
\* header that serves as a key starts as the bucket of an API key does.
THEOREM PassesCorrect == ASSUME NoDigests PROVE Spec => []PassesAccounted
  BY TypedCorrect, FineCorrect, CountsCorrect, PassesHold, PTL

-----------------------------------------------------------------------------
\* What the store has given, and what has been asked of it.

\* The requests of a key that have the store's consent.
Taken(k) == {s \in 1..Len(req) : key[s] = k /\ \E ans \in result[s] : ans.allowed}

\* The requests of a key whose operation the store has run or never will.
Spent(k) == {s \in 1..Len(req) : /\ key[s] = k /\ ~Waved(config.bypass_keys, k)
                                 /\ ~(phase[s] = "checking" /\ result[s] = {})
                                 /\ s \notin late}

\* A key has taken what its level lacks, at most, and has spent that, at least.
LevelsRight ==
    \A k \in StoreKeys :
        /\ level[k] + Cardinality(Taken(k)) <= Limit
        /\ Limit <= level[k] + Cardinality(Spent(k))

\* The store has denied a request; then limit others have been there.
IsDenied(r) == \E ans \in result[r] : ~ans.allowed

DenialsRight ==
    \A r \in 1..Len(req) : IsDenied(r) => Cardinality(Spent(key[r]) \ {r}) >= Limit

\* They are finitely many,
LEMMA TakenAreFinite ==
    ASSUME Len(req) \in Nat
    PROVE  \A k : /\ IsFiniteSet(Taken(k)) /\ Cardinality(Taken(k)) \in Nat
                  /\ IsFiniteSet(Spent(k)) /\ Cardinality(Spent(k)) \in Nat
<1>1. IsFiniteSet(1..Len(req))
  BY FS_Interval
<1>2. ASSUME NEW k
      PROVE  /\ IsFiniteSet(Taken(k)) /\ Cardinality(Taken(k)) \in Nat
             /\ IsFiniteSet(Spent(k)) /\ Cardinality(Spent(k)) \in Nat
  <2>1. Taken(k) \subseteq 1..Len(req) /\ Spent(k) \subseteq 1..Len(req)
    BY DEF Taken, Spent
  <2>2. IsFiniteSet(Taken(k)) /\ IsFiniteSet(Spent(k))
    BY <1>1, <2>1, FS_Subset
  <2>3. QED
    BY <2>2, FS_CardinalityType
<1>3. QED
  BY <1>2

\* There are finitely many requests, and levels within the limit.
LEMMA LenTyped == Typed => Len(req) \in Nat /\ level \in [StoreKeys -> 0..Limit] /\ Limit \in Nat
  BY LenProperties, MiddlewareAssumption DEF Typed, RequestsTyped

\* in the next state as well.
LEMMA AfterTyped ==
    ASSUME Typed'
    PROVE  /\ level' \in [StoreKeys -> 0..Limit]
           /\ \A k : /\ IsFiniteSet(Taken(k)') /\ Cardinality(Taken(k)') \in Nat
                     /\ IsFiniteSet(Spent(k)') /\ Cardinality(Spent(k)') \in Nat
<1>1. level' \in [StoreKeys -> 0..Limit] /\ req' \in Seq(Arrivals)
  BY DEF Typed, RequestsTyped
<1>2. IsFiniteSet(1..Len(req'))
  BY <1>1, LenProperties, FS_Interval
<1>3. ASSUME NEW k
      PROVE  /\ IsFiniteSet(Taken(k)') /\ Cardinality(Taken(k)') \in Nat
             /\ IsFiniteSet(Spent(k)') /\ Cardinality(Spent(k)') \in Nat
  <2>1. Taken(k)' \subseteq 1..Len(req') /\ Spent(k)' \subseteq 1..Len(req')
    BY DEF Taken, Spent
  <2>2. IsFiniteSet(Taken(k)') /\ IsFiniteSet(Spent(k)')
    BY <1>2, <2>1, FS_Subset
  <2>3. QED
    BY <2>2, FS_CardinalityType
<1>4. QED
  BY <1>1, <1>3

\* A larger set is not smaller without one of its elements.
LEMMA CardinalityGrows ==
    ASSUME NEW S, NEW T, IsFiniteSet(T), S \subseteq T
    PROVE  /\ Cardinality(S) \in Nat /\ Cardinality(T) \in Nat
           /\ Cardinality(S) <= Cardinality(T)
<1>1. IsFiniteSet(S) /\ Cardinality(S) <= Cardinality(T)
  BY FS_Subset
<1>2. QED
  BY <1>1, FS_CardinalityType

\* As long as nobody asks the store, it is enough that nobody takes more and
\* nobody is forgotten.
LEMMA LevelsStay ==
    ASSUME Typed, LevelsRight, Typed', level' = level,
           \A k : Taken(k)' \subseteq Taken(k) /\ Spent(k) \subseteq Spent(k)'
    PROVE  LevelsRight'
<1>1. ASSUME NEW k \in StoreKeys
      PROVE  /\ level[k] + Cardinality(Taken(k)') <= Limit
             /\ Limit <= level[k] + Cardinality(Spent(k)')
  <2>1. /\ level[k] + Cardinality(Taken(k)) <= Limit
        /\ Limit <= level[k] + Cardinality(Spent(k))
    BY DEF LevelsRight
  <2>2. level[k] \in Nat /\ Limit \in Nat /\ IsFiniteSet(Taken(k))
    BY LenTyped, TakenAreFinite
  <2>3. IsFiniteSet(Spent(k)')
    BY AfterTyped
  <2>4. /\ Cardinality(Taken(k)') \in Nat /\ Cardinality(Taken(k)) \in Nat
        /\ Cardinality(Taken(k)') <= Cardinality(Taken(k))
    BY <2>2, CardinalityGrows
  <2>5. /\ Cardinality(Spent(k)') \in Nat /\ Cardinality(Spent(k)) \in Nat
        /\ Cardinality(Spent(k)) <= Cardinality(Spent(k)')
    BY <2>3, CardinalityGrows
  <2>6. QED
    BY <2>1, <2>2, <2>4, <2>5
<1>2. QED
  BY <1>1 DEF LevelsRight

\* Who has been denied stays rightly so.
LEMMA DeniedStays ==
    ASSUME Typed, DenialsRight, Typed', NEW s \in 1..Len(req), IsDenied(s), NEW k,
           key[s] = k, Spent(k) \subseteq Spent(k)'
    PROVE  Cardinality(Spent(k)' \ {s}) >= Limit
<1> DEFINE P == Spent(k)'
<1>1. Cardinality(Spent(k) \ {s}) >= Limit
  BY DEF DenialsRight
<1>2. IsFiniteSet(P) /\ Spent(k) \subseteq P
  BY AfterTyped
<1> HIDE DEF P
<1>3. IsFiniteSet(P \ {s}) /\ Spent(k) \ {s} \subseteq P \ {s}
  BY <1>2, FS_Subset
<1>4. /\ Cardinality(Spent(k) \ {s}) \in Nat /\ Cardinality(P \ {s}) \in Nat
      /\ Cardinality(Spent(k) \ {s}) <= Cardinality(P \ {s})
  BY <1>3, CardinalityGrows
<1>5. Limit \in Nat
  BY LenTyped
<1>6. Cardinality(P \ {s}) >= Limit
  BY <1>1, <1>4, <1>5
<1>7. QED
  BY <1>6 DEF P

\* The others have taken and spent what they had.
LEMMA OthersSpent ==
    ASSUME Typed, NEW r \in Requests, StepOf(r),
           \A s \in 1..Len(req) : s # r => (s \in late' <=> s \in late)
    PROVE  \A k :
           /\ Taken(k)' \ {r} = Taken(k) \ {r} /\ Spent(k)' \ {r} = Spent(k) \ {r}
           /\ r \in Taken(k) <=> key[r] = k /\ \E ans \in result[r] : ans.allowed
           /\ r \in Taken(k)' <=> key[r] = k /\ \E ans \in result'[r] : ans.allowed
           /\ r \in Spent(k) <=> /\ key[r] = k /\ ~Waved(config.bypass_keys, k)
                                 /\ ~(phase[r] = "checking" /\ result[r] = {})
                                 /\ r \notin late
           /\ r \in Spent(k)' <=> /\ key[r] = k /\ ~Waved(config.bypass_keys, k)
                                  /\ ~(phase'[r] = "checking" /\ result'[r] = {})
                                  /\ r \notin late'
<1> TAKE k
<1>1. r \in 1..Len(req)
  BY RequestTyped
<1>2. /\ UNCHANGED <<config, clock, req, key>>
      /\ \A s \in 1..Len(req) : s # r =>
            phase'[s] = phase[s] /\ result'[s] = result[s] /\ reply'[s] = reply[s]
  BY DEF StepOf, settingVars
<1>3. Taken(k)' = {s \in 1..Len(req) : key[s] = k /\ \E ans \in result'[s] : ans.allowed}
  BY <1>2 DEF Taken
<1>4. Spent(k)' = {s \in 1..Len(req) : /\ key[s] = k /\ ~Waved(config.bypass_keys, k)
                                       /\ ~(phase'[s] = "checking" /\ result'[s] = {})
                                       /\ s \notin late'}
  BY <1>2 DEF Spent
<1>5. Taken(k)' \ {r} = Taken(k) \ {r}
  BY <1>2, <1>3 DEF Taken
<1>6. Spent(k)' \ {r} = Spent(k) \ {r}
  BY <1>2, <1>4 DEF Spent
<1>7. /\ r \in Taken(k) <=> key[r] = k /\ \E ans \in result[r] : ans.allowed
      /\ r \in Taken(k)' <=> key[r] = k /\ \E ans \in result'[r] : ans.allowed
  BY <1>1, <1>3 DEF Taken
<1>8. /\ r \in Spent(k) <=> /\ key[r] = k /\ ~Waved(config.bypass_keys, k)
                            /\ ~(phase[r] = "checking" /\ result[r] = {})
                            /\ r \notin late
      /\ r \in Spent(k)' <=> /\ key[r] = k /\ ~Waved(config.bypass_keys, k)
                             /\ ~(phase'[r] = "checking" /\ result'[r] = {})
                             /\ r \notin late'
  BY <1>1, <1>4 DEF Spent
<1>9. QED
  BY <1>5, <1>6, <1>7, <1>8

\* The store is asked for r's key, and r takes what it gives or nothing.
LEMMA LevelsAsked ==
    ASSUME Typed, LevelsRight, Typed', NEW r \in Requests, NEW c \in StoreKeys, Asked(c),
           \A k : Taken(k)' \ {r} = Taken(k) \ {r} /\ Spent(k)' \ {r} = Spent(k) \ {r},
           \A k : k # c => (r \in Taken(k)' => r \in Taken(k)) /\ (r \in Spent(k) => r \in Spent(k)'),
           r \notin Spent(c), r \in Spent(c)', r \in Taken(c)' => answer'.allowed
    PROVE  LevelsRight'
<1>0. Limit \in Nat /\ Len(req) \in Nat /\ level \in [StoreKeys -> 0..Limit]
      /\ level' \in [StoreKeys -> 0..Limit]
  BY LenTyped, AfterTyped
<1>1. ASSUME NEW k \in StoreKeys
      PROVE  /\ level'[k] + Cardinality(Taken(k)') <= Limit
             /\ Limit <= level'[k] + Cardinality(Spent(k)')
  <2> DEFINE T == Taken(k)
             S == Spent(k)
             T1 == Taken(k)'
             S1 == Spent(k)'
  <2>1. level[k] + Cardinality(T) <= Limit /\ Limit <= level[k] + Cardinality(S)
    BY DEF LevelsRight
  <2>2. /\ IsFiniteSet(T) /\ Cardinality(T) \in Nat
        /\ IsFiniteSet(S) /\ Cardinality(S) \in Nat
    BY <1>0, TakenAreFinite
  <2>3. /\ IsFiniteSet(T1) /\ Cardinality(T1) \in Nat
        /\ IsFiniteSet(S1) /\ Cardinality(S1) \in Nat
    BY AfterTyped
  <2>4. level[k] \in Nat /\ level'[k] \in Nat
    BY <1>0
  <2>5. T1 \ {r} = T \ {r} /\ S1 \ {r} = S \ {r}
    OBVIOUS
  <2>6. CASE k # c
    <3>1. level'[k] = level[k]
      BY <2>6 DEF Asked
    <3>2. (r \in T1 => r \in T) /\ (r \in S => r \in S1)
      BY <2>6
    <3> HIDE DEF T, S, T1, S1
    <3>3. T1 \subseteq T /\ S \subseteq S1
      BY <2>5, <3>2
    <3>4. Cardinality(T1) <= Cardinality(T) /\ Cardinality(S) <= Cardinality(S1)
      BY <2>2, <2>3, <3>3, FS_Subset
    <3>5. QED
      BY <1>0, <2>1, <2>2, <2>3, <2>4, <3>1, <3>4 DEF T1, S1
  <2>7. CASE k = c
    <3>1. r \notin S /\ r \in S1 /\ (r \in T1 => answer'.allowed)
      BY <2>7
    <3>2. /\ answer'.allowed => level[k] >= 1 /\ level'[k] = level[k] - 1
          /\ ~answer'.allowed => level[k] = 0 /\ level'[k] = level[k]
      BY <2>7 DEF Asked
    <3> HIDE DEF T, S, T1, S1
    <3>3. S1 = S \cup {r}
      BY <2>5, <3>1
    <3>4. Cardinality(S1) = Cardinality(S) + 1
      BY <2>2, <3>1, <3>3, FS_AddElement
    <3>5. CASE answer'.allowed
      <4>1. T1 \subseteq T \cup {r}
        BY <2>5
      <4>2. /\ IsFiniteSet(T \cup {r})
            /\ Cardinality(T \cup {r}) = IF r \in T THEN Cardinality(T) ELSE Cardinality(T) + 1
        BY <2>2, FS_AddElement
      <4>3. Cardinality(T1) <= Cardinality(T \cup {r})
        BY <4>1, <4>2, FS_Subset
      <4>4. Cardinality(T1) <= Cardinality(T) + 1
        BY <2>2, <2>3, <4>2, <4>3
      <4>5. QED
        BY <1>0, <2>1, <2>2, <2>3, <2>4, <3>2, <3>4, <3>5, <4>4 DEF T1, S1
    <3>6. CASE ~answer'.allowed
      <4>1. T1 \subseteq T
        BY <2>5, <3>1, <3>6
      <4>2. Cardinality(T1) <= Cardinality(T)
        BY <2>2, <4>1, FS_Subset
      <4>3. QED
        BY <1>0, <2>1, <2>2, <2>3, <2>4, <3>2, <3>4, <3>6, <4>2 DEF T1, S1
    <3>7. QED
      BY <3>5, <3>6
  <2>8. QED
    BY <2>6, <2>7
<1>2. QED
  BY <1>1 DEF LevelsRight

\* Nobody is denied but by a step of its own, and nobody's rivals are fewer.
LEMMA DenialsStay ==
    ASSUME Typed, DenialsRight, Typed', NEW r \in Requests, StepOf(r),
           \A k : Spent(k) \subseteq Spent(k)',
           IsDenied(r)' => IsDenied(r) \/ Cardinality(Spent(key[r])' \ {r}) >= Limit
    PROVE  DenialsRight'
<1>1. /\ UNCHANGED <<req, key>>
      /\ \A s \in 1..Len(req) : s # r => result'[s] = result[s]
  BY DEF StepOf
<1>2. ASSUME NEW s \in 1..Len(req), IsDenied(s)', NEW k, key[s] = k
      PROVE  Cardinality(Spent(k)' \ {s}) >= Limit
  <2>1. CASE IsDenied(s)
    BY <1>2, <2>1, DeniedStays
  <2>2. CASE ~IsDenied(s)
    <3>1. s = r
      BY <1>1, <1>2, <2>2 DEF IsDenied
    <3>2. QED
      BY <1>1, <1>2, <2>2, <3>1
  <2>3. QED
    BY <2>1, <2>2
<1>3. QED
  BY <1>1, <1>2 DEF DenialsRight

\* The store runs an operation of a request.
LEMMA AskedRight ==
    ASSUME Typed, LevelsRight, DenialsRight, Typed', NEW r \in Requests, StepOf(r),
           key[r] \in StoreKeys, ~Waved(config.bypass_keys, key[r]), Asked(key[r]),
           \A s \in 1..Len(req) : s # r => (s \in late' <=> s \in late),
           \/ phase[r] = "checking" /\ result[r] = {} /\ result'[r] = {answer'} /\ r \notin late'
           \/ /\ r \in late /\ r \notin late' /\ result[r] = {} /\ result'[r] = {}
              /\ phase'[r] # "checking"
    PROVE  LevelsRight' /\ DenialsRight'
<1>1. PICK c \in StoreKeys : key[r] = c
  OBVIOUS
<1>2. /\ Asked(c) /\ ~Waved(config.bypass_keys, c)
  BY <1>1
<1>3. \A k :
           /\ Taken(k)' \ {r} = Taken(k) \ {r} /\ Spent(k)' \ {r} = Spent(k) \ {r}
           /\ r \in Taken(k) <=> key[r] = k /\ \E ans \in result[r] : ans.allowed
           /\ r \in Taken(k)' <=> key[r] = k /\ \E ans \in result'[r] : ans.allowed
           /\ r \in Spent(k) <=> /\ key[r] = k /\ ~Waved(config.bypass_keys, k)
                                 /\ ~(phase[r] = "checking" /\ result[r] = {})
                                 /\ r \notin late
           /\ r \in Spent(k)' <=> /\ key[r] = k /\ ~Waved(config.bypass_keys, k)
                                  /\ ~(phase'[r] = "checking" /\ result'[r] = {})
                                  /\ r \notin late'
  BY OthersSpent
<1>4. \A k : Taken(k)' \ {r} = Taken(k) \ {r} /\ Spent(k)' \ {r} = Spent(k) \ {r}
  BY <1>3
<1>5. \A k : k # c => (r \in Taken(k)' => r \in Taken(k)) /\ (r \in Spent(k) => r \in Spent(k)')
  BY <1>1, <1>3
<1>6. r \notin Spent(c) /\ r \in Spent(c)'
  BY <1>1, <1>2, <1>3
<1>7. r \in Taken(c)' => answer'.allowed
  BY <1>1, <1>3
<1>8. LevelsRight'
  BY <1>2, <1>4, <1>5, <1>6, <1>7, LevelsAsked
<1>9. \A k : Spent(k) \subseteq Spent(k)'
  <2> TAKE k
  <2>1. Spent(k)' \ {r} = Spent(k) \ {r} /\ r \notin Spent(c) /\ r \in Spent(c)'
        /\ (k # c => (r \in Spent(k) => r \in Spent(k)'))
    BY <1>4, <1>5, <1>6
  <2>2. QED
    BY <2>1
<1>10. ASSUME IsDenied(r)'
       PROVE  Cardinality(Spent(c)' \ {r}) >= Limit
  <2>1. ~answer'.allowed
    BY <1>10 DEF IsDenied
  <2>2. level[c] = 0
    BY <1>2, <2>1 DEF Asked
  <2>3. Limit <= level[c] + Cardinality(Spent(c))
    BY DEF LevelsRight
  <2>4. Cardinality(Spent(c)) \in Nat /\ Limit \in Nat
    BY LenTyped, TakenAreFinite
  <2>5. Spent(c)' \ {r} = Spent(c)
    BY <1>4, <1>6
  <2>6. Cardinality(Spent(c)) >= Limit
    BY <2>2, <2>3, <2>4
  <2>7. QED
    BY <2>5, <2>6
<1>11. key'[r] = c
  BY <1>1 DEF StepOf
<1>12. IsDenied(r)' => IsDenied(r) \/ Cardinality(Spent(key[r])' \ {r}) >= Limit
  BY <1>10, <1>11
<1>13. DenialsRight'
  BY <1>9, <1>12, DenialsStay
<1>14. QED
  BY <1>8, <1>13

\* A step that does not ask the store.
LEMMA UnaskedRight ==
    ASSUME Typed, LevelsRight, DenialsRight, Typed', NEW r \in Requests, StepOf(r),
           level' = level,
           \A s \in 1..Len(req) : s # r => (s \in late' <=> s \in late),
           result'[r] \in {{}, result[r]},
           \/ phase[r] = "checking" /\ result[r] = {}
           \/ phase'[r] # "checking" /\ (r \in late' => r \in late)
    PROVE  LevelsRight' /\ DenialsRight'
<1>1. \A k :
           /\ Taken(k)' \ {r} = Taken(k) \ {r} /\ Spent(k)' \ {r} = Spent(k) \ {r}
           /\ r \in Taken(k) <=> key[r] = k /\ \E ans \in result[r] : ans.allowed
           /\ r \in Taken(k)' <=> key[r] = k /\ \E ans \in result'[r] : ans.allowed
           /\ r \in Spent(k) <=> /\ key[r] = k /\ ~Waved(config.bypass_keys, k)
                                 /\ ~(phase[r] = "checking" /\ result[r] = {})
                                 /\ r \notin late
           /\ r \in Spent(k)' <=> /\ key[r] = k /\ ~Waved(config.bypass_keys, k)
                                  /\ ~(phase'[r] = "checking" /\ result'[r] = {})
                                  /\ r \notin late'
  BY OthersSpent
<1>2. ASSUME NEW k
      PROVE  Taken(k)' \subseteq Taken(k) /\ Spent(k) \subseteq Spent(k)'
  <2>1. Taken(k)' \ {r} = Taken(k) \ {r} /\ Spent(k)' \ {r} = Spent(k) \ {r}
    BY <1>1
  <2>2. r \in Taken(k)' => r \in Taken(k)
    BY <1>1
  <2>3. r \in Spent(k) => r \in Spent(k)'
    BY <1>1
  <2>4. QED
    BY <2>1, <2>2, <2>3
<1>3. LevelsRight'
  BY <1>2, LevelsStay
<1>4. IsDenied(r)' => IsDenied(r)
  BY DEF IsDenied
<1>5. DenialsRight'
  BY <1>2, <1>4, DenialsStay
<1>6. QED
  BY <1>3, <1>5

\* The steps of a request keep the levels and the denials right.
LEMMA RequestStepRight ==
    ASSUME Typed, RequestsFine, LevelsRight, DenialsRight, Typed',
           NEW r \in Requests, RequestStep(r)
    PROVE  LevelsRight' /\ DenialsRight'
<1>1. CASE MemoryChecks(r)
  <2>1. /\ StepOf(r) /\ phase[r] = "checking" /\ result[r] = {} /\ key[r] \in StoreKeys
        /\ Asked(key[r]) /\ result'[r] = {answer'} /\ late' = late
    BY <1>1, MemoryChecksIs
  <2>2. ~Waved(config.bypass_keys, key[r]) /\ r \notin late
    BY <2>1, CheckingFine
  <2>3. r \notin late' /\ \A s \in 1..Len(req) : s # r => (s \in late' <=> s \in late)
    BY <2>1, <2>2
  <2>4. QED
    BY <2>1, <2>2, <2>3, AskedRight
<1>2. CASE RedisRuns(r)
  <2>1. /\ StepOf(r) /\ phase[r] = "checking" /\ result[r] = {} /\ key[r] \in StoreKeys
        /\ Asked(key[r]) /\ result'[r] = {answer'} /\ late' = late
    BY <1>2, RedisRunsIs
  <2>2. ~Waved(config.bypass_keys, key[r]) /\ r \notin late
    BY <2>1, CheckingFine
  <2>3. r \notin late' /\ \A s \in 1..Len(req) : s # r => (s \in late' <=> s \in late)
    BY <2>1, <2>2
  <2>4. QED
    BY <2>1, <2>2, <2>3, AskedRight
<1>3. CASE LateRuns(r)
  <2>1. /\ StepOf(r) /\ r \in late /\ late' = late \ {r} /\ key[r] \in StoreKeys
        /\ Asked(key[r]) /\ UNCHANGED <<phase, result>>
    BY <1>3, LateRunsIs
  <2>2. FinePending(config, phase[r], key[r], result[r], reply[r], r \in late)
    BY MovedIs DEF Fine
  <2>3. ~Waved(config.bypass_keys, key[r]) /\ phase[r] # "checking" /\ result[r] = {}
    BY <2>1, <2>2 DEF FinePending
  <2>4. r \notin late' /\ \A s \in 1..Len(req) : s # r => (s \in late' <=> s \in late)
    BY <2>1
  <2>5. QED
    BY <2>1, <2>3, <2>4, AskedRight
<1>4. CASE RedisReplies(r)
  <2>1. /\ StepOf(r) /\ phase[r] = "checking" /\ level' = level
        /\ UNCHANGED <<result, late>>
    BY <1>4, RedisRepliesIs DEF storeVars
  <2>2. phase'[r] # "checking"
    BY <1>4, RedisRepliesIs DEF Deciding
  <2>3. QED
    BY <2>1, <2>2, UnaskedRight
<1>5. CASE StoreFails(r)
  <2>1. /\ StepOf(r) /\ phase[r] = "checking" /\ Erring(r) /\ GivingUp(r) /\ level' = level
    BY <1>5, StoreFailsIs DEF storeVars
  <2>2. phase'[r] # "checking"
    BY <2>1 DEF Erring
  <2>3. /\ result'[r] = {}
        /\ \A s \in 1..Len(req) : s # r => (s \in late' <=> s \in late)
        /\ result[r] = {} \/ (r \in late' => r \in late)
    BY <2>1 DEF GivingUp
  <2>4. QED
    BY <2>1, <2>2, <2>3, UnaskedRight
<1>6. CASE HandlerReturns(r)
  <2>1. /\ StepOf(r) /\ phase'[r] = "answered" /\ level' = level
        /\ UNCHANGED <<result, late>>
    BY <1>6, HandlerReturnsIs DEF storeVars
  <2>2. QED
    BY <2>1, UnaskedRight
<1>7. CASE Drop(r)
  <2>1. /\ StepOf(r) /\ level' = level
        /\ \/ /\ phase'[r] = "abandoned" /\ UNCHANGED <<late, result>>
           \/ /\ phase[r] = "checking" /\ phase'[r] = "dropped" /\ GivingUp(r)
    BY <1>7, DropIs DEF storeVars
  <2>2. CASE phase'[r] = "abandoned" /\ UNCHANGED <<late, result>>
    BY <2>1, <2>2, UnaskedRight
  <2>3. CASE phase[r] = "checking" /\ phase'[r] = "dropped" /\ GivingUp(r)
    <3>1. /\ result'[r] = {}
          /\ \A s \in 1..Len(req) : s # r => (s \in late' <=> s \in late)
          /\ result[r] = {} \/ (r \in late' => r \in late)
      BY <2>3 DEF GivingUp
    <3>2. QED
      BY <2>1, <2>3, <3>1, UnaskedRight
  <2>4. QED
    BY <2>1, <2>2, <2>3
<1>8. QED
  BY <1>1, <1>2, <1>3, <1>4, <1>5, <1>6, <1>7 DEF RequestStep

\* A request that has just come in has asked for nothing.
LEMMA HandleRight ==
    ASSUME Typed, LevelsRight, DenialsRight, Typed', NEW a \in Arrivals, Handle(a)
    PROVE  LevelsRight' /\ DenialsRight'
<1> DEFINE n == Len(req) + 1
<1>0. Len(req) \in Nat
  BY LenTyped
<1>1. /\ config' = config /\ late' = late /\ level' = level
      /\ Len(req') = n /\ result'[n] = {}
      /\ \A r \in 1..Len(req) :
            /\ phase'[r] = phase[r] /\ key'[r] = key[r] /\ result'[r] = result[r]
  BY HandleIs DEF storeVars
<1>2. 1..n = 1..Len(req) \cup {n}
  BY <1>0
<1> HIDE DEF n
<1>3. ASSUME NEW k
      PROVE  Taken(k)' \subseteq Taken(k) /\ Spent(k) \subseteq Spent(k)'
  <2>1. Taken(k)' = {s \in 1..n : key'[s] = k /\ \E ans \in result'[s] : ans.allowed}
    BY <1>1 DEF Taken
  <2>2. Spent(k)' = {s \in 1..n : /\ key'[s] = k /\ ~Waved(config.bypass_keys, k)
                                  /\ ~(phase'[s] = "checking" /\ result'[s] = {})
                                  /\ s \notin late}
    BY <1>1 DEF Spent
  <2>3. Taken(k)' \subseteq Taken(k)
    BY <1>1, <1>2, <2>1 DEF Taken
  <2>4. Spent(k) \subseteq Spent(k)'
    BY <1>1, <1>2, <2>2 DEF Spent
  <2>5. QED
    BY <2>3, <2>4
<1>4. LevelsRight'
  BY <1>1, <1>3, LevelsStay
<1>5. ASSUME NEW s \in 1..n, IsDenied(s)', NEW k, key'[s] = k
      PROVE  Cardinality(Spent(k)' \ {s}) >= Limit
  <2>1. s \in 1..Len(req)
    BY <1>1, <1>2, <1>5 DEF IsDenied
  <2>2. IsDenied(s) /\ key[s] = k
    BY <1>1, <1>5, <2>1 DEF IsDenied
  <2>3. QED
    BY <1>3, <2>1, <2>2, DeniedStays
<1>6. DenialsRight'
  BY <1>1, <1>5 DEF DenialsRight
<1>7. QED
  BY <1>4, <1>6

\* So does every step.
THEOREM LevelsNext ==
    Typed /\ RequestsFine /\ LevelsRight /\ DenialsRight /\ [Next]_vars
        => LevelsRight' /\ DenialsRight'
<1> SUFFICES ASSUME Typed, RequestsFine, LevelsRight, DenialsRight, [Next]_vars
             PROVE  LevelsRight' /\ DenialsRight'
  OBVIOUS
<1>0. Typed'
  BY TypedNext
<1>1. CASE Configure
  <2>1. Len(req) = 0 /\ req' = req /\ level' = level
    BY <1>1, ConfigureIs DEF requestVars, storeVars
  <2>2. 1..0 = {}
    OBVIOUS
  <2>3. ASSUME NEW k
        PROVE  Taken(k)' \subseteq Taken(k) /\ Spent(k) \subseteq Spent(k)'
    <3>1. Taken(k)' = {} /\ Spent(k) = {}
      BY <2>1, <2>2 DEF Taken, Spent
    <3>2. QED
      BY <3>1
  <2>4. LevelsRight'
    BY <1>0, <2>1, <2>3, LevelsStay
  <2>5. DenialsRight'
    BY <2>1, <2>2 DEF DenialsRight
  <2>6. QED
    BY <2>4, <2>5
<1>2. CASE \E a \in Arrivals : Handle(a)
  BY <1>0, <1>2, HandleRight
<1>3. CASE \E r \in Requests : RequestStep(r)
  BY <1>0, <1>3, RequestStepRight
<1>4. CASE UNCHANGED vars
  BY <1>4 DEF vars, LevelsRight, DenialsRight, Taken, Spent, IsDenied
<1>5. QED
  BY <1>1, <1>2, <1>3, <1>4, NextIs

\* Whatever a request is taken for: the level of a key and the requests it has
\* let through never exceed the limit, and no request of a key is denied unless
\* limit others of that key have been at the store.
THEOREM LevelsCorrect == Spec => [](LevelsRight /\ DenialsRight)
<1>1. Init => LevelsRight /\ DenialsRight
  <2> SUFFICES ASSUME Init PROVE LevelsRight /\ DenialsRight
    OBVIOUS
  <2>1. Len(req) = 0 /\ level = [k \in StoreKeys |-> Limit * 1] /\ 1..0 = {}
    BY EmptySeq DEF Init, Store!Init, Store!Brimful
  <2>2. DenialsRight
    BY <2>1 DEF DenialsRight
  <2>3. ASSUME NEW k \in StoreKeys
        PROVE  /\ level[k] + Cardinality(Taken(k)) <= Limit
               /\ Limit <= level[k] + Cardinality(Spent(k))
    <3>1. Taken(k) = {} /\ Spent(k) = {}
      BY <2>1 DEF Taken, Spent
    <3>2. Cardinality(Taken(k)) = 0 /\ Cardinality(Spent(k)) = 0
      BY <3>1, FS_EmptySet
    <3>3. Limit \in Nat /\ Limit * 1 = Limit
      BY MiddlewareAssumption
    <3>4. level[k] = Limit
      BY <2>1, <3>3
    <3>5. QED
      BY <3>2, <3>3, <3>4
  <2>4. QED
    BY <2>2, <2>3 DEF LevelsRight
<1>2. Typed /\ RequestsFine /\ (LevelsRight /\ DenialsRight) /\ [Next]_vars
          => (LevelsRight /\ DenialsRight)'
  BY LevelsNext
<1>3. QED
  BY <1>1, <1>2, TypedCorrect, FineCorrect, PTL DEF Spec

\* With keys for callers, that is the promise of the whole path.
LEMMA LimitHolds ==
    ASSUME Typed, RequestsFine, LevelsRight, DenialsRight, NoColons
    PROVE  LimitPerCaller
<1> SUFFICES ASSUME NEW r \in Requests
             PROVE  LET own == {s \in Requests : Caller(req[s]) = Caller(req[r])}
                    IN  /\ key[r] # {} => Cardinality({s \in own : Admitted(s)}) <= Limit
                        /\ (\E ans \in result[r] : ~ans.allowed) =>
                               Cardinality({s \in own \ {r} : ~IsListed(s)}) >= Limit
  BY DEF LimitPerCaller
<1> DEFINE own == {s \in Requests : Caller(req[s]) = Caller(req[r])}
           k == key[r]
           admitted == {s \in own : Admitted(s)}
           others == {s \in own \ {r} : ~IsListed(s)}
<1>0. /\ Requests = 1..Len(req) /\ r \in 1..Len(req) /\ k \in StoreKeys \cup {{}}
      /\ Limit \in Nat /\ Len(req) \in Nat /\ level \in [StoreKeys -> 0..Limit]
  <2>1. req \in Seq(Arrivals)
    BY DEF Typed, RequestsTyped
  <2>2. Requests = 1..Len(req)
    BY <2>1, LenProperties DEF Requests
  <2>3. QED
    BY <2>2, LenTyped, RequestTyped
<1>1. own = {s \in 1..Len(req) : key[s] = k}
  <2>1. KeysSeparate
    BY KeysHold
  <2>2. \A s \in Requests : key[s] = k <=> Caller(req[s]) = Caller(req[r])
    BY <2>1 DEF KeysSeparate
  <2>3. QED
    BY <1>0, <2>2
<1> HIDE DEF own
<1>2. ASSUME k # {}
      PROVE  Cardinality(admitted) <= Limit
  <2>1. admitted \subseteq Taken(k)
    BY <1>1 DEF Admitted, Taken
  <2>2. k \in StoreKeys
    BY <1>0, <1>2
  <2>3. level[k] + Cardinality(Taken(k)) <= Limit /\ level[k] \in Nat
    BY <1>0, <2>2 DEF LevelsRight
  <2>4. IsFiniteSet(Taken(k))
    BY <1>0, TakenAreFinite
  <2> HIDE DEF admitted
  <2>5. /\ Cardinality(admitted) \in Nat /\ Cardinality(Taken(k)) \in Nat
        /\ Cardinality(admitted) <= Cardinality(Taken(k))
    BY <2>1, <2>4, CardinalityGrows
  <2>6. QED
    BY <1>0, <2>3, <2>5
<1>3. ASSUME \E ans \in result[r] : ~ans.allowed
      PROVE  Cardinality(others) >= Limit
  <2>1. Cardinality(Spent(k) \ {r}) >= Limit
    BY <1>0, <1>3 DEF DenialsRight, IsDenied
  <2>2. k # {}
    BY <1>0, <1>3 DEF Typed, RequestsTyped
  <2>3. Spent(k) \ {r} \subseteq others
    <3> SUFFICES ASSUME NEW s \in Spent(k) \ {r} PROVE s \in others
      OBVIOUS
    <3>1. s \in Requests /\ key[s] = k /\ ~Waved(config.bypass_keys, k)
      BY <1>0 DEF Spent
    <3>2. ~IsListed(s)
      BY <2>2, <3>1, ListedIsWaved
    <3>3. QED
      BY <1>0, <1>1, <3>1, <3>2
  <2>4. IsFiniteSet(others)
    <3>1. IsFiniteSet(1..Len(req)) /\ others \subseteq 1..Len(req)
      BY <1>0, <1>1, FS_Interval
    <3>2. QED
      BY <3>1, FS_Subset
  <2> HIDE DEF others
  <2>5. /\ Cardinality(others) \in Nat /\ Cardinality(Spent(k) \ {r}) \in Nat
        /\ Cardinality(Spent(k) \ {r}) <= Cardinality(others)
    BY <2>3, <2>4, CardinalityGrows
  <2>6. QED
    BY <1>0, <2>1, <2>5
<1>4. QED
  BY <1>2, <1>3 DEF own

\* The promise of the whole path: in a stretch without refills no caller gets
\* more than limit requests through the store, whatever operations are given
\* up and run late, and none is denied unless limit others of its own have
\* been there; if no user id has a ':' in it.
THEOREM LimitCorrect == ASSUME NoColons PROVE Spec => []LimitPerCaller
  BY TypedCorrect, FineCorrect, LevelsCorrect, LimitHolds, PTL

-----------------------------------------------------------------------------
\* The background task.

\* The constants of the task.
LEMMA PruneConstFacts ==
    /\ IdleTTL \in Nat /\ 1 <= IdleTTL
    /\ Interval \in Nat /\ 1 <= Interval
    /\ MaxDelay \in Nat /\ MaxDelay < Interval /\ MaxDelay < IdleTTL
    /\ MaxIdle \in Nat /\ MaxIdle = IdleTTL + Interval + MaxDelay
BY PruneAssumption DEF MaxIdle

-----------------------------------------------------------------------------
\* Types.

Tasks ==
    [phase : {"spawned", "selecting", "cleaning", "stopped"},
     polled : BOOLEAN, wait : 0..Interval, lag : 0..MaxDelay,
     notified : BOOLEAN, aborted : BOOLEAN,
     unswept : SUBSET Key, read : 0..MaxIdle]

\* What the proofs use of the type invariant.
LEMMA PruneTypeFacts ==
    ASSUME PruneTypeOK
    PROVE  /\ task \in Tasks
           /\ task.phase \in {"spawned", "selecting", "cleaning", "stopped"}
           /\ task.polled \in BOOLEAN /\ task.aborted \in BOOLEAN
           /\ task.notified \in BOOLEAN
           /\ task.wait \in Nat /\ task.wait <= Interval
           /\ task.lag \in Nat /\ task.lag <= MaxDelay
           /\ task.read \in Nat /\ task.read <= MaxIdle
           /\ DOMAIN idle \subseteq Key
           /\ \A k \in DOMAIN idle : idle[k] \in Nat /\ idle[k] <= MaxIdle
<1>1. \A n \in 0..Interval : n \in Nat /\ n <= Interval
  BY PruneConstFacts
<1>2. \A n \in 0..MaxDelay : n \in Nat /\ n <= MaxDelay
  BY PruneConstFacts
<1>3. \A n \in 0..MaxIdle : n \in Nat /\ n <= MaxIdle
  BY PruneConstFacts
<1>4. task \in Tasks /\ \E K \in SUBSET Key : idle \in [K -> 0..MaxIdle]
  BY DEF PruneTypeOK, Tasks
<1>5. QED
  BY <1>1, <1>2, <1>3, <1>4 DEF Tasks

\* The least and the greatest values of its counters.
LEMMA AgeBounds ==
    /\ 0 \in 0..Interval /\ Interval \in 0..Interval
    /\ 0 \in 0..MaxDelay /\ 0 \in 0..MaxIdle
BY PruneConstFacts

\* The initial states are typed.
LEMMA PruneInitType == PruneInit => PruneTypeOK
<1>1. Spawned \in Tasks
  BY AgeBounds DEF Spawned, Tasks
<1>2. NoEntries \in [{} -> 0..MaxIdle] /\ {} \in SUBSET Key
  BY DEF NoEntries
<1>3. 0 \in 0..2
  OBVIOUS
<1>4. ASSUME PruneInit PROVE PruneTypeOK
  <2>1. /\ task \in Tasks /\ limiter = "alive"
        /\ awaits \in BOOLEAN /\ lateCleanups \in 0..2
    BY <1>1, <1>3, <1>4 DEF PruneInit
  <2>2. \E K \in SUBSET Key : idle \in [K -> 0..MaxIdle]
    BY <1>2, <1>4 DEF PruneInit
  <2>3. QED
    BY <2>1, <2>2 DEF PruneTypeOK, Tasks
<1>5. QED
  BY <1>4

\* A tick makes every entry older by one, up to the bound.
LEMMA TickAges ==
    ASSUME PruneTypeOK, Tick
    PROVE  /\ DOMAIN idle' = DOMAIN idle
           /\ \A k \in DOMAIN idle : /\ idle'[k] \in 0..MaxIdle
                                     /\ idle'[k] <= idle[k] + 1
BY PruneTypeFacts, PruneConstFacts DEF Tick

\* A tick keeps the task.
LEMMA TickTask ==
    ASSUME PruneTypeOK, Tick
    PROVE  /\ task'.phase = task.phase /\ task'.polled = task.polled
           /\ task'.notified = task.notified /\ task'.aborted = task.aborted
           /\ task'.unswept = task.unswept
           /\ task'.wait = Countdown(task.wait)
           /\ task'.wait \in 0..Interval
           /\ task'.lag = IF Owed THEN task.lag + 1 ELSE 0
           /\ task'.lag \in 0..MaxDelay
           /\ task'.read = IF task.phase = "cleaning" /\ task.read < MaxIdle
                           THEN task.read + 1 ELSE task.read
           /\ task'.read \in 0..MaxIdle
<1>1. task' = [task EXCEPT !.wait = Countdown(@),
                           !.lag = IF Owed THEN @ + 1 ELSE 0,
                           !.read = IF task.phase = "cleaning" /\ @ < MaxIdle
                                    THEN @ + 1 ELSE @]
  BY DEF Tick
<1>2. Owed => task.lag < MaxDelay
  BY DEF Tick
<1>3. Countdown(task.wait) \in 0..Interval
  BY PruneTypeFacts, PruneConstFacts DEF Countdown
<1>4. QED
  BY <1>1, <1>2, <1>3, PruneTypeFacts, PruneConstFacts

\* Every step keeps the types.
LEMMA PruneTypeStep ==
    ASSUME PruneTypeOK, [PruneNext]_pruneVars
    PROVE  PruneTypeOK'
<1>1. CASE Tick
  <2>1. task' \in Tasks
    <3>1. task' = [task EXCEPT !.wait = task'.wait, !.lag = task'.lag,
                               !.read = task'.read]
      BY <1>1, PruneTypeFacts DEF Tick
    <3>2. QED
      BY <1>1, <3>1, TickTask, PruneTypeFacts DEF Tasks
  <2>2. idle' \in [DOMAIN idle -> 0..MaxIdle] /\ DOMAIN idle \in SUBSET Key
    BY <1>1, TickAges, PruneTypeFacts DEF Tick
  <2>3. QED
    BY <1>1, <2>1, <2>2 DEF PruneTypeOK, Tick, Tasks
<1>2. CASE TaskStep
  <2>1. ASSUME NEW k \in Key, Sweep(k) PROVE PruneTypeOK'
    <3>1. \E K \in SUBSET Key : idle' \in [K -> 0..MaxIdle]
      <4>1. CASE k \in DOMAIN idle /\ AgeRead(k) >= IdleTTL
        <5>1. idle' \in [DOMAIN idle \ {k} -> 0..MaxIdle]
          BY <2>1, <4>1 DEF Sweep, PruneTypeOK
        <5>2. QED
          BY <5>1, PruneTypeFacts
      <4>2. CASE ~ (k \in DOMAIN idle /\ AgeRead(k) >= IdleTTL)
        BY <2>1, <4>2 DEF Sweep, PruneTypeOK
      <4>3. QED
        BY <4>1, <4>2
    <3>2. QED
      BY <2>1, <3>1, PruneTypeFacts DEF Sweep, PruneTypeOK
  <2>2. CASE Poll \/ FirstTick \/ NotifiedStops \/ SelectParks
             \/ CleanupParks \/ CleanupReturns
    <3>1. UNCHANGED <<limiter, awaits, idle, lateCleanups>>
      BY <2>2 DEF Poll, FirstTick, NotifiedStops, SelectParks, CleanupParks,
                  CleanupReturns
    <3>2. task' \in Tasks
      BY <2>2, PruneTypeFacts, AgeBounds
         DEF Poll, FirstTick, NotifiedStops, SelectParks, CleanupParks,
             CleanupReturns, Parked, Tasks
    <3>3. QED
      BY <3>1, <3>2 DEF PruneTypeOK, Tasks
  <2>3. CASE TickerFires
    <3>1. lateCleanups' \in 0..2
      BY <2>3 DEF TickerFires, PruneTypeOK, Tasks
    <3>2. task' \in Tasks
      BY <2>3, PruneTypeFacts, AgeBounds DEF TickerFires, NextTick, Tasks
    <3>3. QED
      BY <2>3, <3>1, <3>2 DEF TickerFires, PruneTypeOK, Tasks
  <2>4. QED
    BY <1>2, <2>1, <2>2, <2>3 DEF TaskStep
<1>3. CASE DropPruneTask
  <2>1. PICK told \in Told :
            task' = [task EXCEPT !.notified = told,
                                 !.aborted = task.phase # "stopped"]
    BY <1>3 DEF DropPruneTask
  <2>2. told \in BOOLEAN
    BY DEF Told, AtSelect
  <2>3. QED
    BY <1>3, <2>1, <2>2, PruneTypeFacts DEF DropPruneTask, PruneTypeOK, Tasks
<1>4. ASSUME NEW k \in Key, Use(k) PROVE PruneTypeOK'
  <2>1. idle' \in [DOMAIN idle \cup {k} -> 0..MaxIdle]
    BY <1>4, PruneTypeFacts, PruneConstFacts DEF Use, PruneTypeOK
  <2>2. QED
    BY <1>4, <2>1, PruneTypeFacts DEF Use, PruneTypeOK
<1>5. CASE UNCHANGED pruneVars
  BY <1>5 DEF pruneVars, PruneTypeOK
<1>6. QED
  BY <1>1, <1>2, <1>3, <1>4, <1>5 DEF PruneNext

\* Every phase, countdown, age and history stays within its bounds.
THEOREM PruneTypeCorrect == PruneSpec => []PruneTypeOK
<1>1. QED
  BY PruneInitType, PruneTypeStep, PTL DEF PruneSpec

-----------------------------------------------------------------------------
\* A drop lets one cleanup begin at most.

\* The abort of a drop leaves the task the poll it is in, if any.  Should the
\* cleanup begin in it, the ticker is not due again before that poll ends:
\* what it has counted down since, the poll has taken.
LateOK ==
    /\ limiter = "alive" => lateCleanups = 0
    /\ limiter = "dropped" => task.aborted \/ task.phase = "stopped"
    /\ lateCleanups <= 1
    /\ lateCleanups = 1 => \/ task.phase = "stopped"
                   \/ /\ task.phase \in {"selecting", "cleaning"}
                      /\ task.polled /\ task.aborted
                      /\ task.wait + task.lag >= Interval

\* Every step keeps LateOK.
LEMMA LateStep ==
    ASSUME PruneTypeOK, LateOK, [PruneNext]_pruneVars
    PROVE  LateOK'
<1>1. CASE Tick
  <2>1. task.polled => task'.lag = task.lag + 1
    BY <1>1, TickTask DEF Owed
  <2>2. task'.wait >= task.wait - 1
    BY <1>1, TickTask, PruneTypeFacts DEF Countdown
  <2>3. ASSUME task.polled, task.wait + task.lag >= Interval
        PROVE  task'.wait + task'.lag >= Interval
    <3>1. task'.wait \in Nat
      BY <1>1, TickTask, PruneConstFacts
    <3>2. QED
      BY <2>1, <2>2, <2>3, <3>1, PruneTypeFacts, PruneConstFacts
  <2>4. UNCHANGED <<limiter, lateCleanups>>
    BY <1>1 DEF Tick
  <2>5. QED
    BY <1>1, <2>3, <2>4, TickTask DEF LateOK
<1>2. CASE TickerFires
  <2>1. /\ task.wait = 0 /\ task.polled /\ task.phase = "selecting"
        /\ task'.phase = "cleaning" /\ task'.polled
        /\ task'.aborted = task.aborted
        /\ task'.wait = Interval /\ task'.lag = task.lag
        /\ lateCleanups' = IF limiter = "dropped" /\ lateCleanups < 2 THEN lateCleanups + 1 ELSE lateCleanups
        /\ limiter' = limiter
    BY <1>2, PruneTypeFacts DEF TickerFires, AtSelect, NextTick, Tasks
  <2>2. lateCleanups # 1
    BY <2>1, PruneTypeFacts, PruneConstFacts DEF LateOK
  <2>3. lateCleanups = 0
    BY <2>2 DEF LateOK, PruneTypeOK
  <2>4. task'.wait + task'.lag >= Interval
    BY <2>1, PruneTypeFacts, PruneConstFacts
  <2>5. limiter \in {"alive", "dropped"}
    BY DEF PruneTypeOK
  <2>6. QED
    BY <2>1, <2>3, <2>4, <2>5 DEF LateOK
<1>3. CASE Poll \/ FirstTick
  <2>1. UNCHANGED <<limiter, lateCleanups>>
    BY <1>3 DEF Poll, FirstTick
  <2>2. task'.aborted = task.aborted
    BY <1>3, PruneTypeFacts DEF Poll, FirstTick, Tasks
  <2>3. task.phase = "stopped" => task'.phase = "stopped"
    BY <1>3, PruneTypeFacts DEF Poll, FirstTick, Tasks
  <2>4. lateCleanups = 1 => task'.phase = "stopped"
    BY <1>3 DEF LateOK, Poll, FirstTick
  <2>5. QED
    BY <2>1, <2>2, <2>3, <2>4 DEF LateOK
<1>4. CASE NotifiedStops \/ SelectParks \/ CleanupParks
  <2>1. UNCHANGED <<limiter, lateCleanups>> /\ task'.aborted = task.aborted
    BY <1>4, PruneTypeFacts
       DEF NotifiedStops, SelectParks, CleanupParks, Parked, Tasks
  <2>2. task.aborted \/ task.phase = "stopped" => task'.phase = "stopped"
    BY <1>4, PruneTypeFacts
       DEF NotifiedStops, SelectParks, CleanupParks, Parked, AtSelect, Tasks
  <2>3. QED
    BY <2>1, <2>2 DEF LateOK
<1>5. ASSUME CleanupReturns \/ \E k \in Key : Sweep(k)
      PROVE  LateOK'
  <2>1. /\ UNCHANGED <<limiter, lateCleanups>> /\ task'.aborted = task.aborted
        /\ task.phase = "cleaning"
        /\ task'.phase \in {"selecting", "cleaning"}
        /\ task'.polled = task.polled
        /\ task'.wait = task.wait /\ task'.lag = task.lag
    BY <1>5, PruneTypeFacts DEF CleanupReturns, Sweep, Tasks
  <2>2. QED
    BY <2>1 DEF LateOK
<1>6. CASE DropPruneTask
  <2>1. /\ limiter = "alive" /\ limiter' = "dropped" /\ lateCleanups' = lateCleanups
        /\ task'.phase = task.phase
        /\ task.phase # "stopped" => task'.aborted
    BY <1>6, PruneTypeFacts DEF DropPruneTask, Tasks
  <2>2. QED
    BY <2>1 DEF LateOK
<1>7. ASSUME NEW k \in Key, Use(k) PROVE LateOK'
  BY <1>7 DEF Use, LateOK
<1>8. CASE UNCHANGED pruneVars
  BY <1>8 DEF pruneVars, LateOK
<1>9. QED
  BY <1>1, <1>2, <1>3, <1>4, <1>5, <1>6, <1>7, <1>8 DEF PruneNext, TaskStep

\* "it never outlives the limiter" (lib.rs:160): whichever step of the task
\* the drop meets, at most one cleanup begins after it.
THEOREM LateCorrect == PruneSpec => []AtMostOneLate
<1>1. PruneInit => LateOK
  BY DEF PruneInit, LateOK
<1>2. PruneTypeOK /\ LateOK /\ [PruneNext]_pruneVars => LateOK'
  BY LateStep
<1>3. LateOK => AtMostOneLate
  BY DEF LateOK, AtMostOneLate
<1>4. QED
  BY <1>1, <1>2, <1>3, PruneTypeCorrect, PTL DEF PruneSpec

-----------------------------------------------------------------------------
\* What the store retains.

\* Until it is dropped, nothing but its work stops a task.
Undisturbed ==
    limiter = "alive" =>
        /\ task.phase # "stopped" /\ ~ task.notified /\ ~ task.aborted

\* How idle an entry may be when nothing is swept: from the first tick on as
\* much as the ticker has counted down since the pass that spared it, and,
\* once the ticker is due, as late as the task is.
AgesOK ==
    (limiter = "alive" /\ ~ awaits) =>
        /\ task.phase = "spawned" =>
               \A k \in DOMAIN idle : idle[k] <= task.lag
        /\ task.phase = "selecting" =>
               \A k \in DOMAIN idle :
                   IF task.wait > 0
                   THEN idle[k] + task.wait < IdleTTL + Interval
                   ELSE idle[k] < IdleTTL + Interval + task.lag
        /\ task.phase = "cleaning" =>
               /\ task.polled /\ task.read <= task.lag
               /\ task.read + task.wait = Interval
               /\ \A k \in DOMAIN idle :
                      IF k \in task.unswept
                      THEN idle[k] < IdleTTL + Interval + task.lag
                      ELSE idle[k] < IdleTTL + task.read

\* Every step keeps Undisturbed.
LEMMA UndisturbedStep ==
    ASSUME PruneTypeOK, Undisturbed, [PruneNext]_pruneVars
    PROVE  Undisturbed'
<1>1. SUFFICES ASSUME limiter' = "alive"
               PROVE  /\ task'.phase # "stopped"
                      /\ ~ task'.notified /\ ~ task'.aborted
  BY DEF Undisturbed
<1>2. /\ limiter = "alive" /\ task.phase # "stopped"
      /\ ~ task.notified /\ ~ task.aborted
  BY <1>1 DEF Undisturbed, PruneNext, Tick, TaskStep, DropPruneTask, Use, Poll, FirstTick,
              TickerFires, NotifiedStops, SelectParks, CleanupParks,
              CleanupReturns, Sweep, pruneVars
<1>3. CASE Tick
  BY <1>2, <1>3, TickTask
<1>4. CASE TaskStep
  BY <1>2, <1>4, PruneTypeFacts
     DEF TaskStep, Poll, FirstTick, TickerFires, NotifiedStops, SelectParks,
         CleanupParks, CleanupReturns, Sweep, Parked, Tasks
<1>5. CASE DropPruneTask
  BY <1>1, <1>5 DEF DropPruneTask
<1>6. CASE UNCHANGED task
  BY <1>2, <1>6
<1>7. QED
  BY <1>3, <1>4, <1>5, <1>6 DEF PruneNext, Use, pruneVars

\* A tick keeps the ages,
LEMMA TickAgesOK ==
    ASSUME PruneTypeOK, Undisturbed, AgesOK, Tick
    PROVE  AgesOK'
<1>1. SUFFICES ASSUME limiter = "alive", ~ awaits PROVE AgesOK'
  BY DEF Tick, AgesOK
<1>2. UNCHANGED <<limiter, awaits>> /\ ~ task.aborted
  BY <1>1 DEF Tick, Undisturbed
<1>3. ASSUME NEW k \in DOMAIN idle
      PROVE  /\ idle[k] \in Nat /\ idle'[k] \in Nat /\ idle'[k] <= idle[k] + 1
  BY TickAges, PruneTypeFacts, PruneConstFacts
<1>4. DOMAIN idle' = DOMAIN idle
  BY TickAges
<1>5. CASE task.phase = "spawned"
  <2>1. task'.lag = task.lag + 1
    BY <1>5, TickTask DEF Owed, Woken
  <2>2. \A k \in DOMAIN idle : idle'[k] <= task'.lag
    BY <1>1, <1>3, <1>5, <2>1, PruneTypeFacts DEF AgesOK
  <2>3. QED
    BY <1>4, <1>5, <2>2, TickTask DEF AgesOK
<1>6. CASE task.phase = "selecting"
  <2>1. ASSUME NEW k \in DOMAIN idle
        PROVE  IF task'.wait > 0
               THEN idle'[k] + task'.wait < IdleTTL + Interval
               ELSE idle'[k] < IdleTTL + Interval + task'.lag
    <3>1. task'.lag \in Nat
      BY TickTask, PruneConstFacts
    <3>2. CASE task.wait > 0
      <4>1. task'.wait = task.wait - 1
        BY <3>2, TickTask DEF Countdown
      <4>2. idle[k] + task.wait < IdleTTL + Interval
        BY <1>1, <1>6, <3>2 DEF AgesOK
      <4>3. idle'[k] + task'.wait < IdleTTL + Interval
        BY <1>3, <4>1, <4>2, PruneTypeFacts, PruneConstFacts
      <4>4. CASE task'.wait > 0
        BY <4>3, <4>4
      <4>5. CASE ~ (task'.wait > 0)
        <5>1. task'.wait = 0
          BY <4>1, <4>5, PruneTypeFacts, <3>2
        <5>2. idle'[k] < IdleTTL + Interval
          BY <1>3, <4>3, <5>1, PruneConstFacts
        <5>3. QED
          BY <1>3, <3>1, <4>5, <5>2, PruneConstFacts
      <4>6. QED
        BY <4>4, <4>5
    <3>3. CASE ~ (task.wait > 0)
      <4>1. task'.wait = 0 /\ task.wait = 0
        BY <3>3, TickTask, PruneTypeFacts DEF Countdown
      <4>2. task'.lag = task.lag + 1
        BY <1>6, <4>1, TickTask DEF Owed, Woken, AtSelect
      <4>3. idle[k] < IdleTTL + Interval + task.lag
        BY <1>1, <1>6, <3>3 DEF AgesOK
      <4>4. idle'[k] < IdleTTL + Interval + task'.lag
        BY <1>3, <4>2, <4>3, PruneTypeFacts, PruneConstFacts
      <4>5. QED
        BY <4>1, <4>4
    <3>4. QED
      BY <3>2, <3>3
  <2>2. QED
    BY <1>4, <1>6, <2>1, TickTask DEF AgesOK
<1>7. CASE task.phase = "cleaning"
  <2>1. /\ task.polled /\ task.read <= task.lag
        /\ task.read + task.wait = Interval
    BY <1>1, <1>7 DEF AgesOK
  <2>2. task'.lag = task.lag + 1
    BY <2>1, TickTask DEF Owed
  <2>3. task'.read = task.read + 1
    BY <1>7, <2>1, TickTask, PruneTypeFacts, PruneConstFacts
  <2>4. task'.wait = task.wait - 1
    BY <2>1, TickTask, PruneTypeFacts, PruneConstFacts DEF Countdown
  <2>5. ASSUME NEW k \in DOMAIN idle
        PROVE  IF k \in task.unswept
               THEN idle'[k] < IdleTTL + Interval + task'.lag
               ELSE idle'[k] < IdleTTL + task'.read
    <3>1. CASE k \in task.unswept
      <4>1. idle[k] < IdleTTL + Interval + task.lag
        BY <1>1, <1>7, <3>1 DEF AgesOK
      <4>2. QED
        BY <1>3, <2>2, <3>1, <4>1, PruneTypeFacts, PruneConstFacts
    <3>2. CASE k \notin task.unswept
      <4>1. idle[k] < IdleTTL + task.read
        BY <1>1, <1>7, <3>2 DEF AgesOK
      <4>2. QED
        BY <1>3, <2>3, <3>2, <4>1, PruneTypeFacts, PruneConstFacts
    <3>3. QED
      BY <3>1, <3>2
  <2>6. task'.read <= task'.lag /\ task'.read + task'.wait = Interval
    BY <2>1, <2>2, <2>3, <2>4, PruneTypeFacts, PruneConstFacts
  <2>7. /\ task'.phase = "cleaning" /\ task'.polled
        /\ task'.unswept = task.unswept
    BY <1>7, <2>1, TickTask
  <2>8. QED
    BY <1>4, <2>5, <2>6, <2>7 DEF AgesOK
<1>8. CASE task.phase = "stopped"
  BY <1>8, TickTask DEF AgesOK
<1>9. QED
  BY <1>5, <1>6, <1>7, <1>8, PruneTypeFacts

\* the steps of the task keep them,
LEMMA TaskAgesOK ==
    ASSUME PruneTypeOK, Undisturbed, AgesOK, TaskStep
    PROVE  AgesOK'
<1>1. UNCHANGED <<limiter, awaits>>
  BY DEF TaskStep, Poll, FirstTick, TickerFires, NotifiedStops, SelectParks,
         CleanupParks, CleanupReturns, Sweep
<1>2. SUFFICES ASSUME limiter = "alive", ~ awaits PROVE AgesOK'
  BY <1>1 DEF AgesOK
<1>3. ~ task.aborted /\ ~ task.notified
  BY <1>2 DEF Undisturbed
<1>4. CASE Poll
  <2>1. /\ idle' = idle
        /\ task'.phase = task.phase /\ task'.wait = task.wait
        /\ task'.lag = task.lag /\ task'.read = task.read
        /\ task'.unswept = task.unswept /\ task'.polled
    BY <1>3, <1>4, PruneTypeFacts DEF Poll, Tasks
  <2>2. QED
    BY <1>1, <2>1 DEF AgesOK
<1>5. CASE FirstTick
  <2>1. /\ idle' = idle /\ task.phase = "spawned"
        /\ task'.phase = "selecting" /\ task'.wait = Interval
    BY <1>5, PruneTypeFacts DEF FirstTick, Tasks
  <2>2. ASSUME NEW k \in DOMAIN idle
        PROVE  idle[k] + Interval < IdleTTL + Interval
    <3>1. idle[k] \in Nat /\ idle[k] <= task.lag
      BY <1>2, <2>1, PruneTypeFacts DEF AgesOK
    <3>2. QED
      BY <3>1, PruneTypeFacts, PruneConstFacts
  <2>3. QED
    BY <2>1, <2>2, PruneConstFacts DEF AgesOK
<1>6. CASE TickerFires
  <2>1. /\ idle' = idle /\ task.phase = "selecting" /\ task.wait = 0
        /\ task'.phase = "cleaning" /\ task'.wait = Interval
        /\ task'.polled /\ task'.lag = task.lag /\ task'.read = 0
        /\ task'.unswept = Key
    BY <1>6, PruneTypeFacts DEF TickerFires, AtSelect, NextTick, Tasks
  <2>2. \A k \in DOMAIN idle : /\ k \in Key
                               /\ idle[k] < IdleTTL + Interval + task.lag
    BY <1>2, <2>1, PruneTypeFacts DEF AgesOK
  <2>3. task'.read <= task'.lag /\ task'.read + task'.wait = Interval
    BY <2>1, PruneTypeFacts, PruneConstFacts
  <2>4. QED
    BY <2>1, <2>2, <2>3 DEF AgesOK
<1>7. CASE NotifiedStops
  BY <1>3, <1>7 DEF NotifiedStops
<1>8. CASE SelectParks
  <2>1. /\ idle' = idle /\ task.phase = "selecting" /\ task.wait > 0
        /\ task'.phase = "selecting" /\ task'.wait = task.wait
    BY <1>3, <1>8, PruneTypeFacts DEF SelectParks, AtSelect, Parked, Tasks
  <2>2. QED
    BY <1>2, <2>1 DEF AgesOK
<1>9. CASE CleanupParks
  BY <1>2, <1>9 DEF CleanupParks
<1>10. CASE CleanupReturns
  <2>1. /\ idle' = idle /\ task.phase = "cleaning" /\ task.unswept = {}
        /\ task'.phase = "selecting" /\ task'.wait = task.wait
    BY <1>2, <1>10, PruneTypeFacts DEF CleanupReturns, Tasks
  <2>2. /\ task.read <= task.lag /\ task.read + task.wait = Interval
        /\ \A k \in DOMAIN idle : idle[k] < IdleTTL + task.read
    BY <1>2, <2>1 DEF AgesOK
  <2>3. task.wait > 0
    BY <2>2, PruneTypeFacts, PruneConstFacts
  <2>4. \A k \in DOMAIN idle : idle[k] + task.wait < IdleTTL + Interval
    BY <2>2, PruneTypeFacts, PruneConstFacts
  <2>5. QED
    BY <2>1, <2>3, <2>4 DEF AgesOK
<1>11. ASSUME NEW k \in Key, Sweep(k) PROVE AgesOK'
  <2>1. /\ task.phase = "cleaning" /\ k \in task.unswept
        /\ task'.phase = "cleaning" /\ task'.polled = task.polled
        /\ task'.wait = task.wait /\ task'.lag = task.lag
        /\ task'.read = task.read /\ task'.unswept = task.unswept \ {k}
    BY <1>11, PruneTypeFacts DEF Sweep, Tasks
  <2>2. /\ task.polled /\ task.read <= task.lag
        /\ task.read + task.wait = Interval
        /\ \A x \in DOMAIN idle :
               IF x \in task.unswept
               THEN idle[x] < IdleTTL + Interval + task.lag
               ELSE idle[x] < IdleTTL + task.read
    BY <1>2, <2>1 DEF AgesOK
  <2>3. /\ DOMAIN idle' \subseteq DOMAIN idle
        /\ \A x \in DOMAIN idle' : idle'[x] = idle[x]
        /\ k \in DOMAIN idle' => ~ (idle[k] - task.read >= IdleTTL)
    BY <1>11 DEF Sweep, AgeRead
  <2>4. k \in DOMAIN idle' => idle[k] < IdleTTL + task.read
    BY <2>3, PruneTypeFacts, PruneConstFacts
  <2>5. QED
    BY <2>1, <2>2, <2>3, <2>4 DEF AgesOK
<1>12. QED
  BY <1>4, <1>5, <1>6, <1>7, <1>8, <1>9, <1>10, <1>11 DEF TaskStep

\* and so does a use.
LEMMA UseAgesOK ==
    ASSUME PruneTypeOK, AgesOK, NEW k \in Key, Use(k)
    PROVE  AgesOK'
<1>1. /\ UNCHANGED <<limiter, awaits, task>>
      /\ DOMAIN idle' = DOMAIN idle \cup {k}
      /\ idle'[k] = 0
      /\ \A x \in DOMAIN idle \ {k} : idle'[x] = idle[x]
  BY DEF Use
<1>2. /\ 0 <= task.lag /\ 0 < IdleTTL + Interval + task.lag
      /\ 0 < IdleTTL + task.read /\ 0 + task.wait < IdleTTL + Interval
  BY PruneTypeFacts, PruneConstFacts
<1>3. QED
  BY <1>1, <1>2 DEF AgesOK

\* "This task must run for the store to stay bounded" (lib.rs:149), and while
\* the limiter lives it does: no entry outlives its last use by more than the
\* TTL, one interval and the scheduling delay.
THEOREM RetentionCorrect == PruneSpec => []RetentionBounded
<1>1. PruneInit => Undisturbed /\ AgesOK
  BY DEF PruneInit, Spawned, NoEntries, Undisturbed, AgesOK
<1>2. PruneTypeOK /\ Undisturbed /\ [PruneNext]_pruneVars => Undisturbed'
  BY UndisturbedStep
<1>3. PruneTypeOK /\ Undisturbed /\ AgesOK /\ [PruneNext]_pruneVars => AgesOK'
  <2>1. ASSUME AgesOK, DropPruneTask PROVE AgesOK'
    BY <2>1 DEF DropPruneTask, AgesOK
  <2>2. ASSUME AgesOK, UNCHANGED pruneVars PROVE AgesOK'
    BY <2>2 DEF pruneVars, AgesOK
  <2>3. QED
    BY <2>1, <2>2, TickAgesOK, TaskAgesOK, UseAgesOK DEF PruneNext
<1>4. PruneTypeOK /\ Undisturbed /\ AgesOK => RetentionBounded
  <2> SUFFICES ASSUME PruneTypeOK, Undisturbed, AgesOK,
                      limiter = "alive", ~ awaits, NEW k \in DOMAIN idle
               PROVE  idle[k] < IdleTTL + Interval + MaxDelay
    BY DEF RetentionBounded
  <2>1. idle[k] \in Nat /\ task.phase # "stopped"
    BY PruneTypeFacts DEF Undisturbed
  <2>2. CASE task.phase = "spawned"
    BY <2>1, <2>2, PruneTypeFacts, PruneConstFacts DEF AgesOK
  <2>3. CASE task.phase = "selecting"
    BY <2>1, <2>3, PruneTypeFacts, PruneConstFacts DEF AgesOK
  <2>4. CASE task.phase = "cleaning"
    BY <2>1, <2>4, PruneTypeFacts, PruneConstFacts DEF AgesOK
  <2>5. QED
    BY <2>1, <2>2, <2>3, <2>4, PruneTypeFacts
<1>5. QED
  BY <1>1, <1>2, <1>3, <1>4, PruneTypeCorrect, PTL DEF PruneSpec
=============================================================================
