-------------------------- MODULE DbConnectorProofs --------------------------
(***************************************************************************)
(* Proofs about DbConnector.  Its delays and the length of its loops are     *)
(* recursive functions, so the first lemmas are about recursion: a recursive *)
(* definition on the natural numbers has a solution, and what holds of 0 and *)
(* passes from n to n + 1 holds of them all.                                 *)
(***************************************************************************)
EXTENDS DbConnector, WellFoundedInduction, TLAPS

--------------------------------------------------------------------------------
\* Recursion.

\* A set of natural numbers has a smallest.
LEMMA SmallestExists ==
  ASSUME NEW T, T \subseteq Nat, T # {}
  PROVE  \E x \in T : \A y \in T : x <= y
<1> DEFINE R == {p \in Nat \X Nat : p[1] < p[2]}
<1>1. R = OpToRel(<, Nat)
  BY DEF OpToRel
<1>2. IsWellFoundedOn(R, Nat)
  BY <1>1, NatLessThanWellFounded
<1>3. \A x, y \in Nat : x < y => <<x, y>> \in R
  OBVIOUS
<1> HIDE DEF R
<1>4. PICK x \in T : \A y \in T : <<y, x>> \notin R
  BY <1>2, WFMin
<1>5. \A y \in T : ~(y < x)
  BY <1>3, <1>4
<1> QED
  BY <1>4, <1>5

\* A set of natural numbers that holds 0 and the successor of each of its members holds
\* all of them.
LEMMA AllNumbers ==
  ASSUME NEW T, 0 \in T, \A n \in Nat : n \in T => n + 1 \in T
  PROVE  Nat \subseteq T
<1> SUFFICES ASSUME ~(Nat \subseteq T) PROVE FALSE
  OBVIOUS
<1>1. Nat \ T \subseteq Nat /\ Nat \ T # {}
  OBVIOUS
<1>2. PICK x \in Nat \ T : \A y \in Nat \ T : x <= y
  BY <1>1, SmallestExists
<1>3. x # 0 /\ x - 1 \in Nat
  BY <1>2
<1>4. x - 1 \in T
  BY <1>2, <1>3
<1>5. (x - 1) + 1 \in T
  BY <1>3, <1>4
<1> QED
  BY <1>2, <1>5

\* h computes the first n steps of the recursion that starts from b and goes on by G.
Begins(h, n, V, b, G) ==
  /\ h \in [0..n -> V] /\ h[0] = b
  /\ \A k \in 0..n : k # 0 => h[k] = G[<<k, h[k - 1]>>]

\* A recursion can be computed as far as one likes.
LEMMA BeginsExists ==
  ASSUME NEW V, NEW b \in V, NEW G \in [Nat \X V -> V]
  PROVE  \A n \in Nat : \E h : Begins(h, n, V, b, G)
<1> DEFINE T == {n \in Nat : \E h : Begins(h, n, V, b, G)}
<1>1. 0 \in T
  <2>1. Begins([k \in 0..0 |-> b], 0, V, b, G)
    BY DEF Begins
  <2> QED
    BY <2>1
<1>2. ASSUME NEW n \in Nat, n \in T PROVE n + 1 \in T
  <2>1. PICK h : Begins(h, n, V, b, G)
    BY <1>2
  <2> DEFINE w == G[<<n + 1, h[n]>>]
             g == [k \in 0..(n + 1) |-> IF k = n + 1 THEN w ELSE h[k]]
  <2>2. h \in [0..n -> V] /\ h[n] \in V
    BY <2>1 DEF Begins
  <2>3. w \in V
    BY <2>2
  <2>4. \A k \in 0..(n + 1) : k # n + 1 => k \in 0..n /\ h[k] \in V
    BY <2>2
  <2>5. g \in [0..(n + 1) -> V]
    <3> HIDE DEF w
    <3> QED
      BY <2>3, <2>4
  <2>6. g[n + 1] = w /\ \A k \in 0..n : g[k] = h[k]
    <3> HIDE DEF w
    <3> QED
      OBVIOUS
  <2>7. g[0] = b
    BY <2>1, <2>6 DEF Begins
  <2>8. ASSUME NEW k \in 0..(n + 1), k # 0 PROVE g[k] = G[<<k, g[k - 1]>>]
    <3>1. CASE k = n + 1
      <4>1. k - 1 = n /\ g[n] = h[n]
        BY <3>1, <2>6
      <4> HIDE DEF g
      <4> QED
        BY <3>1, <4>1, <2>6
    <3>2. CASE k # n + 1
      <4>1. k \in 0..n /\ k - 1 \in 0..n
        BY <2>8, <3>2
      <4>2. h[k] = G[<<k, h[k - 1]>>]
        BY <4>1, <2>1, <2>8 DEF Begins
      <4> HIDE DEF g
      <4> QED
        BY <4>1, <4>2, <2>6
    <3> QED
      BY <3>1, <3>2
  <2> HIDE DEF g
  <2>9. Begins(g, n + 1, V, b, G)
    BY <2>5, <2>7, <2>8 DEF Begins
  <2> QED
    BY <2>9
<1> HIDE DEF T
<1>3. Nat \subseteq T
  BY <1>1, <1>2, AllNumbers
<1> QED
  BY <1>3 DEF T

\* Two computations agree on the steps both make.
LEMMA BeginsAlike ==
  ASSUME NEW V, NEW b \in V, NEW G \in [Nat \X V -> V],
         NEW n \in Nat, NEW m \in Nat, NEW g, NEW h,
         Begins(g, n, V, b, G), Begins(h, m, V, b, G),
         NEW k \in 0..n, k \in 0..m
  PROVE  g[k] = h[k]
<1> DEFINE T == {j \in Nat : j \in 0..n /\ j \in 0..m => g[j] = h[j]}
<1>1. 0 \in T
  BY DEF Begins
<1>2. ASSUME NEW j \in Nat, j \in T PROVE j + 1 \in T
  <2> SUFFICES ASSUME j + 1 \in 0..n, j + 1 \in 0..m PROVE g[j + 1] = h[j + 1]
    OBVIOUS
  <2>1. j \in 0..n /\ j \in 0..m /\ j + 1 # 0 /\ (j + 1) - 1 = j
    OBVIOUS
  <2>2. g[j] = h[j]
    BY <1>2, <2>1
  <2>3. g[j + 1] = G[<<j + 1, g[(j + 1) - 1]>>]
    BY <2>1 DEF Begins
  <2>4. h[j + 1] = G[<<j + 1, h[(j + 1) - 1]>>]
    BY <2>1 DEF Begins
  <2> QED
    BY <2>1, <2>2, <2>3, <2>4
<1> HIDE DEF T
<1>3. Nat \subseteq T
  BY <1>1, <1>2, AllNumbers
<1>4. k \in T
  BY <1>3
<1> QED
  BY <1>4 DEF T

\* f computes it for every number.
Computes(f, V, b, G) ==
  /\ f \in [Nat -> V] /\ f[0] = b
  /\ \A n \in Nat : n # 0 => f[n] = G[<<n, f[n - 1]>>]

\* So there is a function that does it for every number.
LEMMA Recursion ==
  ASSUME NEW V, NEW b \in V, NEW G \in [Nat \X V -> V]
  PROVE  \E f : Computes(f, V, b, G)
<1> DEFINE part(n) == CHOOSE h : Begins(h, n, V, b, G)
           f == [n \in Nat |-> part(n)[n]]
<1>1. \A n \in Nat : Begins(part(n), n, V, b, G)
  BY BeginsExists
<1> HIDE DEF part
<1>2. \A n \in Nat : part(n)[n] \in V
  BY <1>1 DEF Begins
<1>3. \A n \in Nat : f[n] = part(n)[n]
  OBVIOUS
<1>6. f \in [Nat -> V]
  BY <1>2, Zenon
<1>4. f[0] = b
  BY <1>1, <1>3 DEF Begins
<1>5. ASSUME NEW n \in Nat, n # 0 PROVE f[n] = G[<<n, f[n - 1]>>]
  <2>1. n - 1 \in Nat /\ n \in 0..n /\ n - 1 \in 0..n /\ n - 1 \in 0..(n - 1)
    BY <1>5
  <2>2. part(n)[n] = G[<<n, part(n)[n - 1]>>]
    BY <1>1, <1>5, <2>1 DEF Begins
  <2>3. Begins(part(n), n, V, b, G) /\ Begins(part(n - 1), n - 1, V, b, G)
    BY <1>1, <2>1
  <2>4. part(n)[n - 1] = part(n - 1)[n - 1]
    <3>1. PICK g, h, m, k : g = part(n) /\ h = part(n - 1) /\ m = n - 1 /\ k = n - 1
      OBVIOUS
    <3>2. m \in Nat /\ k \in 0..n /\ k \in 0..m
      BY <2>1, <3>1
    <3>3. Begins(g, n, V, b, G) /\ Begins(h, m, V, b, G)
      BY <2>3, <3>1
    <3>4. g[k] = h[k]
      BY <3>2, <3>3, BeginsAlike
    <3> QED
      BY <3>1, <3>4
  <2> HIDE DEF f
  <2> QED
    BY <1>3, <2>1, <2>2, <2>4
<1> HIDE DEF f
<1> QED
  BY <1>6, <1>4, <1>5 DEF Computes

\* A quotient of natural numbers is one.
LEMMA QuotientIsNat ==
  ASSUME NEW a \in Nat, NEW b \in Nat \ {0}
  PROVE  a \div b \in Nat
OBVIOUS

LEMMA ProductIsNat ==
  ASSUME NEW a \in Nat, NEW b \in Nat
  PROVE  a * b \in Nat
OBVIOUS

LEMMA GrownIsNat == Grown \in [Nat -> Nat]
<1> DEFINE G == [p \in Nat \X Nat |-> IF p[1] <= 1 THEN 100 * BaseDelay
                                     ELSE (p[2] * GrowNum) \div GrowDen]
           b == 100 * BaseDelay
           Is(g) == g = [n \in Nat |-> IF n <= 1 THEN 100 * BaseDelay
                                     ELSE (g[n - 1] * GrowNum) \div GrowDen]
<1>1. b \in Nat
  BY ConfigAssumption
<1>2. G \in [Nat \X Nat -> Nat]
  <2>1. ASSUME NEW p \in Nat \X Nat PROVE G[p] \in Nat
    <3>1. p[2] * GrowNum \in Nat /\ GrowDen \in Nat \ {0}
      BY ConfigAssumption, ProductIsNat
    <3>2. (p[2] * GrowNum) \div GrowDen \in Nat
      BY <3>1, QuotientIsNat
    <3> QED
      BY <3>2, <1>1
  <2> QED
    BY <2>1
<1>3. \A n, v \in Nat : G[<<n, v>>] = IF n <= 1 THEN b ELSE (v * GrowNum) \div GrowDen
  BY ConfigAssumption
<1> HIDE DEF G, b
<1>4. PICK f : Computes(f, Nat, b, G)
  BY <1>1, <1>2, Recursion
<1>5. Is(f)
  <2> USE DEF b, Computes
  <2>1. ASSUME NEW n \in Nat PROVE f[n] = IF n <= 1 THEN b ELSE (f[n - 1] * GrowNum) \div GrowDen
    <3>1. CASE n = 0
      BY <3>1, <1>4
    <3>2. CASE n # 0
      <4>1. n - 1 \in Nat /\ f[n - 1] \in Nat
        BY <3>2, <1>4
      <4> QED
        BY <4>1, <3>2, <1>3, <1>4
    <3> QED
      BY <3>1, <3>2
  <2> QED
    BY <2>1, <1>4
<1>6. Is(Grown)
  <2>1. Grown = CHOOSE g : Is(g)
    BY DEF Grown
  <2> HIDE DEF Is
  <2> QED
    BY <1>5, <2>1
<1>7. \A n \in Nat : Grown[n] = IF n <= 1 THEN b ELSE (Grown[n - 1] * GrowNum) \div GrowDen
  BY <1>6 DEF b
<1>8. Grown = [n \in Nat |-> Grown[n]]
  BY <1>6
<1> DEFINE T == {n \in Nat : Grown[n] \in Nat}
<1>9. 0 \in T
  BY <1>1, <1>7
<1>10. ASSUME NEW n \in Nat, n \in T PROVE n + 1 \in T
  <2>1. Grown[n] * GrowNum \in Nat /\ GrowDen \in Nat \ {0}
    BY <1>10, ConfigAssumption, ProductIsNat
  <2>2. (Grown[n] * GrowNum) \div GrowDen \in Nat
    BY <2>1, QuotientIsNat
  <2>3. n + 1 \in Nat /\ (n + 1) - 1 = n
    OBVIOUS
  <2>4. Grown[n + 1] \in Nat
    <3> HIDE DEF b
    <3> QED
      BY <1>1, <1>7, <2>2, <2>3
  <2> QED
    BY <2>4
<1> HIDE DEF T
<1>11. Nat \subseteq T
  BY <1>9, <1>10, AllNumbers
<1>12. \A n \in Nat : Grown[n] \in Nat
  BY <1>11 DEF T
<1> QED
  BY <1>8, <1>12

\* The delays: the smaller and the larger of two numbers, and the numbers in between.
LEMMA MinOfTwo ==
  ASSUME NEW x \in Nat, NEW y \in Nat
  PROVE  Min({x, y}) \in Nat
<1> DEFINE P(m) == m \in {x, y} /\ \A z \in {x, y} : m =< z
<1>1. \E m : P(m)
  OBVIOUS
<1>2. Min({x, y}) = CHOOSE m : P(m)
  BY DEF Min
<1>3. P(CHOOSE m : P(m))
  <2> HIDE DEF P
  <2> QED
    BY <1>1
<1> QED
  BY <1>2, <1>3

LEMMA MaxOfInterval ==
  ASSUME NEW lo \in Nat, NEW hi \in Nat, lo <= hi
  PROVE  Max(lo..hi) \in Nat /\ \A t \in lo..hi : t <= Max(lo..hi)
<1> DEFINE P(m) == m \in lo..hi /\ \A z \in lo..hi : m >= z
<1>1. P(hi)
  OBVIOUS
<1>2. Max(lo..hi) = CHOOSE m : P(m)
  BY DEF Max
<1>3. P(CHOOSE m : P(m))
  <2> HIDE DEF P
  <2> QED
    BY <1>1
<1>4. P(Max(lo..hi))
  BY <1>2, <1>3
<1> QED
  BY <1>4

LEMMA WaitBounds ==
  ASSUME NEW n \in Nat
  PROVE  /\ WaitTicks(n) \subseteq Nat /\ Max(WaitTicks(n)) \in Nat
         /\ \A t \in WaitTicks(n) : t <= Max(WaitTicks(n))
<1>1. Delay(n) \in Nat
  <2>1. Grown[n] \in Nat /\ 100 * MaxDelay \in Nat
    BY GrownIsNat, ConfigAssumption
  <2> QED
    BY <2>1, MinOfTwo DEF Delay
<1>2. PICK lo, hi : lo = (9 * Delay(n) + 999) \div 1000 /\ hi = (11 * Delay(n) + 999) \div 1000
  OBVIOUS
<1>3. lo \in Nat /\ hi \in Nat /\ lo <= hi
  BY <1>1, <1>2
<1>4. WaitTicks(n) = lo..hi
  BY <1>2 DEF WaitTicks
<1>5. Max(lo..hi) \in Nat /\ \A t \in lo..hi : t <= Max(lo..hi)
  BY <1>3, MaxOfInterval
<1>6. lo..hi \subseteq Nat
  BY <1>3
<1> QED
  BY <1>4, <1>5, <1>6

\* The latest start of an attempt obeys its recursion.
LatestGoesOn ==
  /\ LatestStart \in [Nat -> Nat]
  /\ LatestStart[0] = 0 /\ LatestStart[1] = AskTicks
  /\ \A n \in Nat : n # 0 =>
       LatestStart[n + 1] = LatestStart[n] + AskTicks + Max(WaitTicks(n))

LEMMA LatestStartProps == LatestGoesOn
<1> DEFINE wait(n) == Max(WaitTicks(n))
           G == [p \in Nat \X Nat |-> IF p[1] <= 1 THEN p[1] * AskTicks
                                     ELSE p[2] + AskTicks + wait(p[1] - 1)]
           Is(g) == g = [n \in Nat |-> IF n <= 1 THEN n * AskTicks
                                     ELSE g[n - 1] + AskTicks + wait(n - 1)]
<1>1. AskTicks \in Nat /\ \A n \in Nat : wait(n) \in Nat
  BY WaitBounds, ConfigAssumption
<1>2. Is(LatestStart)
  <2>1. LatestStart = CHOOSE g : Is(g)
    BY DEF LatestStart
  <2> HIDE DEF wait
  <2>2. G \in [Nat \X Nat -> Nat]
    <3>1. ASSUME NEW p \in Nat \X Nat PROVE G[p] \in Nat
      <4>1. CASE p[1] <= 1
        <5>1. G[p] = p[1] * AskTicks
          BY <4>1
        <5> HIDE DEF G
        <5> QED
          BY <1>1, <5>1, ProductIsNat
      <4>2. CASE ~(p[1] <= 1)
        <5>1. G[p] = p[2] + AskTicks + wait(p[1] - 1)
          BY <4>2
        <5>2. p[1] - 1 \in Nat /\ p[2] \in Nat
          BY <4>2
        <5>3. wait(p[1] - 1) \in Nat
          BY <1>1, <5>2
        <5> HIDE DEF G
        <5> QED
          BY <1>1, <5>1, <5>2, <5>3
      <4> QED
        BY <4>1, <4>2
    <3> QED
      BY <3>1
  <2>3. \A n, v \in Nat : G[<<n, v>>] = IF n <= 1 THEN n * AskTicks ELSE v + AskTicks + wait(n - 1)
    OBVIOUS
  <2> HIDE DEF G
  <2>4. PICK f : Computes(f, Nat, 0, G)
    BY <2>2, Recursion
  <2>5. f \in [Nat -> Nat] /\ f[0] = 0 /\ \A n \in Nat : n # 0 => f[n] = G[<<n, f[n - 1]>>]
    BY <2>4 DEF Computes
  <2>6. ASSUME NEW n \in Nat
        PROVE  f[n] = IF n <= 1 THEN n * AskTicks ELSE f[n - 1] + AskTicks + wait(n - 1)
    <3>1. CASE n = 0
      BY <1>1, <3>1, <2>5
    <3>2. CASE n # 0
      <4>1. n - 1 \in Nat /\ f[n - 1] \in Nat
        BY <3>2, <2>5
      <4> QED
        BY <4>1, <3>2, <2>3, <2>5
    <3> QED
      BY <3>1, <3>2
  <2>7. Is(f)
    BY <2>5, <2>6
  <2> HIDE DEF Is
  <2> QED
    BY <2>1, <2>7
<1>3. \A n \in Nat : LatestStart[n] = IF n <= 1 THEN n * AskTicks
                                     ELSE LatestStart[n - 1] + AskTicks + wait(n - 1)
  BY <1>2
<1>4. LatestStart = [n \in Nat |-> LatestStart[n]]
  BY <1>2
<1> HIDE DEF Is, wait
<1>5. LatestStart[0] = 0 /\ LatestStart[1] = AskTicks
  BY <1>1, <1>3
<1>6. ASSUME NEW n \in Nat, n # 0
      PROVE  LatestStart[n + 1] = LatestStart[n] + AskTicks + wait(n)
  <2>1. n + 1 \in Nat /\ ~(n + 1 <= 1) /\ (n + 1) - 1 = n
    BY <1>6
  <2> QED
    BY <1>3, <2>1
<1> DEFINE T == {n \in Nat : LatestStart[n] \in Nat}
<1>7. 0 \in T
  BY <1>5
<1>8. ASSUME NEW n \in Nat, n \in T PROVE n + 1 \in T
  <2>1. CASE n = 0
    BY <1>1, <1>5, <2>1
  <2>2. CASE n # 0
    BY <1>1, <1>6, <1>8, <2>2
  <2> QED
    BY <2>1, <2>2
<1> HIDE DEF T
<1>9. Nat \subseteq T
  BY <1>7, <1>8, AllNumbers
<1>10. \A n \in Nat : LatestStart[n] \in Nat
  BY <1>9 DEF T
<1>11. LatestStart \in [Nat -> Nat]
  BY <1>4, <1>10
<1> QED
  BY <1>5, <1>6, <1>11 DEF LatestGoesOn, wait

\* A later attempt starts no earlier.
LEMMA LatestGrows ==
  ASSUME NEW n \in Nat, NEW m \in Nat, n <= m
  PROVE  LatestStart[n] <= LatestStart[m]
<1> DEFINE T == {d \in Nat : LatestStart[n] <= LatestStart[n + d]}
<1>1. \A k \in Nat : LatestStart[k] \in Nat /\ LatestStart[k] <= LatestStart[k + 1]
  <2> TAKE k \in Nat
  <2>1. LatestStart[k] \in Nat /\ Max(WaitTicks(k)) \in Nat /\ AskTicks \in Nat
    BY LatestStartProps, WaitBounds, ConfigAssumption DEF LatestGoesOn
  <2>2. CASE k = 0
    BY <2>1, <2>2, LatestStartProps DEF LatestGoesOn
  <2>3. CASE k # 0
    BY <2>1, <2>3, LatestStartProps DEF LatestGoesOn
  <2> QED
    BY <2>1, <2>2, <2>3
<1>2. 0 \in T
  BY <1>1
<1>3. ASSUME NEW d \in Nat, d \in T PROVE d + 1 \in T
  <2>1. n + d \in Nat /\ (n + d) + 1 = n + (d + 1)
    OBVIOUS
  <2>2. LatestStart[n + d] \in Nat /\ LatestStart[n + d] <= LatestStart[(n + d) + 1]
        /\ LatestStart[(n + d) + 1] \in Nat /\ LatestStart[n] \in Nat
    BY <1>1, <2>1
  <2> QED
    BY <1>3, <2>1, <2>2
<1> HIDE DEF T
<1>4. Nat \subseteq T
  BY <1>2, <1>3, AllNumbers
<1>5. m - n \in T /\ n + (m - n) = m
  BY <1>4
<1> QED
  BY <1>5 DEF T

--------------------------------------------------------------------------------
\* Turns of the check's timer.
Turns(k) == k * Period

LEMMA TurnsProps ==
  ASSUME NEW k \in Nat
  PROVE  /\ Turns(k) \in Nat /\ Turns(k + 1) = Turns(k) + Period
         /\ Turns(0) = 0
  BY ConfigAssumption DEF Turns

\* As many turns as a stretch of time holds.
LEMMA TurnsIn ==
  ASSUME NEW k \in Nat, NEW t \in Nat, Turns(k) <= t
  PROVE  k <= t \div Period
<1> DEFINE q == t \div Period
<1>1. Period \in Nat \ {0}
  BY ConfigAssumption
<1>2. q \in Nat /\ t < (q + 1) * Period
  BY <1>1
<1> HIDE DEF q
<1> SUFFICES ASSUME q < k PROVE FALSE
  BY <1>2 DEF q
<1>3. PICK d \in Nat : k = (q + 1) + d
  <2>1. k - (q + 1) \in Nat /\ k = (q + 1) + (k - (q + 1))
    BY <1>2
  <2> QED
    BY <2>1
<1>4. k * Period = (q + 1) * Period + d * Period
  BY <1>1, <1>2, <1>3
<1>5. d * Period \in Nat /\ (q + 1) * Period \in Nat
  BY <1>1, <1>2
<1> QED
  BY <1>2, <1>4, <1>5 DEF Turns

--------------------------------------------------------------------------------
\* Every element of a sequence is one of its set.
LEMMA ElementIn ==
  ASSUME NEW S, NEW q \in Seq(S)
  PROVE  DOMAIN q = 1..Len(q) /\ Len(q) \in Nat /\ \A k \in DOMAIN q : q[k] \in S
OBVIOUS

\* What RemoveAt leaves: the elements before the position, and those after it one place on.
Without(r, q, k, S) ==
  /\ r \in Seq(S) /\ Len(r) = Len(q) - 1 /\ DOMAIN r = 1..(Len(q) - 1)
  /\ \A i \in 1..(k - 1) : r[i] = q[i]
  /\ \A i \in k..(Len(q) - 1) : r[i] = q[i + 1]

LEMMA RemoveAtProps ==
  ASSUME NEW S, NEW q \in Seq(S), NEW k \in DOMAIN q
  PROVE  Without(RemoveAt(q, k), q, k, S)
<1> DEFINE a == SubSeq(q, 1, k - 1)
           b == SubSeq(q, k + 1, Len(q))
           r == RemoveAt(q, k)
<1>0. DOMAIN q = 1..Len(q) /\ Len(q) \in Nat /\ k \in 1..Len(q)
  OBVIOUS
<1>1. /\ a \in Seq(S) /\ Len(a) = k - 1
      /\ \A i \in 1..(k - 1) : a[i] = q[i]
  BY <1>0
<1>2. /\ b \in Seq(S) /\ Len(b) = Len(q) - k
      /\ \A i \in 1..(Len(q) - k) : b[i] = q[k + i]
  BY <1>0
<1>3. r = a \o b
  BY DEF RemoveAt
<1> HIDE DEF a, b, r
<1>4. Len(a) + Len(b) = Len(q) - 1
  BY <1>0, <1>1, <1>2
<1>5. r \in Seq(S) /\ Len(r) = Len(q) - 1
  BY <1>1, <1>2, <1>3, <1>4
<1>6. DOMAIN r = 1..(Len(q) - 1)
  BY <1>5
<1>7. ASSUME NEW i \in 1..(k - 1) PROVE r[i] = q[i]
  <2>1. i \in 1..Len(a)
    BY <1>1, <1>7
  <2>2. (a \o b)[i] = a[i]
    BY <1>1, <1>2, <2>1
  <2> QED
    BY <1>1, <1>3, <2>2
<1>8. ASSUME NEW i \in k..(Len(q) - 1) PROVE r[i] = q[i + 1]
  <2>1. PICK j : j = i - (k - 1)
    OBVIOUS
  <2>2. Len(a) + j = i /\ k + j = i + 1 /\ j \in 1..(Len(q) - k)
    <3>1. Len(a) = k - 1
      BY <1>1
    <3> QED
      BY <1>0, <1>8, <2>1, <3>1
  <2>3. (a \o b)[Len(a) + j] = b[j]
    <3>1. a \in Seq(S) /\ b \in Seq(S) /\ j \in 1..Len(b)
      BY <1>1, <1>2, <2>2
    <3>2. \A m \in 1..Len(b) : (a \o b)[Len(a) + m] = b[m]
      BY <3>1
    <3> QED
      BY <3>1, <3>2
  <2>4. b[j] = q[k + j]
    BY <1>2, <2>2
  <2> QED
    BY <1>3, <2>2, <2>3, <2>4
<1> QED
  BY <1>5, <1>6, <1>7, <1>8 DEF Without, r

--------------------------------------------------------------------------------
\* The invariant.

\* The longest that can have passed since the check p comes from.
Spent(p) ==
  LatestStart[p.attempt] + AskTicks
    + (IF p.doing = "asking" THEN 0 ELSE Max(WaitTicks(p.attempt))) - p.left

\* A process is well typed; between two attempts there is a next one.
ProcOK(p) ==
  /\ p \in Process
  /\ p.kind = "start" => p.attempt # 0
  /\ p.doing = "waiting" => p.attempt \in 1..(MaxRetries - 1)

\* The start-up has not come to its end.
Looking(ps, cs, hs) == Len(ps) = 1 /\ ps[1].kind = "start" /\ Len(cs) = 0 /\ Len(hs) = 0

\* It has, without a database; or the process is gone.
Quit(ps, cs, hs) == Len(ps) = 0 /\ Len(cs) = 0 /\ Len(hs) <= 1

\* The database was found: one timer starts checks, and a callback that has k younger ones
\* after it has been there for k of its turns and for what has passed of this one.
Checking(ps, cs, hs) ==
  /\ Len(cs) = 1 /\ Len(hs) <= 1
  /\ \A i \in DOMAIN ps : ps[i].kind = "check"
  /\ \A i \in DOMAIN ps : Turns(Len(ps) - i) + (Period - cs[1]) <= Spent(ps[i])

Typed(ps, cs, hs) ==
  /\ ps \in Seq(Process) /\ cs \in Seq(0..Period) /\ hs \in Seq(0..Period)
  /\ \A i \in DOMAIN ps : ProcOK(ps[i])

Sound(ps, cs, hs) ==
  Typed(ps, cs, hs) /\ (Looking(ps, cs, hs) \/ Quit(ps, cs, hs) \/ Checking(ps, cs, hs))

IInv ==
  /\ up \in BOOLEAN /\ flips \in 0..MaxFlips /\ stage \in {"running", "closing", "exited"}
  /\ Sound(procs, checks, health)

LEMMA SpentIsInt ==
  ASSUME NEW p, ProcOK(p)
  PROVE  /\ Spent(p) \in Int /\ Spent(p) <= LongestLoop
         /\ p.attempt \in 0..MaxRetries /\ p.left \in Nat
         /\ LatestStart[p.attempt] \in Nat /\ Max(WaitTicks(p.attempt)) \in Nat
<1>1. /\ p.attempt \in 0..MaxRetries /\ p.left \in Nat /\ MaxRetries \in Nat /\ AskTicks \in Nat
      /\ p.doing \in {"asking", "waiting"}
  BY ConfigAssumption DEF ProcOK, Process
<1>2. PICK n : n = p.attempt
  OBVIOUS
<1>3. n \in Nat /\ n <= MaxRetries
  BY <1>1, <1>2
<1>4. LatestStart[n] \in Nat /\ Max(WaitTicks(n)) \in Nat /\ LatestStart[MaxRetries] \in Nat
  BY <1>1, <1>3, WaitBounds, LatestStartProps DEF LatestGoesOn
<1>5. Spent(p) \in Int
  BY <1>1, <1>2, <1>4 DEF Spent
<1>6. CASE p.doing = "asking"
  <2>1. LatestStart[n] <= LatestStart[MaxRetries]
    BY <1>1, <1>3, LatestGrows
  <2> QED
    BY <1>1, <1>2, <1>4, <1>6, <2>1 DEF Spent, LongestLoop
<1>7. CASE p.doing # "asking"
  <2>1. n # 0 /\ n + 1 \in Nat /\ n + 1 <= MaxRetries
    BY <1>1, <1>2, <1>7 DEF ProcOK
  <2>2. LatestStart[n + 1] = LatestStart[n] + AskTicks + Max(WaitTicks(n))
    BY <1>3, <2>1, LatestStartProps DEF LatestGoesOn
  <2>3. LatestStart[n + 1] <= LatestStart[MaxRetries]
    BY <1>1, <2>1, LatestGrows
  <2> QED
    BY <1>1, <1>2, <1>4, <1>7, <2>2, <2>3 DEF Spent, LongestLoop
<1> QED
  BY <1>1, <1>2, <1>4, <1>5, <1>6, <1>7

\* What the lengths and the elements are.
LEMMA Sizes ==
  ASSUME NEW ps, NEW cs, NEW hs, Typed(ps, cs, hs)
  PROVE  /\ Len(ps) \in Nat /\ Len(cs) \in Nat /\ Len(hs) \in Nat
         /\ DOMAIN ps = 1..Len(ps) /\ DOMAIN cs = 1..Len(cs) /\ DOMAIN hs = 1..Len(hs)
         /\ \A i \in DOMAIN ps : ps[i] \in Process /\ ProcOK(ps[i])
         /\ \A k \in DOMAIN cs : cs[k] \in 0..Period
         /\ \A k \in DOMAIN hs : hs[k] \in 0..Period
<1>1. ps \in Seq(Process) /\ cs \in Seq(0..Period) /\ hs \in Seq(0..Period)
  BY DEF Typed
<1>2. Len(ps) \in Nat /\ DOMAIN ps = 1..Len(ps) /\ \A i \in DOMAIN ps : ps[i] \in Process
  BY <1>1, ElementIn
<1>3. Len(cs) \in Nat /\ DOMAIN cs = 1..Len(cs) /\ \A k \in DOMAIN cs : cs[k] \in 0..Period
  BY <1>1, ElementIn
<1>4. Len(hs) \in Nat /\ DOMAIN hs = 1..Len(hs) /\ \A k \in DOMAIN hs : hs[k] \in 0..Period
  BY <1>1, ElementIn
<1> QED
  BY <1>2, <1>3, <1>4 DEF Typed

\* The invariant bounds the loops and the timers.
LEMMA BoundedByAge ==
  ASSUME IInv
  PROVE  TypeOK /\ AttemptsBounded
<1>1. LongestLoop \in Nat /\ Period \in Nat \ {0}
  BY ConfigAssumption, LatestStartProps DEF LongestLoop, LatestGoesOn
<1>2. LongestLoop \div Period \in Nat
  BY <1>1
<1>3. /\ Len(procs) \in Nat /\ Len(checks) \in Nat /\ Len(health) \in Nat
      /\ DOMAIN procs = 1..Len(procs) /\ DOMAIN checks = 1..Len(checks)
      /\ \A i \in DOMAIN procs : ProcOK(procs[i])
      /\ \A k \in DOMAIN checks : checks[k] \in 0..Period
  <2>1. Typed(procs, checks, health)
    BY DEF IInv, Sound
  <2> QED
    BY <2>1, Sizes
<1>4. TypeOK
  BY DEF IInv, Sound, Typed, ProcOK, TypeOK
<1>5. Len(checks) + Len(health) <= 2
  BY <1>3 DEF IInv, Sound, Looking, Quit, Checking
<1>6. Len(procs) <= LongestLoop \div Period + 1
  <2>1. CASE Len(procs) <= 1
    BY <1>2, <1>3, <2>1
  <2>2. CASE ~(Len(procs) <= 1)
    <3>1. Checking(procs, checks, health)
      BY <1>3, <2>2 DEF IInv, Sound, Looking, Quit
    <3>2. 1 \in DOMAIN procs /\ Len(procs) - 1 \in Nat /\ 1 \in DOMAIN checks
      BY <1>3, <2>2, <3>1 DEF Checking
    <3>3. ProcOK(procs[1]) /\ Turns(Len(procs) - 1) + (Period - checks[1]) <= Spent(procs[1])
      BY <1>3, <3>1, <3>2 DEF Checking
    <3>4. checks[1] \in 0..Period
      BY <1>3, <3>2
    <3>5. Spent(procs[1]) \in Int /\ Spent(procs[1]) <= LongestLoop
      BY <3>3, SpentIsInt
    <3>6. Turns(Len(procs) - 1) \in Nat
      BY <3>2, TurnsProps
    <3>7. Turns(Len(procs) - 1) <= LongestLoop
      BY <1>1, <3>3, <3>4, <3>5, <3>6
    <3>8. Len(procs) - 1 <= LongestLoop \div Period
      BY <1>1, <3>2, <3>7, TurnsIn
    <3> QED
      BY <1>2, <1>3, <3>8
  <2> QED
    BY <2>1, <2>2
<1> QED
  BY <1>4, <1>5, <1>6 DEF AttemptsBounded

--------------------------------------------------------------------------------
\* The invariant holds at the start.
LEMMA InitSound == Init => IInv
<1> SUFFICES ASSUME Init PROVE IInv
  OBVIOUS
<1>1. MaxRetries \in Nat /\ AskTicks \in Nat /\ Period \in Nat /\ MaxFlips \in Nat
  BY ConfigAssumption
<1>2. up \in BOOLEAN /\ flips \in 0..MaxFlips /\ stage \in {"running", "closing", "exited"}
  BY <1>1 DEF Init
<1>3. CASE MaxRetries = 0
  <2>1. procs = <<>> /\ checks = <<>> /\ health = <<Period>>
    BY <1>3 DEF Init, StartUp
  <2>2. Period \in 0..Period
    BY <1>1
  <2>3. Typed(procs, checks, health)
    BY <2>1, <2>2 DEF Typed
  <2>4. Quit(procs, checks, health)
    BY <2>1 DEF Quit
  <2> QED
    BY <1>2, <2>3, <2>4 DEF IInv, Sound
<1>4. CASE MaxRetries # 0
  <2>1. procs = <<Asking("start", 1)>> /\ checks = <<>> /\ health = <<>>
    BY <1>4 DEF Init, StartUp
  <2>2. PICK p : p = Asking("start", 1)
    OBVIOUS
  <2>3. ProcOK(p) /\ p.kind = "start"
    BY <1>1, <1>4, <2>2 DEF Asking, ProcOK, Process
  <2>4. p \in Process
    BY <2>3 DEF ProcOK
  <2>5. procs = <<p>>
    BY <2>1, <2>2
  <2>6. Typed(procs, checks, health)
    BY <2>1, <2>3, <2>4, <2>5 DEF Typed
  <2>7. Looking(procs, checks, health)
    BY <2>1, <2>3, <2>5 DEF Looking
  <2> QED
    BY <1>2, <2>6, <2>7 DEF IInv, Sound
<1> QED
  BY <1>3, <1>4

\* A process that goes on to what takes no less of its time leaves the state sound.
LEMMA GoesOn ==
  ASSUME NEW ps, NEW cs, NEW hs, Sound(ps, cs, hs), NEW i \in DOMAIN ps, NEW q,
         ProcOK(q), q.kind = ps[i].kind, Spent(ps[i]) <= Spent(q)
  PROVE  Sound([ps EXCEPT ![i] = q], cs, hs)
<1>1. PICK r : r = [ps EXCEPT ![i] = q]
  OBVIOUS
<1>2. Typed(ps, cs, hs)
  BY DEF Sound
<1>3. /\ Len(ps) \in Nat /\ DOMAIN ps = 1..Len(ps) /\ Len(cs) \in Nat /\ DOMAIN cs = 1..Len(cs)
      /\ \A j \in DOMAIN ps : ps[j] \in Process /\ ProcOK(ps[j])
      /\ \A k \in DOMAIN cs : cs[k] \in 0..Period
  BY <1>2, Sizes
<1>4. q \in Process
  BY DEF ProcOK
<1>5. r \in Seq(Process) /\ Len(r) = Len(ps) /\ DOMAIN r = DOMAIN ps
  BY <1>1, <1>2, <1>4 DEF Typed
<1>6. r[i] = q /\ \A j \in DOMAIN ps : j # i => r[j] = ps[j]
  BY <1>1
<1>7. Typed(r, cs, hs)
  BY <1>2, <1>3, <1>5, <1>6 DEF Typed
<1>8. \A j \in DOMAIN ps : r[j].kind = ps[j].kind
  BY <1>6
<1>9. ASSUME Checking(ps, cs, hs) PROVE Checking(r, cs, hs)
  <2>1. 1 \in DOMAIN cs
    BY <1>3, <1>9 DEF Checking
  <2>2. ASSUME NEW j \in DOMAIN ps
        PROVE  Turns(Len(ps) - j) + (Period - cs[1]) <= Spent(r[j])
    <3>1. Turns(Len(ps) - j) + (Period - cs[1]) <= Spent(ps[j])
      BY <1>9 DEF Checking
    <3>2. CASE j = i
      <4>1. Spent(q) \in Int /\ Spent(ps[i]) \in Int
        BY <1>3, SpentIsInt
      <4>2. Len(ps) - j \in Nat
        BY <1>3
      <4>3. Turns(Len(ps) - j) \in Nat
        BY <4>2, TurnsProps
      <4>4. cs[1] \in Int /\ Period \in Int
        BY <1>3, <2>1, ConfigAssumption
      <4> QED
        BY <1>6, <3>1, <3>2, <4>1, <4>3, <4>4
    <3>3. CASE j # i
      BY <1>6, <3>1, <3>3
    <3> QED
      BY <3>2, <3>3
  <2> QED
    BY <1>5, <1>8, <1>9, <2>2 DEF Checking
<1>10. ASSUME Looking(ps, cs, hs) PROVE Looking(r, cs, hs)
  BY <1>3, <1>5, <1>8, <1>10 DEF Looking
<1>11. ASSUME Quit(ps, cs, hs) PROVE FALSE
  BY <1>3, <1>11 DEF Quit
<1> QED
  BY <1>1, <1>7, <1>9, <1>10, <1>11 DEF Sound

\* So does one that comes to its end.
LEMMA Ends ==
  ASSUME NEW ps, NEW cs, NEW hs, Sound(ps, cs, hs), NEW i \in DOMAIN ps, ps[i].kind = "check"
  PROVE  Sound(RemoveAt(ps, i), cs, hs)
<1>1. PICK r : r = RemoveAt(ps, i)
  OBVIOUS
<1>2. Typed(ps, cs, hs)
  BY DEF Sound
<1>3. /\ Len(ps) \in Nat /\ DOMAIN ps = 1..Len(ps) /\ Len(cs) \in Nat /\ DOMAIN cs = 1..Len(cs)
      /\ \A j \in DOMAIN ps : ps[j] \in Process /\ ProcOK(ps[j])
      /\ \A k \in DOMAIN cs : cs[k] \in 0..Period
  BY <1>2, Sizes
<1>4. ps \in Seq(Process)
  BY <1>2 DEF Typed
<1>5. Without(r, ps, i, Process)
  BY <1>1, <1>4, RemoveAtProps
<1>6. r \in Seq(Process) /\ Len(r) = Len(ps) - 1 /\ DOMAIN r = 1..(Len(ps) - 1)
  BY <1>5 DEF Without
<1>7. ASSUME NEW j \in DOMAIN r
      PROVE  \E k \in DOMAIN ps : r[j] = ps[k] /\ (k = j \/ k = j + 1)
  <2>1. CASE j < i
    BY <1>3, <1>5, <1>6, <2>1 DEF Without
  <2>2. CASE ~(j < i)
    <3>1. j \in i..(Len(ps) - 1) /\ j + 1 \in DOMAIN ps
      BY <1>3, <1>6, <2>2
    <3>2. r[j] = ps[j + 1]
      BY <1>5, <3>1 DEF Without
    <3> QED
      BY <3>1, <3>2
  <2> QED
    BY <2>1, <2>2
<1>8. \A j \in DOMAIN r : ProcOK(r[j])
  BY <1>3, <1>7
<1>9. Typed(r, cs, hs)
  BY <1>2, <1>6, <1>8 DEF Typed
<1>10. Checking(ps, cs, hs)
  <2>1. ~Quit(ps, cs, hs)
    BY <1>3 DEF Quit
  <2>2. ~Looking(ps, cs, hs)
    BY <1>3 DEF Looking
  <2> QED
    BY <2>1, <2>2 DEF Sound
<1>11. ASSUME NEW j \in DOMAIN r
       PROVE  Turns(Len(r) - j) + (Period - cs[1]) <= Spent(r[j])
  <2>1. PICK k \in DOMAIN ps : r[j] = ps[k] /\ (k = j \/ k = j + 1)
    BY <1>7
  <2>2. Turns(Len(ps) - k) + (Period - cs[1]) <= Spent(ps[k])
    BY <1>10 DEF Checking
  <2>3. 1 \in DOMAIN cs
    BY <1>3, <1>10 DEF Checking
  <2>4. cs[1] \in Int /\ Period \in Nat /\ Spent(ps[k]) \in Int
    BY <1>3, <2>3, SpentIsInt, ConfigAssumption
  <2>5. Len(r) - j \in Nat
    BY <1>3, <1>6
  <2>6. Turns(Len(r) - j) \in Nat /\ Turns((Len(r) - j) + 1) = Turns(Len(r) - j) + Period
    BY <2>5, TurnsProps
  <2>7. CASE k = j
    <3>1. Len(ps) - k = (Len(r) - j) + 1
      BY <1>3, <1>6, <2>7
    <3> QED
      BY SMTT(30), <2>1, <2>2, <2>4, <2>6, <3>1
  <2>8. CASE k = j + 1
    <3>1. Len(ps) - k = Len(r) - j
      BY <1>3, <1>6, <2>8
    <3> QED
      BY <2>1, <2>2, <3>1
  <2> QED
    BY <2>1, <2>7, <2>8
<1>12. Checking(r, cs, hs)
  BY <1>7, <1>10, <1>11 DEF Checking
<1> QED
  BY <1>1, <1>9, <1>12 DEF Sound

\* The end of the start-up, with the database or without it.
LEMMA StartEnds ==
  ASSUME NEW ps, NEW cs, NEW hs, Sound(ps, cs, hs), NEW i \in DOMAIN ps, ps[i].kind = "start"
  PROVE  /\ Sound(RemoveAt(ps, i), Append(cs, Period), Append(hs, Period))
         /\ Sound(RemoveAt(ps, i), cs, Append(hs, Period))
<1>1. PICK r, c, h : r = RemoveAt(ps, i) /\ c = Append(cs, Period) /\ h = Append(hs, Period)
  OBVIOUS
<1>2. Typed(ps, cs, hs)
  BY DEF Sound
<1>3. /\ Len(ps) \in Nat /\ DOMAIN ps = 1..Len(ps) /\ Len(cs) \in Nat /\ Len(hs) \in Nat
  BY <1>2, Sizes
<1>4. ps \in Seq(Process) /\ cs \in Seq(0..Period) /\ hs \in Seq(0..Period) /\ Period \in 0..Period
  BY <1>2, ConfigAssumption DEF Typed
<1>5. Looking(ps, cs, hs)
  <2>1. ~Quit(ps, cs, hs)
    BY <1>3 DEF Quit
  <2>2. ~Checking(ps, cs, hs)
    BY <1>3 DEF Checking
  <2> QED
    BY <2>1, <2>2 DEF Sound
<1>6. Without(r, ps, i, Process)
  BY <1>1, <1>4, RemoveAtProps
<1>7. r \in Seq(Process) /\ Len(r) = 0 /\ DOMAIN r = {}
  BY <1>3, <1>5, <1>6 DEF Without, Looking
<1>8. c \in Seq(0..Period) /\ Len(c) = 1
  BY <1>1, <1>3, <1>4, <1>5 DEF Looking
<1>9. h \in Seq(0..Period) /\ Len(h) = 1
  BY <1>1, <1>3, <1>4, <1>5 DEF Looking
<1>10. Typed(r, c, h) /\ Typed(r, cs, h)
  BY <1>4, <1>7, <1>8, <1>9 DEF Typed
<1>11. Checking(r, c, h)
  BY <1>7, <1>8, <1>9 DEF Checking
<1>12. Quit(r, cs, h)
  BY <1>5, <1>7, <1>9 DEF Quit, Looking
<1> QED
  BY <1>1, <1>10, <1>11, <1>12 DEF Sound

\* A check starts when its timer is due: the callbacks already there are one turn older.
LEMMA CheckStarts ==
  ASSUME NEW ps, NEW cs, NEW hs, Sound(ps, cs, hs), NEW k \in DOMAIN cs, cs[k] = 0
  PROVE  Sound(Append(ps, Asking("check", 0)), RemoveAt(cs, k) \o Armed, hs)
<1>1. PICK r, c, q : r = Append(ps, q) /\ c = RemoveAt(cs, k) \o Armed /\ q = Asking("check", 0)
  OBVIOUS
<1>2. Typed(ps, cs, hs)
  BY DEF Sound
<1>3. /\ Len(ps) \in Nat /\ DOMAIN ps = 1..Len(ps) /\ Len(cs) \in Nat /\ DOMAIN cs = 1..Len(cs)
      /\ \A j \in DOMAIN ps : ps[j] \in Process /\ ProcOK(ps[j])
  BY <1>2, Sizes
<1>4. Checking(ps, cs, hs)
  <2>1. Len(cs) # 0
    BY <1>3
  <2> QED
    BY <2>1 DEF Sound, Looking, Quit
<1>5. /\ ps \in Seq(Process) /\ cs \in Seq(0..Period) /\ Period \in Nat /\ AskTicks \in Nat
      /\ MaxRetries \in Nat
  BY <1>2, ConfigAssumption DEF Typed
<1>6. ProcOK(q) /\ q.kind = "check" /\ Spent(q) = LatestStart[0] + AskTicks - AskTicks
  <2>1. /\ q \in Process /\ q.kind = "check" /\ q.doing = "asking"
        /\ q.attempt = 0 /\ q.left = AskTicks
    BY <1>1, <1>5 DEF Asking, Process
  <2>2. ProcOK(q)
    BY <2>1 DEF ProcOK
  <2>3. Spent(q) = LatestStart[0] + AskTicks + 0 - AskTicks
    BY <2>1 DEF Spent
  <2>4. LatestStart[0] = 0
    BY LatestStartProps DEF LatestGoesOn
  <2> QED
    BY <1>5, <2>1, <2>2, <2>3, <2>4
<1>7. Spent(q) = 0
  BY <1>5, <1>6, LatestStartProps DEF LatestGoesOn
<1>8. c \in Seq(0..Period) /\ Len(c) = 1 /\ c[1] = Period
  <2>1. k = 1 /\ Len(cs) = 1
    BY <1>3, <1>4 DEF Checking
  <2>2. Without(RemoveAt(cs, k), cs, k, 0..Period)
    BY <1>5, RemoveAtProps
  <2>3. PICK a : a = RemoveAt(cs, k)
    OBVIOUS
  <2>4. a \in Seq(0..Period) /\ Len(a) = 0
    BY <2>1, <2>2, <2>3 DEF Without
  <2>5. a = <<>>
    BY <2>4
  <2>6. c = <<Period>>
    BY <1>1, <2>3, <2>5 DEF Armed
  <2>7. Period \in 0..Period
    BY <1>5
  <2> QED
    BY <2>6, <2>7
<1>9. q \in Process
  BY <1>6 DEF ProcOK
<1>10. r \in Seq(Process) /\ Len(r) = Len(ps) + 1 /\ DOMAIN r = 1..(Len(ps) + 1)
  BY <1>1, <1>3, <1>5, <1>9
<1>11. r[Len(ps) + 1] = q /\ \A j \in 1..Len(ps) : r[j] = ps[j]
  BY <1>1, <1>3, <1>5
<1>12. \A j \in DOMAIN r : j \in DOMAIN ps \/ j = Len(ps) + 1
  BY <1>3, <1>10
<1>13. Typed(r, c, hs)
  <2>1. \A j \in DOMAIN r : ProcOK(r[j])
    BY <1>3, <1>6, <1>11, <1>12
  <2> QED
    BY <1>2, <1>8, <1>10, <2>1 DEF Typed
<1>14. ASSUME NEW j \in DOMAIN r
       PROVE  r[j].kind = "check" /\ Turns(Len(r) - j) + (Period - c[1]) <= Spent(r[j])
  <2>1. CASE j = Len(ps) + 1
    <3>1. r[j].kind = "check" /\ Spent(r[j]) = 0
      BY <1>6, <1>7, <1>11, <2>1
    <3>2. Len(r) - j = 0 /\ Turns(0) = 0
      BY <1>3, <1>10, <2>1, TurnsProps
    <3> QED
      BY <1>5, <1>8, <3>1, <3>2
  <2>2. CASE j \in DOMAIN ps
    <3>1. r[j] = ps[j] /\ r[j].kind = "check"
      BY <1>3, <1>4, <1>11, <2>2 DEF Checking
    <3>2. Turns(Len(ps) - j) + (Period - cs[1]) <= Spent(ps[j])
      BY <1>4, <2>2 DEF Checking
    <3>3. cs[1] = 0
      BY <1>3, <1>4 DEF Checking
    <3>4. Len(ps) - j \in Nat /\ Len(r) - j = (Len(ps) - j) + 1
      BY <1>3, <1>10, <2>2
    <3>5. Turns(Len(ps) - j) \in Nat /\ Turns(Len(r) - j) = Turns(Len(ps) - j) + Period
      BY <3>4, TurnsProps
    <3> QED
      BY <1>5, <1>8, <3>1, <3>2, <3>3, <3>5
  <2> QED
    BY <1>12, <2>1, <2>2
<1>15. Checking(r, c, hs)
  BY <1>4, <1>8, <1>14 DEF Checking
<1> QED
  BY <1>1, <1>13, <1>15 DEF Sound

\* The health timer starts again.
LEMMA HealthStarts ==
  ASSUME NEW ps, NEW cs, NEW hs, Sound(ps, cs, hs), NEW k \in DOMAIN hs
  PROVE  Sound(ps, cs, Append(RemoveAt(hs, k), Period))
<1>1. PICK a, h : a = RemoveAt(hs, k) /\ h = Append(a, Period)
  OBVIOUS
<1>2. Typed(ps, cs, hs)
  BY DEF Sound
<1>3. hs \in Seq(0..Period) /\ Len(hs) \in Nat /\ Period \in 0..Period
  BY <1>2, ConfigAssumption DEF Typed
<1>4. Without(a, hs, k, 0..Period)
  BY <1>1, <1>3, RemoveAtProps
<1>5. a \in Seq(0..Period) /\ Len(a) = Len(hs) - 1
  BY <1>4 DEF Without
<1>6. h \in Seq(0..Period) /\ Len(h) = Len(hs)
  BY <1>1, <1>3, <1>5
<1>7. Typed(ps, cs, h)
  BY <1>2, <1>6 DEF Typed
<1>8. Looking(ps, cs, h) \/ Quit(ps, cs, h) \/ Checking(ps, cs, h)
  BY <1>6 DEF Sound, Looking, Quit, Checking
<1> QED
  BY <1>1, <1>7, <1>8 DEF Sound

\* A tick: everything that is under way has taken one tick more.
LEMMA TimePasses ==
  ASSUME NEW ps, NEW cs, NEW hs, Sound(ps, cs, hs),
         \A i \in DOMAIN ps : ps[i].left > 0,
         \A k \in DOMAIN cs : cs[k] > 0,
         \A k \in DOMAIN hs : hs[k] > 0
  PROVE  Sound([i \in DOMAIN ps |-> [ps[i] EXCEPT !.left = @ - 1]],
               [k \in DOMAIN cs |-> cs[k] - 1], [k \in DOMAIN hs |-> hs[k] - 1])
<1>1. PICK r, c, h : /\ r = [i \in DOMAIN ps |-> [ps[i] EXCEPT !.left = @ - 1]]
                     /\ c = [k \in DOMAIN cs |-> cs[k] - 1]
                     /\ h = [k \in DOMAIN hs |-> hs[k] - 1]
  OBVIOUS
<1>2. Typed(ps, cs, hs)
  BY DEF Sound
<1>3. /\ Len(ps) \in Nat /\ Len(cs) \in Nat /\ Len(hs) \in Nat
      /\ DOMAIN ps = 1..Len(ps) /\ DOMAIN cs = 1..Len(cs) /\ DOMAIN hs = 1..Len(hs)
      /\ \A i \in DOMAIN ps : ps[i] \in Process /\ ProcOK(ps[i])
      /\ \A k \in DOMAIN cs : cs[k] \in 0..Period
      /\ \A k \in DOMAIN hs : hs[k] \in 0..Period
  BY <1>2, Sizes
<1>4. Period \in Nat /\ AskTicks \in Nat
  BY ConfigAssumption
<1>5. ASSUME NEW i \in DOMAIN ps
      PROVE  /\ ProcOK(r[i]) /\ r[i].kind = ps[i].kind
             /\ Spent(r[i]) = Spent(ps[i]) + 1
  <2>1. PICK p, q : p = ps[i] /\ q = [p EXCEPT !.left = @ - 1]
    OBVIOUS
  <2>2. p \in Process /\ ProcOK(p) /\ p.left > 0
    BY <1>3, <2>1
  <2>3. r[i] = q
    BY <1>1, <2>1
  <2>4. /\ q \in Process /\ q.kind = p.kind /\ q.attempt = p.attempt /\ q.doing = p.doing
        /\ q.left = p.left - 1
    BY <2>1, <2>2 DEF Process
  <2>5. ProcOK(q)
    BY <2>2, <2>4 DEF ProcOK
  <2>6. p.left \in Nat /\ LatestStart[p.attempt] \in Nat /\ Max(WaitTicks(p.attempt)) \in Nat
    BY <2>2, SpentIsInt
  <2>7. Spent(q) = Spent(p) + 1
    BY <1>4, <2>4, <2>6 DEF Spent
  <2> QED
    BY <2>1, <2>3, <2>4, <2>5, <2>7
<1>6. r \in Seq(Process) /\ Len(r) = Len(ps) /\ DOMAIN r = DOMAIN ps
  <2>1. \A i \in 1..Len(ps) : r[i] \in Process
    BY <1>3, <1>5 DEF ProcOK
  <2>2. r = [i \in 1..Len(ps) |-> r[i]]
    BY <1>1, <1>3
  <2> QED
    BY <1>3, <2>1, <2>2
<1>7. c \in Seq(0..Period) /\ Len(c) = Len(cs) /\ DOMAIN c = DOMAIN cs
  <2>1. \A i \in 1..Len(cs) : c[i] \in 0..Period
    BY <1>1, <1>3, <1>4
  <2>2. c = [i \in 1..Len(cs) |-> c[i]]
    BY <1>1, <1>3
  <2> QED
    BY <1>3, <2>1, <2>2
<1>8. h \in Seq(0..Period) /\ Len(h) = Len(hs)
  <2>1. \A i \in 1..Len(hs) : h[i] \in 0..Period
    BY <1>1, <1>3, <1>4
  <2>2. h = [i \in 1..Len(hs) |-> h[i]]
    BY <1>1, <1>3
  <2> QED
    BY <1>3, <2>1, <2>2
<1>9. Typed(r, c, h)
  BY <1>5, <1>6, <1>7, <1>8 DEF Typed
<1>10. ASSUME Looking(ps, cs, hs) PROVE Looking(r, c, h)
  BY <1>3, <1>5, <1>6, <1>7, <1>8, <1>10 DEF Looking
<1>11. ASSUME Quit(ps, cs, hs) PROVE Quit(r, c, h)
  BY <1>6, <1>7, <1>8, <1>11 DEF Quit
<1>12. ASSUME Checking(ps, cs, hs) PROVE Checking(r, c, h)
  <2>1. 1 \in DOMAIN cs /\ c[1] = cs[1] - 1 /\ cs[1] \in 0..Period
    BY <1>1, <1>3, <1>12 DEF Checking
  <2>2. ASSUME NEW i \in DOMAIN r
        PROVE  Turns(Len(r) - i) + (Period - c[1]) <= Spent(r[i])
    <3>1. i \in DOMAIN ps /\ Len(ps) - i \in Nat /\ Len(r) - i = Len(ps) - i
      BY <1>3, <1>6
    <3>2. Turns(Len(ps) - i) + (Period - cs[1]) <= Spent(ps[i])
      BY <1>12, <3>1 DEF Checking
    <3>3. Turns(Len(ps) - i) \in Nat
      BY <3>1, TurnsProps
    <3>4. Spent(ps[i]) \in Int /\ Spent(r[i]) = Spent(ps[i]) + 1
      BY <1>3, <1>5, <3>1, SpentIsInt
    <3> QED
      BY SMTT(30), <1>4, <2>1, <3>1, <3>2, <3>3, <3>4
  <2> QED
    BY <1>5, <1>6, <1>7, <1>8, <1>12, <2>2 DEF Checking
<1> QED
  BY <1>1, <1>9, <1>10, <1>11, <1>12 DEF Sound

--------------------------------------------------------------------------------
\* Every step preserves the invariant: first what is due.
LEMMA DueSound ==
  ASSUME IInv, Due
  PROVE  Sound(procs', checks', health') /\ UNCHANGED <<up, flips, stage>>
<1>1. Sound(procs, checks, health)
  BY DEF IInv
<1>2. /\ DOMAIN procs = 1..Len(procs)
      /\ \A i \in DOMAIN procs : procs[i] \in Process /\ ProcOK(procs[i])
  <2>1. Typed(procs, checks, health)
    BY <1>1 DEF Sound
  <2> QED
    BY <2>1, Sizes
<1>3. MaxRetries \in Nat /\ AskTicks \in Nat
  BY ConfigAssumption
<1>4. ASSUME NEW i \in DOMAIN procs, StartSucceeds(i)
      PROVE  Sound(procs', checks', health') /\ UNCHANGED <<up, flips, stage>>
  <2>1. procs[i].kind = "start"
    BY <1>4 DEF StartSucceeds
  <2>2. Sound(RemoveAt(procs, i), Append(checks, Period), Append(health, Period))
    BY <1>1, <2>1, StartEnds
  <2> QED
    BY <1>4, <2>2 DEF StartSucceeds, Answered
<1>5. ASSUME NEW i \in DOMAIN procs, CheckSucceeds(i)
      PROVE  Sound(procs', checks', health') /\ UNCHANGED <<up, flips, stage>>
  <2>1. procs[i].kind = "check"
    BY <1>5 DEF CheckSucceeds
  <2>2. Sound(RemoveAt(procs, i), checks, health)
    BY <1>1, <2>1, Ends
  <2> QED
    BY <1>5, <2>2 DEF CheckSucceeds, Answered
<1>6. ASSUME NEW i \in DOMAIN procs, AttemptFails(i)
      PROVE  Sound(procs', checks', health') /\ UNCHANGED <<up, flips, stage>>
  <2>1. PICK p : p = procs[i]
    OBVIOUS
  <2>2. /\ ProcOK(p) /\ p.doing = "asking" /\ ~(p.attempt >= MaxRetries)
        /\ UNCHANGED <<up, flips, stage, checks, health>>
    BY <1>2, <1>6, <2>1 DEF AttemptFails, Answered, IsLast
  <2>3. /\ p.kind \in {"start", "check"} /\ p.attempt \in 0..MaxRetries /\ p.left \in Nat
        /\ p.kind = "start" => p.attempt # 0
    BY <2>2 DEF ProcOK, Process
  <2>4. Spent(p) = LatestStart[p.attempt] + AskTicks - p.left /\ LatestStart[p.attempt] \in Nat
        /\ Max(WaitTicks(p.attempt)) \in Nat
    BY <1>3, <2>2, <2>3, SpentIsInt DEF Spent
  <2>5. CASE p.attempt = 0
    <3>1. PICK q : q = Asking(p.kind, 1)
      OBVIOUS
    <3>2. /\ q \in Process /\ q.kind = p.kind /\ q.attempt = 1 /\ q.doing = "asking"
          /\ q.left = AskTicks
      BY <1>3, <2>2, <2>3, <2>5, <3>1 DEF Asking, Process
    <3>3. ProcOK(q)
      BY <3>2 DEF ProcOK
    <3>4. LatestStart[0] = 0 /\ LatestStart[1] = AskTicks
      BY LatestStartProps DEF LatestGoesOn
    <3>5. Spent(p) <= Spent(q)
      BY <1>3, <2>3, <2>4, <2>5, <3>2, <3>4 DEF Spent
    <3>6. Sound([procs EXCEPT ![i] = q], checks, health)
      BY <1>1, <2>1, <3>2, <3>3, <3>5, GoesOn
    <3>7. procs' = [procs EXCEPT ![i] = q]
      BY <1>6, <2>1, <2>5, <3>1 DEF AttemptFails
    <3> QED
      BY <2>2, <3>6, <3>7
  <2>6. CASE p.attempt # 0
    <3>1. PICK t \in WaitTicks(p.attempt) :
            procs' = [procs EXCEPT ![i] = Waiting(p.kind, p.attempt, t)]
      BY <1>6, <2>1, <2>6 DEF AttemptFails
    <3>2. PICK q : q = Waiting(p.kind, p.attempt, t)
      OBVIOUS
    <3>3. t \in Nat /\ t <= Max(WaitTicks(p.attempt))
      <4>1. p.attempt \in Nat
        BY <1>3, <2>3
      <4> QED
        BY <4>1, WaitBounds
    <3>4. /\ q \in Process /\ q.kind = p.kind /\ q.attempt = p.attempt /\ q.doing = "waiting"
          /\ q.left = t
      BY <2>3, <3>2, <3>3 DEF Waiting, Process
    <3>5. ProcOK(q)
      <4>1. p.attempt \in 1..(MaxRetries - 1)
        BY <1>3, <2>2, <2>3, <2>6
      <4> QED
        BY <2>3, <3>4, <4>1 DEF ProcOK
    <3>6. Spent(q) = LatestStart[p.attempt] + AskTicks + Max(WaitTicks(p.attempt)) - t
      BY <3>4 DEF Spent
    <3>7. Spent(p) <= Spent(q)
      BY <1>3, <2>3, <2>4, <3>3, <3>6
    <3>8. Sound([procs EXCEPT ![i] = q], checks, health)
      BY <1>1, <2>1, <3>4, <3>5, <3>7, GoesOn
    <3> QED
      BY <2>2, <3>1, <3>2, <3>8
  <2> QED
    BY <2>5, <2>6
<1>7. ASSUME NEW i \in DOMAIN procs, GivesUp(i)
      PROVE  Sound(procs', checks', health') /\ UNCHANGED <<up, flips, stage>>
  <2>1. CASE procs[i].kind = "start"
    <3>1. Sound(RemoveAt(procs, i), checks, Append(health, Period))
      BY <1>1, <2>1, StartEnds
    <3> QED
      BY <1>7, <2>1, <3>1 DEF GivesUp, Answered
  <2>2. CASE procs[i].kind # "start"
    <3>1. procs[i].kind = "check"
      BY <1>2, <2>2 DEF Process
    <3>2. Sound(RemoveAt(procs, i), checks, health)
      BY <1>1, <3>1, Ends
    <3> QED
      BY <1>7, <2>2, <3>2 DEF GivesUp, Answered
  <2> QED
    BY <2>1, <2>2
<1>8. ASSUME NEW i \in DOMAIN procs, TriesAgain(i)
      PROVE  Sound(procs', checks', health') /\ UNCHANGED <<up, flips, stage>>
  <2>1. PICK p, q : p = procs[i] /\ q = Asking(p.kind, p.attempt + 1)
    OBVIOUS
  <2>2. /\ ProcOK(p) /\ p.doing = "waiting" /\ p.left = 0
        /\ UNCHANGED <<up, flips, stage, checks, health>>
        /\ procs' = [procs EXCEPT ![i] = q]
    BY <1>2, <1>8, <2>1 DEF TriesAgain, NextAttempt
  <2>3. p.kind \in {"start", "check"} /\ p.attempt \in 1..(MaxRetries - 1)
    BY <2>2 DEF ProcOK, Process
  <2>4. p.attempt \in Nat /\ p.attempt # 0 /\ p.attempt + 1 \in 0..MaxRetries
        /\ p.attempt + 1 # 0
    BY <1>3, <2>3
  <2>5. /\ q \in Process /\ q.kind = p.kind /\ q.attempt = p.attempt + 1
        /\ q.doing = "asking" /\ q.left = AskTicks
    BY <1>3, <2>1, <2>3, <2>4 DEF Asking, Process
  <2>6. ProcOK(q)
    BY <2>4, <2>5 DEF ProcOK
  <2>7. /\ LatestStart[p.attempt + 1] =
             LatestStart[p.attempt] + AskTicks + Max(WaitTicks(p.attempt))
        /\ LatestStart[p.attempt] \in Nat /\ Max(WaitTicks(p.attempt)) \in Nat
    BY <2>4, LatestStartProps, WaitBounds DEF LatestGoesOn
  <2>8. Spent(p) <= Spent(q)
    BY <1>3, <2>2, <2>5, <2>7 DEF Spent
  <2>9. Sound([procs EXCEPT ![i] = q], checks, health)
    BY <1>1, <2>1, <2>5, <2>6, <2>8, GoesOn
  <2> QED
    BY <2>2, <2>9
<1>9. ASSUME NEW k \in DOMAIN checks, CheckFires(k)
      PROVE  Sound(procs', checks', health') /\ UNCHANGED <<up, flips, stage>>
  <2>1. checks[k] = 0
    BY <1>9 DEF CheckFires
  <2>2. Sound(Append(procs, Asking("check", 0)), RemoveAt(checks, k) \o Armed, health)
    BY <1>1, <2>1, CheckStarts
  <2> QED
    BY <1>9, <2>2 DEF CheckFires
<1>10. ASSUME NEW k \in DOMAIN health, HealthFires(k)
       PROVE  Sound(procs', checks', health') /\ UNCHANGED <<up, flips, stage>>
  <2>1. Sound(procs, checks, Append(RemoveAt(health, k), Period))
    BY <1>1, HealthStarts
  <2> QED
    BY <1>10, <2>1 DEF HealthFires, IsConnected
<1> QED
  BY <1>4, <1>5, <1>6, <1>7, <1>8, <1>9, <1>10 DEF Due

\* And the rest.
LEMMA NextSound == IInv /\ [Next]_vars => IInv'
<1> SUFFICES ASSUME IInv, [Next]_vars PROVE IInv'
  OBVIOUS
<1>1. Sound(procs, checks, health)
  BY DEF IInv
<1>2. CASE Due
  <2>1. Sound(procs', checks', health') /\ UNCHANGED <<up, flips, stage>>
    BY <1>2, DueSound
  <2> QED
    BY <2>1 DEF IInv
<1>3. CASE Tick
  <2>1. Sound([i \in DOMAIN procs |-> [procs[i] EXCEPT !.left = @ - 1]],
              [k \in DOMAIN checks |-> checks[k] - 1], [k \in DOMAIN health |-> health[k] - 1])
    <3>1. /\ \A i \in DOMAIN procs : procs[i].left > 0
          /\ \A k \in DOMAIN checks : checks[k] > 0
          /\ \A k \in DOMAIN health : health[k] > 0
      BY <1>3 DEF Tick
    <3> QED
      BY <1>1, <3>1, TimePasses
  <2> QED
    BY <1>3, <2>1 DEF Tick, IInv
<1>4. CASE DatabaseFlips
  <2>1. up' \in BOOLEAN
    BY <1>4 DEF DatabaseFlips
  <2>2. flips' \in 0..MaxFlips
    BY <1>4, ConfigAssumption DEF DatabaseFlips, IInv
  <2> QED
    BY <1>4, <2>1, <2>2 DEF DatabaseFlips, IInv
<1>5. CASE Signal
  BY <1>5 DEF Signal, IInv
<1>6. CASE Exit
  <2>1. Typed(procs', checks', health') /\ Quit(procs', checks', health')
    BY <1>6 DEF Exit, Typed, Quit
  <2> QED
    BY <1>6, <2>1 DEF Exit, IInv, Sound
<1>7. CASE Gone \/ UNCHANGED vars
  BY <1>7 DEF Gone, vars, IInv
<1> QED
  BY <1>2, <1>3, <1>4, <1>5, <1>6, <1>7 DEF Next

\* No callback outlives the time its attempts can take, and those that overlap have
\* started a turn of the timer apart.
THEOREM AgesInOrder == Spec => []IInv
  BY InitSound, NextSound, PTL DEF Spec

\* The state is well typed and no process goes beyond its last attempt, whatever the
\* delays, the backoff and the number of attempts.
THEOREM TypeCorrect == Spec => []TypeOK
<1>1. IInv => TypeOK
  BY BoundedByAge
<1> QED
  BY <1>1, AgesInOrder, PTL

\* However long the database stays away, no more loops overlap than the length of one has
\* periods, and there are never more than two timers.
THEOREM OverlapBounded == Spec => []AttemptsBounded
<1>1. IInv => AttemptsBounded
  BY BoundedByAge
<1> QED
  BY <1>1, AgesInOrder, PTL

--------------------------------------------------------------------------------
\* Nothing that is due in an abandoned api starts an attempt or arms a check: only the
\* health timer is left, and it takes the database for connected.
LEMMA NothingDueStarts ==
  ASSUME Abandoned, Due
  PROVE  procs' = <<>> /\ checks' = <<>>
<1>1. procs = <<>> /\ checks = <<>>
  BY DEF Abandoned
<1>2. DOMAIN procs = {} /\ DOMAIN checks = {}
  BY <1>1
<1>3. PICK k \in DOMAIN health : HealthFires(k)
  BY <1>2 DEF Due
<1>4. procs' = procs /\ checks' = checks
  BY <1>3 DEF HealthFires, IsConnected
<1> QED
  BY <1>1, <1>4

\* A start-up that failed is final: whatever the delays and the timing, nothing looks for
\* the database again before the process is restarted. RetriesContinue is violated for
\* this reason, and with every configuration.
AbandonedForGood == [][Abandoned => procs' = <<>> /\ checks' = <<>>]_vars
THEOREM NoRetryAfterStartUp == Spec => AbandonedForGood
<1>1. ASSUME Abandoned, [Next]_vars PROVE procs' = <<>> /\ checks' = <<>>
  <2>1. procs = <<>> /\ checks = <<>>
    BY <1>1 DEF Abandoned
  <2>2. CASE Due
    BY <1>1, <2>2, NothingDueStarts
  <2>3. CASE Tick
    <3>1. DOMAIN procs = {} /\ DOMAIN checks = {}
      BY <2>1
    <3>2. procs' = [i \in {} |-> [procs[i] EXCEPT !.left = @ - 1]]
          /\ checks' = [k \in {} |-> checks[k] - 1]
      BY <2>3, <3>1 DEF Tick
    <3> QED
      BY <3>2
  <2>4. CASE DatabaseFlips \/ Signal \/ Gone \/ UNCHANGED vars
    BY <2>1, <2>4 DEF DatabaseFlips, Signal, Gone, vars
  <2>5. CASE Exit
    BY <2>5 DEF Exit
  <2> QED
    BY <1>1, <2>2, <2>3, <2>4, <2>5 DEF Next
<1>2. [Next]_vars => [Abandoned => procs' = <<>> /\ checks' = <<>>]_vars
  BY <1>1
<1> QED
  BY <1>2, PTL DEF Spec, AbandonedForGood

--------------------------------------------------------------------------------
\* Once there is a timer for checks it is the only one and is never lost: it runs down with
\* time, when it is due a check begins and a whole turn with it, and only the exit of the
\* process stops it.
TimerTurns ==
  [][checks # <<>> =>
       \/ checks' = checks
       \/ checks' = <<checks[1] - 1>>
       \/ checks[1] = 0 /\ checks' = <<Period>> /\ procs' = Append(procs, Asking("check", 0))
       \/ stage' = "exited"]_vars

\* What has been found has one timer.
LEMMA OneTimer ==
  ASSUME IInv, checks # <<>>
  PROVE  checks \in Seq(0..Period) /\ Len(checks) = 1 /\ Checking(procs, checks, health)
<1>1. Sound(procs, checks, health)
  BY DEF IInv
<1>2. checks \in Seq(0..Period)
  BY <1>1 DEF Sound, Typed
<1>3. Len(checks) # 0
  BY <1>2
<1>4. Checking(procs, checks, health)
  BY <1>1, <1>3 DEF Sound, Looking, Quit
<1> QED
  BY <1>2, <1>4 DEF Checking

\* A step keeps the timer.
LEMMA TimerStep ==
  ASSUME IInv, checks # <<>>, Next
  PROVE  \/ checks' = checks
         \/ checks' = <<checks[1] - 1>>
         \/ checks[1] = 0 /\ checks' = <<Period>> /\ procs' = Append(procs, Asking("check", 0))
         \/ stage' = "exited"
<1>1. /\ checks \in Seq(0..Period) /\ Len(checks) = 1 /\ DOMAIN checks = {1}
      /\ \A i \in DOMAIN procs : procs[i].kind = "check"
  BY OneTimer DEF Checking
<1>2. ASSUME NEW k \in DOMAIN checks, CheckFires(k)
      PROVE  checks[1] = 0 /\ checks' = <<Period>> /\ procs' = Append(procs, Asking("check", 0))
  <2>0. k = 1
    BY <1>1
  <2>1. checks[1] = 0 /\ checks' = RemoveAt(checks, 1) \o <<Period>>
    BY <1>2, <2>0 DEF CheckFires, Armed
  <2>2. PICK r : r = RemoveAt(checks, 1)
    OBVIOUS
  <2>3. Without(r, checks, 1, 0..Period)
    BY <1>1, <2>2, RemoveAtProps
  <2>4. r \in Seq(0..Period) /\ Len(r) = 0
    BY <1>1, <2>3 DEF Without
  <2>5. r = <<>>
    BY <2>4
  <2>6. <<>> \o <<Period>> = <<Period>>
    OBVIOUS
  <2>7. checks' = <<Period>>
    BY <2>1, <2>2, <2>5, <2>6
  <2> QED
    BY <1>2, <2>1, <2>7 DEF CheckFires
<1>3. CASE Tick
  <2>1. checks' = [k \in {1} |-> checks[k] - 1]
    BY <1>1, <1>3 DEF Tick
  <2>2. checks' = <<checks[1] - 1>>
    BY <2>1
  <2> QED
    BY <2>2
<1>4. ASSUME NEW i \in DOMAIN procs, StartSucceeds(i) PROVE FALSE
  BY <1>1, <1>4 DEF StartSucceeds
<1>5. ASSUME NEW i \in DOMAIN procs,
             CheckSucceeds(i) \/ AttemptFails(i) \/ GivesUp(i) \/ TriesAgain(i)
      PROVE  checks' = checks
  BY <1>5 DEF CheckSucceeds, AttemptFails, GivesUp, TriesAgain
<1>6. ASSUME NEW k \in DOMAIN health, HealthFires(k) PROVE checks' = checks
  BY <1>6 DEF HealthFires
<1>7. CASE DatabaseFlips \/ Signal \/ Exit \/ Gone
  BY <1>7 DEF DatabaseFlips, Signal, Exit, Gone, vars
<1> QED
  BY <1>2, <1>3, <1>4, <1>5, <1>6, <1>7 DEF Next, Due

\* The safety half of CheckedForEver: whatever the database does and however many loops
\* overlap, the timer that was armed goes on, and every turn of it starts a check.
THEOREM TimerIsKept == Spec => TimerTurns
<1> DEFINE Kept == \/ checks' = checks
                   \/ checks' = <<checks[1] - 1>>
                   \/ /\ checks[1] = 0 /\ checks' = <<Period>>
                      /\ procs' = Append(procs, Asking("check", 0))
                   \/ stage' = "exited"
<1>1. IInv /\ [Next]_vars => [checks # <<>> => Kept]_vars
  BY TimerStep
<1> QED
  BY <1>1, AgesInOrder, PTL DEF Spec, TimerTurns
==============================================================================
