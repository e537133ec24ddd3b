--------------------------- MODULE RankingProofs ---------------------------
(***************************************************************************)
(* For every catalogue, fixture, request and age within the TTL: what a    *)
(* ranking lists, in which order, and what a quote may cost.               *)
(*                                                                         *)
(* The algorithms carry the proof, not the transitions: an answer is a     *)
(* function of the cache it is given from (AnswerInv), and the cache holds *)
(* typed facts of feeds that are ok (CacheInv).  The rest is about sorting *)
(* a finite set in a strict total order (SortedIsBijection), and about the *)
(* arithmetic of Score (ScoreDominates, ScoreBoundsThePrice).              *)
(***************************************************************************)
EXTENDS Ranking, FiniteSetTheorems, TLAPS

----------------------------------------------------------------------------
(* Sorting.                                                                *)

StrictOrder(S, before) ==
  /\ \A d \in S : <<d, d>> \notin before
  /\ \A c, d, e \in S :
       <<c, d>> \in before /\ <<d, e>> \in before => <<c, e>> \in before
  /\ \A d, e \in S : d = e \/ <<d, e>> \in before \/ <<e, d>> \in before

\* A finite set in a strict total order: Sorted lists each element once, and
\* one before another exactly if the order says so.
LEMMA SortedIsBijection ==
  ASSUME NEW S, IsFiniteSet(S), NEW before, StrictOrder(S, before)
  PROVE  /\ Cardinality(S) \in Nat
         /\ Sorted(S, before) \in Bijection(1 .. Cardinality(S), S)
         /\ \A i, j \in 1 .. Cardinality(S) :
              <<Sorted(S, before)[i], Sorted(S, before)[j]>> \in before <=> i < j
<1> DEFINE n == Cardinality(S)
           Below(e) == {d \in S : <<d, e>> \in before}
           pos == [e \in S |-> Cardinality(Below(e)) + 1]
           s == Sorted(S, before)
<1>1. n \in Nat
  BY FS_CardinalityType
<1>2. ASSUME NEW e \in S
      PROVE  /\ IsFiniteSet(Below(e))
             /\ Cardinality(Below(e)) \in Nat
             /\ Cardinality(Below(e)) < n
  <2>1. Below(e) \subseteq S \ {e}
    BY DEF StrictOrder
  <2>2. IsFiniteSet(S \ {e}) /\ Cardinality(S \ {e}) = n - 1
    BY FS_RemoveElement
  <2> HIDE DEF Below, n
  <2>3. IsFiniteSet(Below(e)) /\ Cardinality(Below(e)) <= n - 1
    BY <2>1, <2>2, FS_Subset
  <2>4. Cardinality(Below(e)) \in Nat
    BY <2>3, FS_CardinalityType
  <2>5. QED
    BY <1>1, <2>3, <2>4
<1>3. pos \in [S -> 1 .. n]
  <2> HIDE DEF Below, n
  <2>1. \A e \in S : Cardinality(Below(e)) + 1 \in 1 .. n
    BY <1>1, <1>2
  <2>2. QED
    BY <2>1
<1>4. ASSUME NEW d \in S, NEW e \in S, <<d, e>> \in before
      PROVE  pos[d] < pos[e]
  <2>1. Below(d) \cup {d} \subseteq Below(e)
    BY <1>4 DEF StrictOrder
  <2>2. d \notin Below(d)
    BY DEF StrictOrder
  <2>3. Cardinality(Below(d) \cup {d}) = Cardinality(Below(d)) + 1
    BY <1>2, <2>2, FS_AddElement
  <2>4. Cardinality(Below(d) \cup {d}) <= Cardinality(Below(e))
    BY <1>2, <2>1, FS_Subset
  <2>5. Cardinality(Below(d)) \in Nat /\ Cardinality(Below(e)) \in Nat
    BY <1>2
  <2>6. pos[d] = Cardinality(Below(d)) + 1 /\ pos[e] = Cardinality(Below(e)) + 1
    OBVIOUS
  <2>7. QED
    BY <2>3, <2>4, <2>5, <2>6
<1>5. \A d, e \in S : pos[d] = pos[e] => d = e
  <2>1. SUFFICES ASSUME NEW d \in S, NEW e \in S, pos[d] = pos[e], d # e
                 PROVE  FALSE
    OBVIOUS
  <2>2. <<d, e>> \in before \/ <<e, d>> \in before
    BY <2>1 DEF StrictOrder
  <2>3. pos[d] < pos[e] \/ pos[e] < pos[d]
    BY <1>4, <2>2
  <2>4. pos[d] \in Int /\ pos[e] \in Int
    BY <1>1, <1>3
  <2>5. QED
    BY <2>1, <2>3, <2>4
<1> HIDE DEF pos
<1>6. pos \in Injection(S, 1 .. n)
  BY <1>3, <1>5 DEF Injection, IsInjective
<1>7. IsFiniteSet(1 .. n) /\ Cardinality(1 .. n) = n
  BY <1>1, FS_Interval
<1>8. pos \in Surjection(S, 1 .. n)
  BY <1>6, <1>7, FS_Injection
<1>9. ASSUME NEW k \in 1 .. n
      PROVE  s[k] \in S /\ pos[s[k]] = k
  <2>1. PICK e \in S : pos[e] = k
    BY <1>8 DEF Surjection
  <2>2. Cardinality(Below(e)) = k - 1
    BY <1>1, <1>2, <2>1 DEF pos
  <2>3. s[k] = CHOOSE x \in S : Cardinality(Below(x)) = k - 1
    BY DEF Sorted
  <2> HIDE DEF s, Below
  <2>4. s[k] \in S /\ Cardinality(Below(s[k])) = k - 1
    BY <2>2, <2>3
  <2>5. QED
    BY <1>1, <2>4 DEF pos
<1>10. s \in [1 .. n -> S]
  <2> DEFINE place(k) == CHOOSE e \in S : Cardinality(Below(e)) = k - 1
  <2>1. s = [k \in 1 .. n |-> place(k)]
    BY DEF Sorted
  <2> HIDE DEF s, place
  <2>2. QED
    BY <1>9, <2>1
<1>11. s \in Bijection(1 .. n, S)
  <2>1. \A i, j \in 1 .. n : s[i] = s[j] => i = j
    BY <1>9
  <2>2. \A e \in S : pos[e] \in 1 .. n /\ s[pos[e]] = e
    BY <1>3, <1>5, <1>9
  <2>3. \A e \in S : \E k \in 1 .. n : s[k] = e
    BY <2>2
  <2>4. QED
    BY <1>10, <2>1, <2>3 DEF Bijection, Injection, IsInjective, Surjection
<1>12. ASSUME NEW i \in 1 .. n, NEW j \in 1 .. n
       PROVE  <<s[i], s[j]>> \in before <=> i < j
  <2>1. <<s[i], s[j]>> \in before => i < j
    BY <1>4, <1>9
  <2>2. <<s[j], s[i]>> \in before => j < i
    BY <1>4, <1>9
  <2>3. s[i] = s[j] => i = j
    BY <1>9
  <2>4. s[i] = s[j] \/ <<s[i], s[j]>> \in before \/ <<s[j], s[i]>> \in before
    BY <1>9 DEF StrictOrder
  <2>5. i \in Int /\ j \in Int
    BY <1>1
  <2>6. QED
    BY <2>1, <2>2, <2>3, <2>4, <2>5
<1>13. QED
  BY <1>1, <1>11, <1>12

\* A finite set of integers that is not empty has a least and a greatest element.
LEMMA MinMaxOfFinite ==
  ASSUME NEW T \in SUBSET Int, IsFiniteSet(T), T # {}
  PROVE  /\ Min(T) \in T /\ \A y \in T : Min(T) <= y
         /\ Max(T) \in T /\ \A y \in T : Max(T) >= y
<1> DEFINE less == {p \in T \X T : p[1] < p[2]}
           n == Cardinality(T)
           s == Sorted(T, less)
<1>1. \A x, y \in T : <<x, y>> \in less <=> x < y
  OBVIOUS
<1> HIDE DEF less
<1>2. StrictOrder(T, less)
  BY <1>1 DEF StrictOrder
<1>3. n \in Nat /\ s \in Bijection(1 .. n, T)
       /\ \A i, j \in 1 .. n : <<s[i], s[j]>> \in less <=> i < j
  BY <1>2, SortedIsBijection
<1>4. n # 0
  BY FS_EmptySet
<1> HIDE DEF n, s
<1>5. 1 \in 1 .. n /\ n \in 1 .. n
  BY <1>3, <1>4
<1>6. /\ \A k \in 1 .. n : s[k] \in T
      /\ \A y \in T : \E k \in 1 .. n : s[k] = y
  BY <1>3 DEF Bijection, Injection, Surjection
<1>7. \A y \in T : s[1] <= y /\ y <= s[n]
  <2> TAKE y \in T
  <2>1. PICK k \in 1 .. n : s[k] = y
    BY <1>6
  <2>2. ~(k < 1) /\ ~(n < k)
    BY <1>3
  <2>3. ~(s[k] < s[1]) /\ ~(s[n] < s[k])
    BY <1>1, <1>3, <1>5, <1>6, <2>2
  <2>4. s[1] \in Int /\ s[k] \in Int /\ s[n] \in Int
    BY <1>5, <1>6
  <2>5. QED
    BY <2>1, <2>3, <2>4
<1>8. Min(T) \in T /\ \A y \in T : Min(T) <= y
  BY <1>5, <1>6, <1>7 DEF Min
<1>9. Max(T) \in T /\ \A y \in T : Max(T) >= y
  <2>1. s[n] \in T /\ \A y \in T : s[n] >= y
    BY <1>5, <1>6, <1>7
  <2>2. QED
    BY <2>1 DEF Max
<1>10. QED
  BY <1>8, <1>9

\* What a stable sort compares: the most of A, then the least of B, then of C.
ByKeys(S, A, B, C) ==
  {p \in S \X S :
     \/ A[p[1]] > A[p[2]]
     \/ A[p[1]] = A[p[2]] /\ B[p[1]] < B[p[2]]
     \/ A[p[1]] = A[p[2]] /\ B[p[1]] = B[p[2]] /\ C[p[1]] < C[p[2]]
     \/ A[p[1]] = A[p[2]] /\ B[p[1]] = B[p[2]] /\ C[p[1]] = C[p[2]]
          /\ Earlier(p[1], p[2])}

\* It is a strict total order of the places.
LEMMA StableOrder ==
  ASSUME NEW S \in SUBSET (Int \X Int),
         NEW A \in [S -> Int], NEW B \in [S -> Int], NEW C \in [S -> Int]
  PROVE  StrictOrder(S, ByKeys(S, A, B, C))
<1> DEFINE before == ByKeys(S, A, B, C)
<1>0. \A d, e \in S : <<d, e>> \in before <=>
        \/ A[d] > A[e]
        \/ A[d] = A[e] /\ B[d] < B[e]
        \/ A[d] = A[e] /\ B[d] = B[e] /\ C[d] < C[e]
        \/ A[d] = A[e] /\ B[d] = B[e] /\ C[d] = C[e] /\ Earlier(d, e)
  BY DEF ByKeys
<1> HIDE DEF before
<1>1. \A e \in S : A[e] \in Int /\ B[e] \in Int /\ C[e] \in Int
  OBVIOUS
<1>2. \A d \in S : d[1] \in Int /\ d[2] \in Int
  OBVIOUS
<1>3. \A d, e \in S : d[1] = e[1] /\ d[2] = e[2] => d = e
  OBVIOUS
<1>4. \A d \in S : <<d, d>> \notin before
  BY <1>0, <1>1, <1>2 DEF Earlier
<1>5. \A c, d, e \in S :
        <<c, d>> \in before /\ <<d, e>> \in before => <<c, e>> \in before
  <2>1. \A c, d, e \in S : Earlier(c, d) /\ Earlier(d, e) => Earlier(c, e)
    BY <1>2 DEF Earlier
  <2>2. QED
    BY <1>0, <1>1, <2>1
<1>6. \A d, e \in S : d = e \/ <<d, e>> \in before \/ <<e, d>> \in before
  <2> TAKE d, e \in S
  <2>1. d[1] \in Int /\ d[2] \in Int /\ e[1] \in Int /\ e[2] \in Int
    BY <1>2
  <2>2. d = e \/ d[1] # e[1] \/ d[2] # e[2]
    BY <1>3
  <2>3. d = e \/ Earlier(d, e) \/ Earlier(e, d)
    <3>0. \A x, y \in Int : x = y \/ x < y \/ y < x
      OBVIOUS
    <3>1. CASE d[1] # e[1]
      <4>1. d[1] < e[1] \/ e[1] < d[1]
        BY <2>1, <3>0, <3>1
      <4>2. QED
        BY <4>1 DEF Earlier
    <3>2. CASE d[1] = e[1] /\ d[2] # e[2]
      <4>1. d[2] < e[2] \/ e[2] < d[2]
        BY <2>1, <3>0, <3>2
      <4>2. QED
        BY <4>1, <3>2 DEF Earlier
    <3>3. QED
      BY <2>2, <3>1, <3>2
  <2>4. /\ A[d] \in Int /\ B[d] \in Int /\ C[d] \in Int
        /\ A[e] \in Int /\ B[e] \in Int /\ C[e] \in Int
    BY <1>1
  <2>5. CASE A[d] = A[e] /\ B[d] = B[e] /\ C[d] = C[e]
    BY <1>0, <2>3, <2>5
  <2>6. CASE ~(A[d] = A[e] /\ B[d] = B[e] /\ C[d] = C[e])
    <3>1. \/ A[d] > A[e] \/ A[e] > A[d]
          \/ A[d] = A[e] /\ (B[d] < B[e] \/ B[e] < B[d])
          \/ A[d] = A[e] /\ B[d] = B[e] /\ (C[d] < C[e] \/ C[e] < C[d])
      <4>1. \A x, y \in Int : x # y => x < y \/ x > y
        OBVIOUS
      <4>2. /\ A[d] # A[e] => A[d] < A[e] \/ A[d] > A[e]
            /\ B[d] # B[e] => B[d] < B[e] \/ B[d] > B[e]
            /\ C[d] # C[e] => C[d] < C[e] \/ C[d] > C[e]
        BY ONLY <2>4, <4>1
      <4>3. QED
        BY ONLY <2>4, <2>6, <4>2
    <3>2. \/ A[d] > A[e]
          \/ A[d] = A[e] /\ B[d] < B[e]
          \/ A[d] = A[e] /\ B[d] = B[e] /\ C[d] < C[e]
          => <<d, e>> \in before
      BY <1>0
    <3>3. \/ A[e] > A[d]
          \/ A[e] = A[d] /\ B[e] < B[d]
          \/ A[e] = A[d] /\ B[e] = B[d] /\ C[e] < C[d]
          => <<e, d>> \in before
      BY <1>0
    <3>4. QED
      BY ONLY <3>1, <3>2, <3>3
  <2>7. QED
    BY <2>5, <2>6
<1>7. QED
  BY <1>4, <1>5, <1>6 DEF StrictOrder, before

----------------------------------------------------------------------------
(* Score.                                                                  *)

\* What the proofs need to know of a fact.
FactOK(f) ==
  /\ f.hourly \in Nat \ {0}
  /\ f.count \in Nat \ {0}
  /\ f.age \in 0 .. CacheTTL

\* Prices of a set of facts: whole numbers with a least and a greatest.
LEMMA PricesAreBounded ==
  ASSUME NEW facts, IsFiniteSet(facts), facts # {}, \A f \in facts : FactOK(f)
  PROVE  /\ Cheapest(facts) \in Nat /\ Dearest(facts) \in Nat
         /\ \A f \in facts : Cheapest(facts) <= f.hourly /\ f.hourly <= Dearest(facts)
         /\ \E f \in facts : f.hourly = Cheapest(facts)
         /\ PriceRange(facts) \in Nat \ {0}
         /\ Dearest(facts) - Cheapest(facts) \in Nat
         /\ Dearest(facts) # Cheapest(facts) =>
              PriceRange(facts) = Dearest(facts) - Cheapest(facts)
<1> DEFINE prices == {f.hourly : f \in facts}
           hourly == [f \in facts |-> f.hourly]
<1>1. prices \in SUBSET Int /\ prices # {} /\ \A y \in prices : y \in Nat
  BY DEF FactOK
<1>2. hourly \in Surjection(facts, prices)
  BY DEF Surjection
<1>3. IsFiniteSet(prices)
  BY <1>2, FS_Surjection
<1>4. /\ Cheapest(facts) \in prices /\ \A y \in prices : Cheapest(facts) <= y
      /\ Dearest(facts) \in prices /\ \A y \in prices : Dearest(facts) >= y
  BY <1>1, <1>3, MinMaxOfFinite DEF Cheapest, Dearest
<1>5. Cheapest(facts) \in Nat /\ Dearest(facts) \in Nat
  BY <1>1, <1>4
<1>6. \A f \in facts : Cheapest(facts) <= f.hourly /\ f.hourly <= Dearest(facts)
  <2> TAKE f \in facts
  <2>1. f.hourly \in prices
    OBVIOUS
  <2>2. f.hourly \in Nat
    BY <1>1, <2>1
  <2>3. QED
    BY <1>4, <1>5, <2>1, <2>2
<1>7. \E f \in facts : f.hourly = Cheapest(facts)
  BY <1>4
<1> DEFINE range == Dearest(facts) - Cheapest(facts)
<1>8. range \in Nat
  BY <1>4, <1>5
<1>9. /\ PriceRange(facts) \in {range, 1}
      /\ PriceRange(facts) >= range /\ PriceRange(facts) >= 1
  <2> HIDE DEF range
  <2>1. {range, 1} \in SUBSET Int /\ {range, 1} # {}
    BY <1>8
  <2>2. IsFiniteSet({range})
    BY FS_Singleton
  <2>3. IsFiniteSet({range} \cup {1})
    BY <2>2, FS_AddElement
  <2>4. {range, 1} = {range} \cup {1}
    OBVIOUS
  <2>5. Max({range, 1}) \in {range, 1} /\ \A y \in {range, 1} : Max({range, 1}) >= y
    BY <2>1, <2>3, <2>4, MinMaxOfFinite
  <2>6. PriceRange(facts) = Max({range, 1})
    BY DEF PriceRange, range
  <2>7. QED
    BY <2>5, <2>6
<1>10. QED
  BY <1>5, <1>6, <1>7, <1>8, <1>9

LEMMA MinOfTwo ==
  ASSUME NEW a \in Int, NEW b \in Int
  PROVE  Min({a, b}) = IF a <= b THEN a ELSE b
<1>1. \E x \in {a, b} : \A y \in {a, b} : x <= y
  OBVIOUS
<1>2. Min({a, b}) \in {a, b} /\ \A y \in {a, b} : Min({a, b}) <= y
  BY <1>1 DEF Min
<1>3. QED
  BY <1>2

LEMMA TimesMonotone ==
  ASSUME NEW r \in Nat, NEW a \in Int, NEW b \in Int, a <= b
  PROVE  r * a \in Int /\ r * b \in Int /\ r * a <= r * b
<1>1. r * b - r * a = r * (b - a)
  OBVIOUS
<1>2. b - a \in Nat
  OBVIOUS
<1>3. r * (b - a) \in Nat
  BY <1>2
<1>4. r * a \in Int /\ r * b \in Int
  OBVIOUS
<1>5. QED
  BY <1>1, <1>3, <1>4

LEMMA WeightsAre ==
  ASSUME NEW preference \in Preferences
  PROVE  \/ Weights[preference].price = 8 /\ Weights[preference].freshness = 2
         \/ Weights[preference].price = 2 /\ Weights[preference].freshness = 8
         \/ Weights[preference].price = 5 /\ Weights[preference].freshness = 5
  BY DEF Preferences, Weights

Fresh(f) == 60 - Min({f.age, 60})

LEMMA FreshIs ==
  ASSUME NEW f, FactOK(f)
  PROVE  Fresh(f) \in 0 .. 60 /\ Fresh(f) >= 60 - f.age /\ Fresh(f) >= 60 - CacheTTL
<1>1. f.age \in Int /\ 0 <= f.age /\ f.age <= CacheTTL /\ CacheTTL \in Nat
  BY RankingAssumption DEF FactOK
<1>2. Min({f.age, 60}) = IF f.age <= 60 THEN f.age ELSE 60
  BY <1>1, MinOfTwo
<1>3. QED
  BY <1>1, <1>2 DEF Fresh

\* An older fact is no fresher.
LEMMA FreshIsMonotone ==
  ASSUME NEW f, NEW g, FactOK(f), FactOK(g), g.age <= f.age
  PROVE  Fresh(f) <= Fresh(g)
<1>1. f.age \in Int /\ g.age \in Int
  BY RankingAssumption DEF FactOK
<1>2. /\ Min({f.age, 60}) = IF f.age <= 60 THEN f.age ELSE 60
      /\ Min({g.age, 60}) = IF g.age <= 60 THEN g.age ELSE 60
  BY <1>1, MinOfTwo
<1>3. QED
  BY <1>1, <1>2 DEF Fresh

LEMMA ScoreIs ==
  ASSUME NEW preference \in Preferences, NEW facts,
         PriceRange(facts) \in Nat, Cheapest(facts) \in Nat,
         NEW f, FactOK(f)
  PROVE  LET w == Weights[preference]
             R == PriceRange(facts)
         IN  /\ R * Fresh(f) \in Nat
             /\ Score(f, facts, preference) \in Int
             /\ Score(f, facts, preference)
                  = w.price * 60 * (R - (f.hourly - Cheapest(facts)))
                      + w.freshness * (R * Fresh(f))
<1> DEFINE w == Weights[preference]
           R == PriceRange(facts)
           C == Cheapest(facts)
<1>1. Fresh(f) \in Nat
  BY FreshIs
<1>2. f.hourly \in Nat
  BY DEF FactOK
<1>3. Score(f, facts, preference)
        = w.price * 60 * (R - (f.hourly - C)) + w.freshness * R * Fresh(f)
  BY DEF Score, Fresh
<1>4. /\ w.price \in Nat /\ w.freshness \in Nat
  BY WeightsAre
<1> HIDE DEF w, R, C
<1>5. R \in Nat /\ C \in Nat
  BY DEF R, C
<1>6. w.freshness * R * Fresh(f) = w.freshness * (R * Fresh(f))
  BY <1>1, <1>4, <1>5
<1>7. R * Fresh(f) \in Nat
  BY <1>1, <1>5
<1>8. w.freshness * (R * Fresh(f)) \in Int
  BY <1>4, <1>7
<1>9. w.price * 60 * (R - (f.hourly - C)) \in Int
  BY <1>2, <1>4, <1>5
<1>10. QED
  BY <1>3, <1>6, <1>7, <1>8, <1>9 DEF w, R, C

\* No weighting puts an offer above one that is cheaper and no older, and one
\* of the same price is never above a fresher one by its score.
LEMMA ScoreDominates ==
  ASSUME NEW preference \in Preferences, NEW facts,
         PriceRange(facts) \in Nat, Cheapest(facts) \in Nat,
         NEW f, NEW g, FactOK(f), FactOK(g),
         g.hourly <= f.hourly, g.age <= f.age
  PROVE  /\ Score(g, facts, preference) >= Score(f, facts, preference)
         /\ g.hourly < f.hourly =>
              Score(g, facts, preference) > Score(f, facts, preference)
<1> DEFINE w == Weights[preference]
           R == PriceRange(facts)
           C == Cheapest(facts)
           x == R * Fresh(f)
           y == R * Fresh(g)
           Sf == Score(f, facts, preference)
           Sg == Score(g, facts, preference)
<1>1. f.hourly \in Nat /\ g.hourly \in Nat
  BY DEF FactOK
<1>2. x <= y
  BY FreshIs, FreshIsMonotone, TimesMonotone
<1>3. /\ x \in Nat /\ y \in Nat /\ Sf \in Int /\ Sg \in Int
      /\ Sf = w.price * 60 * (R - (f.hourly - C)) + w.freshness * x
      /\ Sg = w.price * 60 * (R - (g.hourly - C)) + w.freshness * y
  BY ScoreIs
<1>4. \/ w.price = 8 /\ w.freshness = 2
      \/ w.price = 2 /\ w.freshness = 8
      \/ w.price = 5 /\ w.freshness = 5
  BY WeightsAre
<1>5. R \in Int /\ C \in Int
  OBVIOUS
<1> HIDE DEF w, R, C, x, y, Sf, Sg
<1>6. Sg >= Sf /\ (g.hourly < f.hourly => Sg > Sf)
  <2>1. CASE w.price = 8 /\ w.freshness = 2
    BY <1>1, <1>2, <1>3, <1>5, <2>1
  <2>2. CASE w.price = 2 /\ w.freshness = 8
    BY <1>1, <1>2, <1>3, <1>5, <2>2
  <2>3. CASE w.price = 5 /\ w.freshness = 5
    BY <1>1, <1>2, <1>3, <1>5, <2>3
  <2>4. QED
    BY <1>4, <2>1, <2>2, <2>3
<1>7. QED
  BY <1>6 DEF Sf, Sg

\* What scores no less than the cheapest costs no more above it than the TTL's
\* freshness is worth.
LEMMA ScoreBoundsThePrice ==
  ASSUME NEW preference \in Preferences,
         NEW facts, IsFiniteSet(facts), \A h \in facts : FactOK(h),
         NEW f \in facts, NEW g \in facts, g.hourly = Cheapest(facts),
         Score(f, facts, preference) >= Score(g, facts, preference)
  PROVE  LET w == Weights[preference]
         IN  w.price * 60 * (f.hourly - Cheapest(facts))
               <= w.freshness * CacheTTL * (Dearest(facts) - Cheapest(facts))
<1> DEFINE w == Weights[preference]
           R == PriceRange(facts)
           C == Cheapest(facts)
           D == Dearest(facts)
           x == R * Fresh(f)
           y == R * Fresh(g)
           Sf == Score(f, facts, preference)
           Sg == Score(g, facts, preference)
<1>1. /\ C \in Nat /\ D \in Nat /\ C <= f.hourly /\ f.hourly <= D
      /\ R \in Nat \ {0} /\ D - C \in Nat /\ (D # C => R = D - C)
  BY PricesAreBounded
<1>2. f.hourly \in Nat /\ g.hourly \in Nat
  BY DEF FactOK
<1>3. /\ x \in Nat /\ y \in Nat
      /\ Sf = w.price * 60 * (R - (f.hourly - C)) + w.freshness * x
      /\ Sg = w.price * 60 * (R - (g.hourly - C)) + w.freshness * y
  BY <1>1, ScoreIs
<1>4. \/ w.price = 8 /\ w.freshness = 2
      \/ w.price = 2 /\ w.freshness = 8
      \/ w.price = 5 /\ w.freshness = 5
  BY WeightsAre
<1>5. CacheTTL \in Nat
  BY RankingAssumption
<1>6. /\ R * 60 \in Int /\ x <= R * 60
      /\ R * (60 - CacheTTL) \in Int /\ R * (60 - CacheTTL) <= y
  <2>1. /\ Fresh(f) \in Int /\ Fresh(f) <= 60
        /\ Fresh(g) \in Int /\ 60 - CacheTTL <= Fresh(g)
    BY FreshIs
  <2>2. 60 - CacheTTL \in Int /\ R \in Nat
    BY <1>1, <1>5
  <2> HIDE DEF R
  <2>3. QED
    BY <2>1, <2>2, TimesMonotone
<1>7. Sf >= Sg /\ g.hourly = C
  OBVIOUS
<1> HIDE DEF w, R, C, D, x, y, Sf, Sg
<1>8. R * CacheTTL \in Nat /\ R * (60 - CacheTTL) = R * 60 - R * CacheTTL
  BY <1>1, <1>5
<1>9. x - y <= R * CacheTTL
  BY <1>1, <1>3, <1>5, <1>6, <1>8
<1>10. w.price * 60 * (f.hourly - C) <= w.freshness * (x - y)
  <2>1. CASE w.price = 8 /\ w.freshness = 2
    BY <1>1, <1>2, <1>3, <1>7, <2>1
  <2>2. CASE w.price = 2 /\ w.freshness = 8
    BY <1>1, <1>2, <1>3, <1>7, <2>2
  <2>3. CASE w.price = 5 /\ w.freshness = 5
    BY <1>1, <1>2, <1>3, <1>7, <2>3
  <2>4. QED
    BY <1>4, <2>1, <2>2, <2>3
<1>11. w.price * 60 * (f.hourly - C) <= w.freshness * (R * CacheTTL)
  BY <1>1, <1>2, <1>3, <1>4, <1>8, <1>9, <1>10
<1>12. CASE D = C
  <2>1. f.hourly - C = 0 /\ D - C = 0
    BY <1>1, <1>2, <1>12
  <2>2. w.price * 60 * 0 = 0 /\ w.freshness * CacheTTL * 0 = 0
    BY <1>4, <1>5
  <2>3. w.price * 60 * (f.hourly - C) <= w.freshness * CacheTTL * (D - C)
    BY <2>1, <2>2
  <2>4. QED
    BY <2>3 DEF w, C, D
<1>13. CASE D # C
  <2>1. D - C = R
    BY <1>1, <1>13
  <2>2. w.freshness * CacheTTL * R = w.freshness * (R * CacheTTL)
    BY <1>1, <1>4, <1>5
  <2>3. w.price * 60 * (f.hourly - C) <= w.freshness * CacheTTL * (D - C)
    BY <1>11, <2>1, <2>2
  <2>4. QED
    BY <2>3 DEF w, C, D
<1>14. QED
  BY <1>12, <1>13

----------------------------------------------------------------------------
(* The invariant.                                                          *)

\* A list of facts of p, on the places a filter has left of a feed's rows.
FactsOf(p, facts) ==
  /\ IsFiniteSet(DOMAIN facts) /\ DOMAIN facts \subseteq Int
  /\ \A i \in DOMAIN facts : FactOK(facts[i]) /\ facts[i].provider = p

CacheInv ==
  /\ cache = [p \in Providers |-> cache[p]]
  /\ \A p \in Providers :
       /\ cache[p].status \in {"ok", "failed", "stale"}
       /\ FactsOf(p, cache[p].facts)
       /\ cache[p].status # "ok" => DOMAIN cache[p].facts = {}

\* An answer is what its request gets from the cache as it is.
AnswerInv ==
  /\ Ranking => /\ answer.request.preference \in Preferences
                /\ answer.result = FilterAndScore(answer.request)
  /\ answer.route = "quote" => /\ answer.request \in QuoteRequests
                               /\ answer.result = BuildQuotes(answer.request)

RankInv == CacheInv /\ AnswerInv

LEMMA NoFactsOf ==
  ASSUME NEW p
  PROVE  FactsOf(p, NoFacts) /\ DOMAIN NoFacts = {}
<1>1. DOMAIN NoFacts = {}
  BY DEF NoFacts
<1>2. QED
  BY <1>1, FS_EmptySet DEF FactsOf

\* RunPod's adapter lets only typed facts through, whatever the catalogue.
LEMMA RunPodFactsOf ==
  ASSUME NEW rows \in Catalogues, NEW age \in Ages
  PROVE  FactsOf(RunPod, RunPodFacts(rows, age))
<1> DEFINE kept == {k \in DOMAIN rows : Usable(rows[k])}
<1>1. DOMAIN rows = 1 .. Len(rows) /\ Len(rows) \in Nat
  BY RankingAssumption
<1>2. IsFiniteSet(kept) /\ kept \subseteq Int
  <2>1. IsFiniteSet(1 .. Len(rows))
    <3> DEFINE n == Len(rows)
    <3> HIDE DEF n
    <3>1. n \in Int /\ 1 \in Int
      BY <1>1 DEF n
    <3>2. IsFiniteSet(1 .. n)
      BY ONLY <3>1, FS_Interval
    <3>3. QED
      BY <3>2 DEF n
  <2>2. kept \subseteq 1 .. Len(rows)
    BY <1>1
  <2>3. QED
    BY <1>1, <2>1, <2>2, FS_Subset
<1>3. ASSUME NEW i \in kept
      PROVE  FactOK(Fact(rows[i], age)) /\ Fact(rows[i], age).provider = RunPod
  <2> DEFINE row == rows[i]
  <2>1. row \in Range(rows)
    BY DEF Range
  <2>2. row.onDemand \in Int /\ row.spot \in Int /\ row.count \in Int
    BY <2>1, RankingAssumption
  <2>3. Rate(row) \in Int
    BY <2>2 DEF Rate
  <2>4. row.count > 0 /\ row.count * Rate(row) > 0
    BY DEF Usable
  <2>5. /\ Fact(row, age).provider = RunPod
        /\ Fact(row, age).count = row.count
        /\ Fact(row, age).hourly = row.count * Rate(row)
        /\ Fact(row, age).age = age
    BY DEF Fact
  <2>6. age \in 0 .. CacheTTL
    BY RankingAssumption
  <2> HIDE DEF row
  <2>7. row.count * Rate(row) \in Nat \ {0}
    BY <2>2, <2>3, <2>4
  <2>8. row.count \in Nat \ {0}
    BY <2>2, <2>4
  <2>9. FactOK(Fact(row, age))
    BY <2>5, <2>6, <2>7, <2>8 DEF FactOK
  <2>10. QED
    BY <2>5, <2>9 DEF row
<1>4. RunPodFacts(rows, age) = [i \in kept |-> Fact(rows[i], age)]
  BY DEF RunPodFacts
<1> HIDE DEF kept
<1>5. QED
  BY <1>2, <1>3, <1>4 DEF FactsOf

\* And so do the adapters of the fixtures.
LEMMA FixtureFactsOf ==
  ASSUME NEW p \in {Lambda, CoreWeave}, NEW age \in Ages
  PROVE  FactsOf(p, FixtureFacts(p, age))
<1> DEFINE rows == FixtureRows[p]
           kept == {k \in DOMAIN rows : FixtureUsable(p, rows[k])}
<1>1. DOMAIN rows = 1 .. Len(rows) /\ Len(rows) \in Nat
  BY RankingAssumption
<1>2. IsFiniteSet(kept) /\ kept \subseteq Int
  <2>1. IsFiniteSet(1 .. Len(rows))
    <3> DEFINE n == Len(rows)
    <3> HIDE DEF n
    <3>1. n \in Int /\ 1 \in Int
      BY <1>1 DEF n
    <3>2. IsFiniteSet(1 .. n)
      BY ONLY <3>1, FS_Interval
    <3>3. QED
      BY <3>2 DEF n
  <2>2. kept \subseteq 1 .. Len(rows)
    BY <1>1
  <2>3. QED
    BY <1>1, <2>1, <2>2, FS_Subset
<1>3. ASSUME NEW i \in kept
      PROVE  FactOK(FixtureFact(p, rows[i], age)) /\ FixtureFact(p, rows[i], age).provider = p
  <2>1. rows[i] \in Range(rows)
    BY DEF Range
  <2>2. rows[i].hourly \in Int /\ rows[i].count \in Int
    BY <2>1, RankingAssumption
  <2>3. rows[i].count > 0 /\ rows[i].hourly > 0
    BY DEF FixtureUsable
  <2>4. age \in 0 .. CacheTTL
    BY RankingAssumption
  <2>5. QED
    BY <2>2, <2>3, <2>4 DEF FixtureFact, FactOK
<1>4. FixtureFacts(p, age) = [i \in kept |-> FixtureFact(p, rows[i], age)]
  BY DEF FixtureFacts
<1> HIDE DEF kept, rows
<1>5. QED
  BY <1>2, <1>3, <1>4 DEF FactsOf

LEMMA InitRank == Init => RankInv
<1> SUFFICES ASSUME Init PROVE RankInv
  OBVIOUS
<1>1. \A p \in Providers : cache[p].status = "failed" /\ cache[p].facts = NoFacts
  BY DEF Init
<1>2. cache = [p \in Providers |-> cache[p]]
  BY DEF Init
<1>3. CacheInv
  BY <1>1, <1>2, NoFactsOf DEF CacheInv
<1>4. answer.route = "none"
  BY DEF Init, NoAnswer
<1>5. QED
  BY <1>3, <1>4 DEF RankInv, AnswerInv, Ranking

\* A feed's entry is replaced by another sound one.
LEMMA RefreshKeepsCache ==
  ASSUME CacheInv, NEW p \in Providers, NEW status \in {"ok", "failed", "stale"},
         NEW facts, FactsOf(p, facts), status # "ok" => DOMAIN facts = {},
         cache' = [cache EXCEPT ![p] = [status |-> status, facts |-> facts]]
  PROVE  CacheInv'
<1>1. cache' = [q \in Providers |->
                  IF q = p THEN [status |-> status, facts |-> facts] ELSE cache[q]]
  BY DEF CacheInv
<1>2. \A q \in Providers : cache'[q] =
         IF q = p THEN [status |-> status, facts |-> facts] ELSE cache[q]
  BY <1>1
<1>3. cache' = [q \in Providers |-> cache'[q]]
  BY <1>1
<1>4. ASSUME NEW q \in Providers
      PROVE  /\ cache'[q].status \in {"ok", "failed", "stale"}
             /\ FactsOf(q, cache'[q].facts)
             /\ cache'[q].status # "ok" => DOMAIN cache'[q].facts = {}
  <2>1. CASE q = p
    <3>1. cache'[q].status = status /\ cache'[q].facts = facts
      BY <1>2, <2>1
    <3>2. QED
      BY <2>1, <3>1
  <2>2. CASE q # p
    <3>1. cache'[q] = cache[q]
      BY <1>2, <2>2
    <3>2. QED
      BY <3>1 DEF CacheInv
  <2>3. QED
    BY <2>1, <2>2
<1>5. QED
  BY <1>3, <1>4 DEF CacheInv, FactsOf, FactOK

----------------------------------------------------------------------------
(* What a ranking lists.                                                   *)

LEMMA PlacesAreSound ==
  ASSUME CacheInv
  PROVE  /\ IsFiniteSet(AllFacts) /\ AllFacts \in SUBSET (Int \X Int)
         /\ \A e \in AllFacts :
              /\ FactOK(At(e))
              /\ At(e).provider \in Providers
              /\ cache[At(e).provider].status = "ok"
<1> DEFINE D == DOMAIN cache[RunPod].facts \cup DOMAIN cache[Lambda].facts
                  \cup DOMAIN cache[CoreWeave].facts
<1>1. Providers = {RunPod, Lambda, CoreWeave}
  BY RankingAssumption
<1>2. DOMAIN Feeds = 1 .. Len(Feeds) /\ Len(Feeds) \in Nat
  BY RankingAssumption
<1>3. \A n \in DOMAIN Feeds : Feeds[n] \in Providers
  BY DEF Providers, Range
<1>4. \A p \in Providers : FactsOf(p, cache[p].facts) /\ DOMAIN cache[p].facts \subseteq D
  BY <1>1 DEF CacheInv
<1>5. IsFiniteSet(D)
  <2>1. /\ IsFiniteSet(DOMAIN cache[RunPod].facts)
        /\ IsFiniteSet(DOMAIN cache[Lambda].facts)
        /\ IsFiniteSet(DOMAIN cache[CoreWeave].facts)
    BY <1>1, <1>4 DEF FactsOf
  <2>2. IsFiniteSet(DOMAIN cache[RunPod].facts \cup DOMAIN cache[Lambda].facts)
    BY <2>1, FS_Union
  <2>3. QED
    BY <2>1, <2>2, FS_Union
<1>6. D \subseteq Int
  BY <1>1, <1>4 DEF FactsOf
<1> HIDE DEF D
<1>7. AllFacts \subseteq (DOMAIN Feeds) \X D
  BY <1>3, <1>4 DEF AllFacts
<1>8. IsFiniteSet(AllFacts)
  <2>1. IsFiniteSet(DOMAIN Feeds)
    BY <1>2, FS_Interval
  <2>2. IsFiniteSet((DOMAIN Feeds) \X D)
    BY <1>5, <2>1, FS_Product
  <2>3. QED
    BY <1>7, <2>2, FS_Subset
<1>9. AllFacts \in SUBSET (Int \X Int)
  <2>1. DOMAIN Feeds \subseteq Int
    BY <1>2
  <2>2. (DOMAIN Feeds) \X D \subseteq Int \X Int
    BY ONLY <1>6, <2>1
  <2>3. QED
    BY ONLY <1>7, <2>2
<1>10. ASSUME NEW e \in AllFacts
       PROVE  /\ FactOK(At(e))
              /\ At(e).provider \in Providers
              /\ cache[At(e).provider].status = "ok"
  <2>1. PICK n \in DOMAIN Feeds : \E i \in DOMAIN cache[Feeds[n]].facts : e = <<n, i>>
    BY DEF AllFacts
  <2>2. PICK i \in DOMAIN cache[Feeds[n]].facts : e = <<n, i>>
    BY <2>1
  <2>3. Feeds[n] \in Providers
    BY <1>3
  <2>4. At(e) = cache[Feeds[n]].facts[i]
    BY <2>2 DEF At
  <2>5. FactOK(At(e)) /\ At(e).provider = Feeds[n]
    BY <1>4, <2>3, <2>4 DEF FactsOf
  <2>6. cache[Feeds[n]].status = "ok"
    BY <2>3 DEF CacheInv
  <2>7. QED
    BY <2>3, <2>5, <2>6
<1>11. QED
  BY <1>8, <1>9, <1>10

\* The facts at some places: finite and typed.
LEMMA FactsAtSound ==
  ASSUME CacheInv, NEW S \in SUBSET AllFacts
  PROVE  /\ IsFiniteSet(S) /\ IsFiniteSet(FactsAt(S))
         /\ \A f \in FactsAt(S) : FactOK(f)
         /\ \A e \in S : At(e) \in FactsAt(S)
<1>1. IsFiniteSet(S)
  BY PlacesAreSound, FS_Subset
<1>2. [e \in S |-> At(e)] \in Surjection(S, FactsAt(S))
  BY DEF Surjection, FactsAt
<1>3. IsFiniteSet(FactsAt(S))
  BY <1>1, <1>2, FS_Surjection
<1>4. \A f \in FactsAt(S) : FactOK(f)
  BY PlacesAreSound DEF FactsAt
<1>5. QED
  BY <1>1, <1>3, <1>4 DEF FactsAt

\* Ranked lists each place once, in the order of Precedes.
LEMMA RankedIsSorted ==
  ASSUME CacheInv, NEW S \in SUBSET AllFacts, NEW preference \in Preferences
  PROVE  /\ Cardinality(S) \in Nat
         /\ Ranked(S, preference) \in Bijection(1 .. Cardinality(S), S)
         /\ \A i, j \in 1 .. Cardinality(S) :
              Precedes(Ranked(S, preference)[i], Ranked(S, preference)[j],
                       FactsAt(S), preference) <=> i < j
<1> DEFINE facts == FactsAt(S)
           before == {p \in S \X S : Precedes(p[1], p[2], facts, preference)}
           A == [e \in S |-> Score(At(e), facts, preference)]
           B == [e \in S |-> At(e).hourly]
           C == [e \in S |-> At(e).age]
<1>1. /\ IsFiniteSet(S) /\ IsFiniteSet(facts)
      /\ \A f \in facts : FactOK(f)
      /\ \A e \in S : At(e) \in facts
  BY FactsAtSound
<1>2. \A d, e \in S : <<d, e>> \in before <=> Precedes(d, e, facts, preference)
  OBVIOUS
<1>3. StrictOrder(S, before)
  <2>1. CASE S = {}
    BY <2>1 DEF StrictOrder
  <2>2. CASE S # {}
    <3>1. facts # {}
      BY <1>1, <2>2
    <3>2. PriceRange(facts) \in Nat /\ Cheapest(facts) \in Nat
      BY <1>1, <3>1, PricesAreBounded
    <3>3. A \in [S -> Int]
      BY <1>1, <3>2, ScoreIs
    <3>4. B \in [S -> Int] /\ C \in [S -> Int]
      BY <1>1, RankingAssumption DEF FactOK
    <3>5. S \in SUBSET (Int \X Int)
      BY PlacesAreSound
    <3>6. before = ByKeys(S, A, B, C)
      BY DEF Precedes, ByKeys
    <3> HIDE DEF before, A, B, C
    <3>7. QED
      BY <3>3, <3>4, <3>5, <3>6, StableOrder
  <2>3. QED
    BY <2>1, <2>2
<1>4. Ranked(S, preference) = Sorted(S, before)
  BY DEF Ranked
<1> HIDE DEF before
<1>5. /\ Cardinality(S) \in Nat
      /\ Sorted(S, before) \in Bijection(1 .. Cardinality(S), S)
      /\ \A i, j \in 1 .. Cardinality(S) :
           <<Sorted(S, before)[i], Sorted(S, before)[j]>> \in before <=> i < j
  BY <1>1, <1>3, SortedIsBijection
<1>6. \A i \in 1 .. Cardinality(S) : Sorted(S, before)[i] \in S
  BY <1>5 DEF Bijection, Injection
<1>7. QED
  BY <1>2, <1>4, <1>5, <1>6

\* The places whose facts a ranking lists.
Filtered(request) == {e \in Stock : Matches(request, At(e))}

\* What FilterAndScore answers: the facts of Ranked, in its order.
LEMMA RankingLists ==
  ASSUME CacheInv, NEW request, request.preference \in Preferences
  PROVE  LET S == Filtered(request)
             result == FilterAndScore(request)
         IN  /\ S \in SUBSET AllFacts
             /\ result.status \in {"no_inventory", "no_match", "ok"}
             /\ result.status = "ok" <=> S # {}
             /\ result.status = "no_inventory" <=> Stock = {}
             /\ S = {} => result.ranked = << >>
             /\ DOMAIN result.ranked = 1 .. Cardinality(S)
             /\ \A k \in 1 .. Cardinality(S) :
                  result.ranked[k] = At(Ranked(S, request.preference)[k])
<1> DEFINE S == Filtered(request)
           result == FilterAndScore(request)
<1>1. S \in SUBSET AllFacts
  BY DEF Filtered, Stock
<1>2. CASE S = {}
  <2>1. /\ result.status \in {"no_inventory", "no_match"}
        /\ result.status = "no_inventory" <=> Stock = {}
        /\ result.ranked = << >>
    BY <1>2 DEF FilterAndScore, Filtered
  <2>2. Cardinality(S) = 0
    BY <1>2, FS_EmptySet
  <2>3. DOMAIN result.ranked = 1 .. 0 /\ 1 .. 0 = {}
    BY <2>1
  <2> HIDE DEF S, result
  <2>4. QED
    BY <1>1, <1>2, <2>1, <2>2, <2>3 DEF S, result
<1>3. CASE S # {}
  <2> DEFINE s == Ranked(S, request.preference)
  <2>1. Stock # {}
    BY <1>3 DEF Filtered
  <2>2. result = [status |-> "ok", ranked |-> Listed(s)]
    BY <1>3, <2>1 DEF FilterAndScore, Filtered
  <2>3. DOMAIN s = 1 .. Cardinality(S)
    BY <1>1, RankedIsSorted DEF Bijection, Injection
  <2>4. /\ result.status = "ok" /\ result.ranked = Listed(s)
    BY <2>2
  <2>5. /\ DOMAIN Listed(s) = 1 .. Cardinality(S)
        /\ \A k \in 1 .. Cardinality(S) : Listed(s)[k] = At(s[k])
    BY <2>3 DEF Listed
  <2> HIDE DEF S, result
  <2>6. QED
    BY <1>1, <1>3, <2>1, <2>4, <2>5 DEF S, result
<1>4. QED
  BY <1>2, <1>3

----------------------------------------------------------------------------
(* Preservation.                                                           *)

LEMMA CacheStep ==
  ASSUME CacheInv, [Next]_vars
  PROVE  CacheInv'
<1>1. Providers = {RunPod, Lambda, CoreWeave}
  BY RankingAssumption
<1>2. CASE RefreshRunPod
  <2>1. PICK rows \in Catalogues, age \in Ages :
          cache' = [cache EXCEPT ![RunPod] =
                      [status |-> "ok", facts |-> RunPodFacts(rows, age)]]
    BY <1>2 DEF RefreshRunPod
  <2>2. FactsOf(RunPod, RunPodFacts(rows, age))
    BY RunPodFactsOf
  <2>3. QED
    BY <1>1, <2>1, <2>2, RefreshKeepsCache
<1>3. ASSUME NEW p \in {Lambda, CoreWeave}, RefreshFixture(p)
      PROVE  CacheInv'
  <2>1. PICK age \in Ages :
          cache' = [cache EXCEPT ![p] =
                      [status |-> "ok", facts |-> FixtureFacts(p, age)]]
    BY <1>3 DEF RefreshFixture
  <2>2. FactsOf(p, FixtureFacts(p, age))
    BY FixtureFactsOf
  <2>3. QED
    BY <1>1, <2>1, <2>2, RefreshKeepsCache
<1>4. ASSUME NEW p \in Providers, LoseFacts(p)
      PROVE  CacheInv'
  <2>1. PICK status \in {"failed", "stale"} :
          cache' = [cache EXCEPT ![p] = [status |-> status, facts |-> NoFacts]]
    BY <1>4 DEF LoseFacts
  <2>2. FactsOf(p, NoFacts) /\ DOMAIN NoFacts = {}
    BY NoFactsOf
  <2>3. QED
    BY <2>1, <2>2, RefreshKeepsCache
<1>5. CASE \/ \E request \in RankRequests : AnswerRank(request) \/ AnswerBook(request)
           \/ AnswerSample
           \/ \E request \in QuoteRequests : AnswerQuote(request)
           \/ UNCHANGED vars
  <2>1. cache' = cache
    BY <1>5 DEF AnswerRank, AnswerBook, AnswerSample, AnswerQuote, vars
  <2>2. QED
    BY <2>1 DEF CacheInv, FactsOf, FactOK
<1>6. QED
  BY <1>2, <1>3, <1>4, <1>5 DEF Next

\* The same cache gives the same answers.
LEMMA SameCacheSameAnswers ==
  ASSUME cache' = cache, NEW request
  PROVE  /\ FilterAndScore(request)' = FilterAndScore(request)
         /\ BuildQuotes(request)' = BuildQuotes(request)
<1> DEFINE cost(f) == EffectiveCost(f, request.workload)
           cheaper == {p \in Quoted(request) \X Quoted(request) :
                         \/ cost(At(p[1])) < cost(At(p[2]))
                         \/ cost(At(p[1])) = cost(At(p[2])) /\ Earlier(p[1], p[2])}
           places == Sorted(Quoted(request), cheaper)
           quotes == Listed(places)
           result == [quotes   |-> quotes,
                      costs    |-> [i \in DOMAIN quotes |-> cost(quotes[i])],
                      excluded |-> Excluded]
<1>1. FilterAndScore(request)' = FilterAndScore(request)
  BY SMT DEF FilterAndScore, Stock, AllFacts, At, Listed, Ranked, FactsAt, Precedes
<1>2. Excluded' = Excluded
  BY DEF Excluded
<1>3. Quoted(request)' = Quoted(request)
  BY <1>2 DEF Quoted, AllFacts, At
<1>4. cheaper' = cheaper
  BY <1>3 DEF At
<1>5. places' = places
  BY <1>3, <1>4
<1>6. quotes' = quotes
  BY <1>5 DEF Listed, At
<1>7. BuildQuotes(request) = result /\ BuildQuotes(request)' = result'
  BY DEF BuildQuotes
<1> HIDE DEF quotes
<1>8. result' = result
  BY <1>2, <1>6
<1>9. QED
  BY <1>1, <1>7, <1>8

\* What book ranks first can be booked.
LEMMA RankedIsBookable ==
  ASSUME CacheInv, NEW request, request.preference \in Preferences,
         FilterAndScore(request).status = "ok"
  PROVE  FilterAndScore(request).ranked[1].provider \in Bookable
<1> DEFINE S == Filtered(request)
           s == Ranked(S, request.preference)
<1>1. S \in SUBSET AllFacts /\ S # {}
  BY RankingLists
<1>2. IsFiniteSet(S)
  BY <1>1, FactsAtSound
<1>3. Cardinality(S) \in Nat \ {0}
  BY <1>1, <1>2, FS_EmptySet, FS_CardinalityType
<1>4. s[1] \in S
  BY <1>1, <1>3, RankedIsSorted DEF Bijection, Injection
<1>5. FilterAndScore(request).ranked[1] = At(s[1])
  BY <1>3, RankingLists
<1>6. \A e \in S : At(e).provider \in Bookable
  BY DEF Filtered, Stock
<1>7. QED
  BY <1>4, <1>5, <1>6

LEMMA AnswerStep ==
  ASSUME RankInv, [Next]_vars
  PROVE  AnswerInv'
<1>1. CacheInv /\ AnswerInv
  BY DEF RankInv
<1>2. ASSUME answer' = NoAnswer
      PROVE  AnswerInv'
  BY <1>2 DEF NoAnswer, AnswerInv, Ranking
<1>3. ASSUME NEW request, request.preference \in Preferences, cache' = cache,
             NEW route \in {"rank", "sample", "book"},
             answer' = [route |-> route, request |-> request,
                        result |-> FilterAndScore(request)]
      PROVE  AnswerInv'
  <2>1. /\ answer'.route = route /\ answer'.request = request
        /\ answer'.result = FilterAndScore(request)
    BY <1>3
  <2>2. FilterAndScore(request)' = FilterAndScore(request)
    BY <1>3, SameCacheSameAnswers
  <2>3. QED
    BY <1>3, <2>1, <2>2 DEF AnswerInv, Preferences
<1>4. \A request \in RankRequests : request.preference \in Preferences
  BY RankingAssumption
<1>5. ASSUME NEW request \in RankRequests, AnswerRank(request)
      PROVE  AnswerInv'
  BY <1>3, <1>4, <1>5 DEF AnswerRank
<1>6. ASSUME NEW request \in RankRequests, AnswerBook(request)
      PROVE  AnswerInv'
  <2>1. FilterAndScore(request).status = "ok" =>
          FilterAndScore(request).ranked[1].provider \in Bookable
    BY <1>1, <1>4, RankedIsBookable
  <2>2. answer' = [route |-> "book", request |-> request,
                   result |-> FilterAndScore(request)]
    BY <1>6, <2>1 DEF AnswerBook
  <2>3. cache' = cache
    BY <1>6 DEF AnswerBook
  <2>4. QED
    BY <1>3, <1>4, <2>2, <2>3
<1>7. CASE AnswerSample
  <2>1. SampleRequest.preference \in Preferences
    BY DEF SampleRequest, Preferences
  <2>2. QED
    BY <1>3, <1>7, <2>1 DEF AnswerSample
<1>8. ASSUME NEW request \in QuoteRequests, AnswerQuote(request)
      PROVE  AnswerInv'
  <2>1. /\ answer'.route = "quote" /\ answer'.request = request
        /\ answer'.result = BuildQuotes(request)
    BY <1>8 DEF AnswerQuote
  <2>2. BuildQuotes(request)' = BuildQuotes(request)
    BY <1>8, SameCacheSameAnswers DEF AnswerQuote
  <2>3. QED
    BY <2>1, <2>2 DEF AnswerInv, Ranking
<1>9. CASE UNCHANGED vars
  <2>1. cache' = cache /\ answer' = answer
    BY <1>9 DEF vars
  <2>2. /\ FilterAndScore(answer.request)' = FilterAndScore(answer.request)
        /\ BuildQuotes(answer.request)' = BuildQuotes(answer.request)
    BY <2>1, SameCacheSameAnswers
  <2>3. QED
    BY <1>1, <2>1, <2>2 DEF AnswerInv, Ranking, Preferences
<1>10. QED
  BY <1>2, <1>5, <1>6, <1>7, <1>8, <1>9
     DEF Next, RefreshRunPod, RefreshFixture, LoseFacts

LEMMA RankInvariant == Spec => []RankInv
<1>1. RankInv /\ [Next]_vars => RankInv'
  BY CacheStep, AnswerStep DEF RankInv
<1>2. QED
  BY <1>1, InitRank, PTL DEF Spec

----------------------------------------------------------------------------
(* The theorems.                                                           *)

\* A ranking in the terms of the lemmas: the facts at S, in the order of s.
LEMMA RankingIs ==
  ASSUME RankInv, Ranking
  PROVE  LET S == Filtered(answer.request)
             s == Ranked(S, answer.request.preference)
         IN  /\ S \in SUBSET AllFacts /\ IsFiniteSet(S) /\ Cardinality(S) \in Nat
             /\ s \in Bijection(1 .. Cardinality(S), S)
             /\ \A i, j \in 1 .. Cardinality(S) :
                  Precedes(s[i], s[j], FactsAt(S), answer.request.preference) <=> i < j
             /\ DOMAIN Offers = 1 .. Cardinality(S)
             /\ \A k \in 1 .. Cardinality(S) : Offers[k] = At(s[k])
             /\ S = {} => Offers = << >>
             /\ answer.result.status = "ok" <=> S # {}
             /\ answer.result.status = "no_inventory" <=> Stock = {}
             /\ answer.request.preference \in Preferences
<1> DEFINE S == Filtered(answer.request)
<1>1. /\ answer.request.preference \in Preferences /\ CacheInv
      /\ answer.result = FilterAndScore(answer.request)
      /\ Offers = FilterAndScore(answer.request).ranked
  BY DEF RankInv, AnswerInv, Offers
<1>2. S \in SUBSET AllFacts
  BY <1>1, RankingLists
<1>3. IsFiniteSet(S)
  BY <1>1, <1>2, FactsAtSound
<1>4. QED
  BY <1>1, <1>2, <1>3, RankingLists, RankedIsSorted

\* Quotes in the same terms.
LEMMA QuotesAre ==
  ASSUME CacheInv, NEW request
  PROVE  LET S == Quoted(request)
             result == BuildQuotes(request)
             n == Cardinality(S)
         IN  \E s \in Bijection(1 .. n, S) :
               /\ n \in Nat
               /\ DOMAIN result.quotes = 1 .. n /\ DOMAIN result.costs = 1 .. n
               /\ \A k \in 1 .. n :
                    /\ result.quotes[k] = At(s[k])
                    /\ result.costs[k] = EffectiveCost(At(s[k]), request.workload)
                    /\ result.costs[k] \in Int
               /\ \A i, j \in 1 .. n : i < j => result.costs[i] <= result.costs[j]
<1> DEFINE S == Quoted(request)
           n == Cardinality(S)
           cost(f) == EffectiveCost(f, request.workload)
           cheaper == {p \in S \X S :
                         \/ cost(At(p[1])) < cost(At(p[2]))
                         \/ cost(At(p[1])) = cost(At(p[2])) /\ Earlier(p[1], p[2])}
           s == Sorted(S, cheaper)
           quotes == Listed(s)
           costs == [i \in DOMAIN quotes |-> cost(quotes[i])]
           A == [e \in S |-> 0]
           C == [e \in S |-> 0]
           B == [e \in S |-> cost(At(e))]
<1>1. S \in SUBSET AllFacts
  BY DEF Quoted
<1>2. IsFiniteSet(S) /\ S \in SUBSET (Int \X Int) /\ \A e \in S : FactOK(At(e))
  BY <1>1, PlacesAreSound, FactsAtSound
<1>3. \A e \in S : cost(At(e)) \in Int
  <2>1. Storage \in Int
    BY DEF Storage, Rounded
  <2>2. Egress(request.workload) \in Int
    BY DEF Egress, Rounded
  <2>3. \A e \in S : At(e).hourly \in Int
    BY <1>2 DEF FactOK
  <2>4. \A e \in S : Summed(At(e), request.workload) \in Int
    BY <2>1, <2>2, <2>3 DEF Summed
  <2>5. QED
    BY <2>4 DEF EffectiveCost, Rounded
<1>4. \A d, e \in S : <<d, e>> \in cheaper <=>
        \/ cost(At(d)) < cost(At(e))
        \/ cost(At(d)) = cost(At(e)) /\ Earlier(d, e)
  OBVIOUS
<1>5. cheaper \in SUBSET (S \X S)
  OBVIOUS
<1>6. BuildQuotes(request).quotes = quotes /\ BuildQuotes(request).costs = costs
  BY DEF BuildQuotes
<1> HIDE DEF S, cheaper, cost
<1>7. StrictOrder(S, cheaper)
  <2>1. A \in [S -> Int] /\ B \in [S -> Int] /\ C \in [S -> Int]
    BY <1>3
  <2>2. \A e \in S : A[e] = 0 /\ B[e] = cost(At(e)) /\ C[e] = 0
    OBVIOUS
  <2> HIDE DEF A, B, C
  <2>3. cheaper = ByKeys(S, A, B, C)
    <3>1. ASSUME NEW p \in S \X S
          PROVE  p \in cheaper <=> p \in ByKeys(S, A, B, C)
      <4>1. p[1] \in S /\ p[2] \in S
        OBVIOUS
      <4>2. /\ A[p[1]] = 0 /\ A[p[2]] = 0 /\ ~(0 > 0)
            /\ C[p[1]] = 0 /\ C[p[2]] = 0 /\ ~(0 < 0)
        BY <2>2, <4>1
      <4>3. /\ B[p[1]] = cost(At(p[1])) /\ B[p[2]] = cost(At(p[2]))
        BY <2>2, <4>1
      <4>4. p \in cheaper <=>
              \/ B[p[1]] < B[p[2]]
              \/ B[p[1]] = B[p[2]] /\ Earlier(p[1], p[2])
        BY <4>3 DEF cheaper
      <4>5. p \in ByKeys(S, A, B, C) <=>
              \/ B[p[1]] < B[p[2]]
              \/ B[p[1]] = B[p[2]] /\ Earlier(p[1], p[2])
        BY <4>2 DEF ByKeys
      <4>6. QED
        BY <4>4, <4>5
    <3>2. cheaper \subseteq S \X S /\ ByKeys(S, A, B, C) \subseteq S \X S
      BY <1>5 DEF ByKeys
    <3>3. QED
      BY <3>1, <3>2
  <2>4. S \in SUBSET (Int \X Int)
    BY <1>2
  <2>5. QED
    BY <2>1, <2>3, <2>4, StableOrder
<1>8. /\ n \in Nat /\ s \in Bijection(1 .. n, S)
      /\ \A i, j \in 1 .. n : <<s[i], s[j]>> \in cheaper <=> i < j
  BY <1>2, <1>7, SortedIsBijection
<1> HIDE DEF s, n
<1>9. DOMAIN s = 1 .. n /\ \A k \in 1 .. n : s[k] \in S
  BY <1>8 DEF Bijection, Injection
<1>10. /\ DOMAIN quotes = 1 .. n /\ DOMAIN costs = 1 .. n
       /\ \A k \in 1 .. n : quotes[k] = At(s[k]) /\ costs[k] = cost(At(s[k]))
  BY <1>9 DEF Listed
<1> HIDE DEF quotes, costs
<1>11. \A k \in 1 .. n : costs[k] \in Int
  BY <1>3, <1>9, <1>10
<1>12. \A i, j \in 1 .. n : i < j => costs[i] <= costs[j]
  <2> TAKE i, j \in 1 .. n
  <2> HAVE i < j
  <2>1. <<s[i], s[j]>> \in cheaper
    BY <1>8
  <2>2. cost(At(s[i])) < cost(At(s[j])) \/ cost(At(s[i])) = cost(At(s[j]))
    BY <1>4, <1>9, <2>1
  <2>3. QED
    BY <1>10, <1>11, <2>2
<1>13. QED
  BY <1>6, <1>8, <1>10, <1>11, <1>12 DEF S, n, cost

\* Every fact an answer holds is one of the cache as it is.
LEMMA OfferIsAPlace ==
  ASSUME RankInv, NEW f \in Range(Offers)
  PROVE  \E e \in AllFacts : f = At(e)
<1>1. PICK k \in DOMAIN Offers : f = Offers[k]
  BY DEF Range
<1>2. CASE Ranking
  <2> DEFINE S == Filtered(answer.request)
             s == Ranked(S, answer.request.preference)
  <2>1. S \in SUBSET AllFacts /\ k \in 1 .. Cardinality(S) /\ f = At(s[k])
    BY <1>1, <1>2, RankingIs
  <2>2. s[k] \in S
    BY <1>2, <2>1, RankingIs DEF Bijection, Injection
  <2>3. QED
    BY <2>1, <2>2
<1>3. CASE answer.route = "quote"
  <2> DEFINE S == Quoted(answer.request)
             n == Cardinality(S)
  <2>1. CacheInv /\ Offers = BuildQuotes(answer.request).quotes
    BY <1>3 DEF RankInv, AnswerInv, Offers, Ranking
  <2>2. PICK s \in Bijection(1 .. n, S) :
          /\ DOMAIN Offers = 1 .. n
          /\ \A i \in 1 .. n : Offers[i] = At(s[i])
    BY <2>1, QuotesAre
  <2>3. s[k] \in S /\ f = At(s[k])
    BY <1>1, <2>2 DEF Bijection, Injection
  <2>4. S \subseteq AllFacts
    BY DEF Quoted
  <2>5. QED
    BY <2>3, <2>4
<1>4. CASE ~Ranking /\ answer.route # "quote"
  <2>1. Offers = << >>
    BY <1>4 DEF Offers
  <2>2. QED
    BY <1>1, <2>1
<1>5. QED
  BY <1>2, <1>3, <1>4

\* Whatever rows and requests: the cache and the answers keep their types, and
\* every fact offered has a price and GPUs.
THEOREM RankingTypeOK == Spec => []TypeOK
<1>1. RankInv => TypeOK
  <2> SUFFICES ASSUME RankInv PROVE TypeOK
    OBVIOUS
  <2>1. \A p \in Providers : cache[p].status \in {"ok", "failed", "stale"}
    BY DEF RankInv, CacheInv
  <2>2. Ranking => answer.result.status \in {"no_inventory", "no_match", "ok"}
    BY RankingLists DEF RankInv, AnswerInv
  <2>3. ASSUME NEW f \in Range(Offers)
        PROVE  f.hourly > 0 /\ f.count > 0
    <3>1. FactOK(f)
      BY <2>3, OfferIsAPlace, PlacesAreSound DEF RankInv
    <3>2. QED
      BY <3>1 DEF FactOK
  <2>4. QED
    BY <2>1, <2>2, <2>3 DEF TypeOK
<1>2. QED
  BY <1>1, RankInvariant, PTL

\* No answer holds a fact of a feed that is not ok, although a ranking never
\* looks at a feed's status.
THEOREM RankingNothingFromABadFeed == Spec => []NothingFromABadFeed
<1>1. RankInv => NothingFromABadFeed
  BY OfferIsAPlace, PlacesAreSound DEF NothingFromABadFeed, RankInv
<1>2. QED
  BY <1>1, RankInvariant, PTL

\* For any facts and weights of the code: nothing is listed above an offer that
\* is cheaper and no older, or as cheap and fresher.
THEOREM RankingNothingAboveABetterOffer == Spec => []NothingAboveABetterOffer
<1>1. RankInv => NothingAboveABetterOffer
  <2>1. SUFFICES ASSUME RankInv, Ranking,
                        NEW i \in DOMAIN Offers, NEW j \in DOMAIN Offers,
                        \/ /\ Offers[j].hourly < Offers[i].hourly
                           /\ Offers[j].age <= Offers[i].age
                        \/ /\ Offers[j].hourly = Offers[i].hourly
                           /\ Offers[j].age < Offers[i].age
                 PROVE  j < i
    BY DEF NothingAboveABetterOffer
  <2> DEFINE S == Filtered(answer.request)
             preference == answer.request.preference
             s == Ranked(S, preference)
             n == Cardinality(S)
             f == Offers[i]
             g == Offers[j]
             facts == FactsAt(S)
             Sf == Score(f, facts, preference)
             Sg == Score(g, facts, preference)
  <2>2. /\ S \in SUBSET AllFacts /\ n \in Nat /\ preference \in Preferences
        /\ i \in 1 .. n /\ j \in 1 .. n /\ s \in Bijection(1 .. n, S)
        /\ f = At(s[i]) /\ g = At(s[j])
        /\ Precedes(s[j], s[i], facts, preference) <=> j < i
    BY <2>1, RankingIs
  <2>3. s[i] \in S /\ s[j] \in S
    BY <2>2 DEF Bijection, Injection
  <2>4. FactOK(f) /\ FactOK(g)
    BY <2>1, <2>2, <2>3, PlacesAreSound DEF RankInv
  <2>5. PriceRange(facts) \in Nat /\ Cheapest(facts) \in Nat
    <3>1. facts # {}
      BY <2>3 DEF FactsAt
    <3>2. IsFiniteSet(facts) /\ \A h \in facts : FactOK(h)
      BY <2>1, <2>2, FactsAtSound DEF RankInv
    <3> HIDE DEF facts
    <3>3. QED
      BY <3>1, <3>2, PricesAreBounded
  <2>6. /\ f.hourly \in Int /\ g.hourly \in Int /\ f.age \in Int /\ g.age \in Int
    BY <2>4, RankingAssumption DEF FactOK
  <2>7. \/ g.hourly < f.hourly /\ g.age <= f.age
        \/ g.hourly = f.hourly /\ g.age < f.age
    BY <2>1
  <2> HIDE DEF f, g, facts, preference, S, s, n
  <2>8. g.hourly <= f.hourly /\ g.age <= f.age
    BY <2>6, <2>7
  <2>9. /\ Sg >= Sf /\ Sf \in Int /\ Sg \in Int
        /\ g.hourly < f.hourly => Sg > Sf
    BY <2>2, <2>4, <2>5, <2>8, ScoreDominates, ScoreIs
  <2> HIDE DEF Sf, Sg
  <2>10. \/ Sg > Sf
         \/ Sg = Sf /\ g.hourly = f.hourly /\ g.age < f.age
    BY <2>6, <2>7, <2>9
  <2>11. Precedes(s[j], s[i], facts, preference)
    BY <2>2, <2>10 DEF Precedes, Sf, Sg
  <2>12. QED
    BY <2>2, <2>11
<1>2. QED
  BY <1>1, RankInvariant, PTL

\* What the recommendation may cost above the cheapest match is bounded by what
\* the freshness the TTL allows is worth in the preference's weights.
THEOREM RankingPreferenceIsHonoured == Spec => []PreferenceIsHonoured
<1>1. RankInv => PreferenceIsHonoured
  <2>1. SUFFICES ASSUME RankInv, Ranking, Offers # << >>
                 PROVE  PreferenceIsHonoured
    BY DEF PreferenceIsHonoured
  <2> DEFINE S == Filtered(answer.request)
             preference == answer.request.preference
             s == Ranked(S, preference)
             n == Cardinality(S)
             facts == FactsAt(S)
             f == Offers[1]
             w == Weights[preference]
  <2>2. /\ S \in SUBSET AllFacts /\ n \in Nat /\ preference \in Preferences
        /\ IsFiniteSet(S) /\ s \in Bijection(1 .. n, S)
        /\ \A i, j \in 1 .. n :
             Precedes(s[i], s[j], FactsAt(S), preference) <=> i < j
        /\ DOMAIN Offers = 1 .. n /\ S # {}
        /\ \A k \in 1 .. n : Offers[k] = At(s[k])
    BY <2>1, RankingIs
  <2>3. 1 \in 1 .. n
    BY <2>2, FS_EmptySet
  <2>4. /\ \A k \in 1 .. n : s[k] \in S
        /\ \A e \in S : \E k \in 1 .. n : s[k] = e
    BY <2>2 DEF Bijection, Injection, Surjection
  <2>5. Range(Offers) = facts
    <3>1. Range(Offers) = {At(s[k]) : k \in 1 .. n}
      BY <2>2 DEF Range
    <3>2. {At(s[k]) : k \in 1 .. n} = {At(e) : e \in S}
      <4> HIDE DEF s, n, S
      <4>1. QED
        BY <2>4
    <3>3. QED
      BY <3>1, <3>2 DEF FactsAt
  <2>6. f = At(s[1]) /\ f \in facts
    BY <2>2, <2>3, <2>4 DEF FactsAt
  <2>7. IsFiniteSet(facts) /\ \A h \in facts : FactOK(h)
    BY <2>1, <2>2, FactsAtSound DEF RankInv
  <2>8. PICK g \in facts : g.hourly = Cheapest(facts)
    BY <2>6, <2>7, PricesAreBounded
  <2>9. Score(f, facts, preference) >= Score(g, facts, preference)
    <3>1. PICK k \in 1 .. n : At(s[k]) = g
      BY <2>4 DEF FactsAt
    <3>2. PriceRange(facts) \in Nat /\ Cheapest(facts) \in Nat
      BY <2>6, <2>7, PricesAreBounded
    <3>3. Score(f, facts, preference) \in Int /\ Score(g, facts, preference) \in Int
      BY <2>2, <2>6, <2>7, <3>2, ScoreIs
    <3>4. ~Precedes(s[k], s[1], facts, preference)
      BY <2>2, <2>3
    <3>5. ~(Score(g, facts, preference) > Score(f, facts, preference))
      BY <2>6, <3>1, <3>4 DEF Precedes
    <3>6. QED
      BY <3>3, <3>5
  <2>10. w.price * 60 * (f.hourly - Cheapest(facts))
           <= w.freshness * CacheTTL * (Dearest(facts) - Cheapest(facts))
    BY <2>2, <2>6, <2>7, <2>8, <2>9, ScoreBoundsThePrice
  <2>11. /\ preference = "cheapest" => w.price = 8 /\ w.freshness = 2
         /\ preference = "balanced" => w.price = 5 /\ w.freshness = 5
         /\ preference = "fastest" => w.price = 2 /\ w.freshness = 8
    BY DEF Weights
  <2>12. preference \in {"cheapest", "balanced", "fastest"}
    BY <2>2 DEF Preferences
  <2> HIDE DEF facts, f, w
  <2>13. QED
    BY <2>5, <2>10, <2>11, <2>12 DEF PreferenceIsHonoured, f
<1>2. QED
  BY <1>1, RankInvariant, PTL

\* Rounding tenths of a cent to cents moves a sum by less than half a cent down.
LEMMA RoundedIsNear ==
  ASSUME NEW sum \in Int
  PROVE  Rounded(sum, 10) \in Int /\ sum < 10 * Rounded(sum, 10) + 5
BY DEF Rounded

LEMMA SummedIs ==
  ASSUME NEW f, FactOK(f), NEW workload
  PROVE  Summed(f, workload) \in Int
<1>1. Storage \in Int /\ Egress(workload) \in Int
  BY DEF Storage, Egress, Rounded
<1>2. QED
  BY <1>1 DEF Summed, FactOK

\* No quote is above the caller's limit with storage and egress in, by half a cent
\* before the last rounding, and quotes come cheapest first.
THEOREM RankingQuotesKeepTheLimit == Spec => []QuotesKeepTheLimit
<1>1. RankInv => QuotesKeepTheLimit
  <2> DEFINE request == answer.request
             costs == answer.result.costs
             quotes == answer.result.quotes
             sum(i) == Summed(quotes[i], request.workload)
             limit == request.maxCost
             S == Quoted(request)
             n == Cardinality(S)
  <2>1. SUFFICES ASSUME RankInv, answer.route = "quote",
                        NEW i \in DOMAIN costs
                 PROVE  /\ \/ limit = Unset
                           \/ 10 * costs[i] <= limit /\ sum(i) < limit + 5
                        /\ i > 1 => costs[i - 1] <= costs[i]
    BY DEF QuotesKeepTheLimit
  <2>2. /\ CacheInv /\ limit \in Int \cup {Unset}
        /\ costs = BuildQuotes(request).costs
        /\ quotes = BuildQuotes(request).quotes
    BY <2>1, RankingAssumption DEF RankInv, AnswerInv
  <2> HIDE DEF costs, quotes, limit
  <2>3. PICK s \in Bijection(1 .. n, S) :
          /\ n \in Nat /\ DOMAIN costs = 1 .. n
          /\ \A k \in 1 .. n :
               /\ quotes[k] = At(s[k])
               /\ costs[k] = EffectiveCost(At(s[k]), request.workload)
          /\ \A k, l \in 1 .. n : k < l => costs[k] <= costs[l]
    BY <2>2, QuotesAre
  <2>4. i \in 1 .. n /\ s[i] \in S
    BY <2>1, <2>3 DEF Bijection, Injection, costs
  <2>5. Quotable(request, At(s[i])) /\ s[i] \in AllFacts
    BY <2>4 DEF Quoted
  <2>6. /\ costs[i] = Rounded(sum(i), 10)
        /\ limit = Unset \/ 10 * costs[i] <= limit
    BY <2>3, <2>4, <2>5 DEF Quotable, EffectiveCost, limit
  <2>7. sum(i) \in Int
    BY <2>2, <2>3, <2>4, <2>5, PlacesAreSound, SummedIs
  <2> HIDE DEF sum
  <2>8. limit = Unset \/ (10 * costs[i] <= limit /\ sum(i) < limit + 5)
    <3> DEFINE total == sum(i)
               cents == costs[i]
    <3>1. cents \in Int /\ total < 10 * cents + 5 /\ total \in Int
      BY <2>6, <2>7, RoundedIsNear
    <3> HIDE DEF total, cents
    <3>2. CASE limit = Unset
      BY <3>2
    <3>3. CASE limit \in Int /\ 10 * cents <= limit
      <4>1. total < limit + 5
        BY <3>1, <3>3
      <4>2. QED
        BY <3>3, <4>1 DEF total, cents
    <3>4. QED
      BY <2>2, <2>6, <3>2, <3>3 DEF cents
  <2>9. i > 1 => i - 1 \in 1 .. n /\ i - 1 < i
    BY <2>3, <2>4
  <2>10. i > 1 => costs[i - 1] <= costs[i]
    BY <2>3, <2>4, <2>9
  <2>11. QED
    BY <2>8, <2>10
<1>2. QED
  BY <1>1, RankInvariant, PTL

\* The status of a ranking says whether it is empty, and why.
LEMMA StatusIsTrue ==
  ASSUME RankInv, Ranking
  PROVE  /\ answer.result.status = "ok" <=> Offers # << >>
         /\ answer.result.status = "no_inventory" <=>
              \A f \in FactsAt(AllFacts) : f.provider \notin Bookable
<1> DEFINE S == Filtered(answer.request)
           n == Cardinality(S)
<1>1. /\ IsFiniteSet(S) /\ n \in Nat /\ DOMAIN Offers = 1 .. n
      /\ S = {} => Offers = << >>
      /\ answer.result.status = "ok" <=> S # {}
      /\ answer.result.status = "no_inventory" <=> Stock = {}
  BY RankingIs
<1> HIDE DEF S
<1>2. S # {} => n >= 1
  BY <1>1, FS_EmptySet
<1> HIDE DEF n
<1>3. S # {} => 1 \in DOMAIN Offers
  BY <1>1, <1>2
<1>4. DOMAIN << >> = {}
  OBVIOUS
<1>5. Offers # << >> <=> S # {}
  BY <1>1, <1>3, <1>4
<1>6. Stock = {} <=> \A f \in FactsAt(AllFacts) : f.provider \notin Bookable
  BY DEF Stock, FactsAt
<1>7. QED
  BY <1>1, <1>5, <1>6

\* Every bookable fact that meets the request is ranked as often as the cache
\* holds it, nothing else is, and the status says whether and why there is none.
THEOREM RankingComplete == Spec => []RankingIsComplete
<1>1. RankInv => RankingIsComplete
  <2>1. SUFFICES ASSUME RankInv, Ranking, NEW f
                 PROVE  Occurrences(f) =
                          IF f.provider \in Bookable /\ Matches(answer.request, f)
                          THEN Copies(f) ELSE 0
    BY StatusIsTrue DEF RankingIsComplete
  <2> DEFINE S == Filtered(answer.request)
             n == Cardinality(S)
             s == Ranked(S, answer.request.preference)
             K == {k \in DOMAIN Offers : Offers[k] = f}
             E == {e \in AllFacts : At(e) = f}
             wanted == f.provider \in Bookable /\ Matches(answer.request, f)
  <2>2. /\ IsFiniteSet(S) /\ s \in Bijection(1 .. n, S)
        /\ DOMAIN Offers = 1 .. n
        /\ \A k \in 1 .. n : Offers[k] = At(s[k])
    BY <2>1, RankingIs
  <2>3. \A e : e \in S <=> /\ e \in AllFacts /\ At(e).provider \in Bookable
                           /\ Matches(answer.request, At(e))
    BY DEF Filtered, Stock
  <2> HIDE DEF S, n, s
  <2>4. /\ \A k \in 1 .. n : s[k] \in S
        /\ \A e \in S : \E k \in 1 .. n : s[k] = e
        /\ \A k, l \in 1 .. n : s[k] = s[l] => k = l
    BY <2>2 DEF Bijection, Injection, Surjection, IsInjective
  <2>5. CASE wanted
    <3> DEFINE t == [k \in K |-> s[k]]
    <3>1. E \subseteq S
      BY <2>3, <2>5
    <3>2. IsFiniteSet(E)
      BY <2>2, <3>1, FS_Subset
    <3>3. \A k \in K : k \in 1 .. n /\ t[k] = s[k] /\ s[k] \in E
      BY <2>2, <2>3, <2>4
    <3>4. \A e \in E : \E k \in K : t[k] = e
      BY <2>2, <2>4, <3>1
    <3>5. \A k, l \in K : t[k] = t[l] => k = l
      BY <2>4, <3>3
    <3>6. t \in [K -> E]
      BY <3>3
    <3> HIDE DEF t, K, E
    <3>7. t \in Bijection(K, E)
      BY <3>4, <3>5, <3>6 DEF Bijection, Injection, Surjection, IsInjective
    <3>8. IsFiniteSet(K) /\ Cardinality(K) = Cardinality(E)
      <4>1. t \in Injection(K, E) /\ t \in Surjection(K, E)
        BY <3>7 DEF Bijection
      <4>2. QED
        BY <3>2, <4>1, FS_Injection
    <3>9. QED
      BY <2>5, <3>8 DEF Occurrences, Copies, K, E
  <2>6. CASE ~wanted
    <3>1. K = {}
      BY <2>2, <2>3, <2>4, <2>6
    <3>2. Cardinality(K) = 0
      BY <3>1, FS_EmptySet
    <3>3. QED
      BY <2>6, <3>2 DEF Occurrences
  <2>7. QED
    BY <2>5, <2>6
<1>2. QED
  BY <1>1, RankInvariant, PTL
=============================================================================
