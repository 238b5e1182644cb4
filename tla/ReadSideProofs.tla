---------------------------- MODULE ReadSideProofs ----------------------------
(***************************************************************************)
(* Theorems about what a host reads (ReadSide), for every value of the     *)
(* constants: any facts and query, any recalled nodes, inertia and decay,  *)
(* any cells asked for.                                                    *)
(***************************************************************************)
EXTENDS ReadSide, VectorIndexProofs

-----------------------------------------------------------------------------
(* The boost between two cells. *)

LEMMA Rows ==
      /\ Listed[1] = {2, 3, 4, 8, 9, 11, 14, 15, 17, 19, 20, 22}
      /\ Listed[2] = {1, 3, 4, 13, 16, 17, 18, 19, 22, 23, 24}
      /\ Listed[3] = {1, 2, 4, 7, 10, 13, 17, 18, 21}
      /\ Listed[4] = {1, 2, 3, 13, 14, 17, 20, 21}
      /\ Listed[5] = {6, 7, 8, 11, 12, 15, 22, 23, 24}
      /\ Listed[6] = {5, 7, 8, 13, 14, 16, 17, 22}
      /\ Listed[7] = {3, 5, 6, 8, 10, 14, 15, 22}
      /\ Listed[8] = {1, 5, 6, 7, 15, 16, 18, 22, 23}
      /\ Listed[9] = {1, 10, 11, 12, 19, 20, 22, 24}
      /\ Listed[10] = {3, 7, 9, 11, 12, 18, 19, 21}
      /\ Listed[11] = {1, 5, 9, 10, 12, 19, 20, 24}
      /\ Listed[12] = {5, 9, 10, 11, 19, 21, 23, 24}
      /\ Listed[13] = {2, 3, 4, 6, 16, 17, 18, 21}
      /\ Listed[14] = {1, 4, 6, 7, 15, 17, 20, 21}
      /\ Listed[15] = {1, 5, 7, 8, 14, 16, 23, 24}
      /\ Listed[16] = {2, 6, 8, 13, 15, 18, 23, 24}
      /\ Listed[17] = {1, 2, 3, 4, 6, 13, 14, 18}
      /\ Listed[18] = {2, 3, 8, 10, 13, 16, 17, 21}
      /\ Listed[19] = {1, 2, 9, 10, 11, 12, 20, 22}
      /\ Listed[20] = {1, 4, 9, 11, 14, 19, 21, 22}
      /\ Listed[21] = {3, 4, 10, 12, 13, 14, 18, 20, 23}
      /\ Listed[22] = {1, 2, 5, 6, 7, 8, 9, 19, 20}
      /\ Listed[23] = {2, 5, 8, 12, 15, 16, 21, 24}
      /\ Listed[24] = {2, 5, 9, 11, 12, 15, 16, 23}
BY SMTT(60) DEF Listed

\* The table is symmetric.
LEMMA ListedBothWays ==
    \A a \in Cells : \A b \in Listed[a] : b \in Cells /\ a \in Listed[b]
BY Rows, SMTT(120) DEF Cells

LEMMA BoostBothWays ==
    ASSUME NEW a, NEW b
    PROVE  Boost(a, b) = Boost(b, a)
<1>1. Is4dNeighbor(a, b) <=> Is4dNeighbor(b, a)
  BY ListedBothWays DEF Is4dNeighbor, Neighbors
<1> QED
  BY <1>1 DEF Boost

ToldOne == told = {} \/ \E a, b \in AskedCells : 
    told = {[target |-> a, query |-> b, boost |-> Boost(a, b)]}

\* No caller can tell which of two cells was the target and which the query,
\* whatever bytes it asks with (topology_24cell.rs: "The adjacency graph is
\* symmetric (undirected)"; is_4d_neighbor looks at one side's list only).
THEOREM BoostsAreMutual == ReadSideSpec => []BoostIsMutual
<1>1. ReadSideInit => ToldOne
  BY DEF ReadSideInit, TopologyInit, ToldOne
<1>2. ToldOne /\ [ReadSideNext]_readSideVars => ToldOne'
  <2> SUFFICES ASSUME ToldOne, [ReadSideNext]_readSideVars
               PROVE  ToldOne'
    OBVIOUS
  <2>1. CASE told' = told
    BY <2>1 DEF ToldOne
  <2>2. CASE TopologyNext
    BY <2>2 DEF TopologyNext, AskBoost, ToldOne
  <2> QED
    BY <2>1, <2>2 DEF ReadSideNext, readSideVars
<1>3. ToldOne => BoostIsMutual
  BY BoostBothWays DEF ToldOne, BoostIsMutual
<1> QED
  BY <1>1, <1>2, <1>3, PTL DEF ReadSideSpec

-----------------------------------------------------------------------------
(* A mood and its nudge stay in bounds. *)

LEMMA ClampedInBounds ==
    ASSUME NEW x \in Int, NEW low \in Int, NEW high \in Int, low <= high
    PROVE  Clamped(x, low, high) \in low .. high
BY DEF Clamped, AtMost, AtLeast

\* A weighted sum of two levels lies between them.
LEMMA BlendIsBetween ==
    ASSUME NEW b \in Level, NEW x \in Int, NEW y \in Int, x <= y
    PROVE  /\ 100 * x <= b * x + (100 - b) * y
           /\ b * x + (100 - b) * y <= 100 * y
           /\ 100 * x <= b * y + (100 - b) * x
           /\ b * y + (100 - b) * x <= 100 * y
<1> DEFINE gap == y - x
<1>1. gap \in Nat /\ y = x + gap
  OBVIOUS
<1>2. b \in Nat /\ 100 - b \in Nat /\ b \in Int
  BY DEF Level
<1>3. b * gap >= 0 /\ (100 - b) * gap >= 0 /\ b * gap \in Int /\ (100 - b) * gap \in Int
  BY <1>1, <1>2
<1>4. b * gap + (100 - b) * gap = 100 * gap
  BY <1>1, <1>2
<1>5. b * y = b * x + b * gap /\ (100 - b) * y = (100 - b) * x + (100 - b) * gap
  BY <1>1, <1>2
<1>6. b * x + (100 - b) * x = 100 * x
  BY <1>2
<1> QED
  BY <1>1, <1>2, <1>3, <1>4, <1>5, <1>6

Blend(old, aim) == (Inertia * old + (100 - Inertia) * aim) \div 100

LEMMA BlendOvershootsNeither ==
    ASSUME NEW old \in Int, NEW aim \in Int
    PROVE  /\ Blend(old, aim) \in Int
           /\ old <= aim => old <= Blend(old, aim) /\ Blend(old, aim) <= aim
           /\ aim <= old => aim <= Blend(old, aim) /\ Blend(old, aim) <= old
<1> DEFINE blend == Inertia * old + (100 - Inertia) * aim
<1>1. Inertia \in Level
  BY OverlayAssumption
<1>2. blend \in Int
  BY <1>1 DEF Level
<1>3. Blend(old, aim) = blend \div 100
  BY DEF Blend
<1>4. CASE old <= aim
  <2>1. 100 * old <= blend /\ blend <= 100 * aim
    BY <1>1, <1>4, BlendIsBetween
  <2> HIDE DEF blend
  <2>2. blend \div 100 \in old .. aim
    BY <1>2, <2>1
  <2> QED
    BY <1>3, <1>4, <2>2
<1>5. CASE aim <= old
  <2>1. 100 * aim <= blend /\ blend <= 100 * old
    BY <1>1, <1>5, BlendIsBetween
  <2> HIDE DEF blend
  <2>2. blend \div 100 \in aim .. old
    BY <1>2, <2>1
  <2> QED
    BY <1>3, <1>5, <2>2
<1> QED
  BY <1>4, <1>5

\* Inertia never overshoots: whatever its value, a part of the mood moves to a
\* place between where it was and the (clamped) mean of what was recalled, so
\* it never leaves its range.
THEOREM InertiaStaysBetween ==
    ASSUME NEW low \in {-100, 0}, NEW old \in low .. 100, NEW mean \in Int, mean # NaN
    PROVE  LET aim == Clamped(mean, low, 100)
           IN  /\ Drift(old, mean, low) \in low .. 100
               /\ old <= aim => Drift(old, mean, low) \in old .. aim
               /\ aim <= old => Drift(old, mean, low) \in aim .. old
<1> DEFINE aim == Clamped(mean, low, 100)
<1>1. aim \in low .. 100
  <2>1. low \in Int /\ 100 \in Int /\ low <= 100
    OBVIOUS
  <2> QED
    BY <2>1, ClampedInBounds
<1>2. Drift(old, mean, low) = Blend(old, aim)
  BY DEF Drift, Blend, NaN
<1> HIDE DEF aim
<1>3. old \in Int /\ aim \in Int
  BY <1>1
<1>4. /\ Blend(old, aim) \in Int
      /\ old <= aim => old <= Blend(old, aim) /\ Blend(old, aim) <= aim
      /\ aim <= old => aim <= Blend(old, aim) /\ Blend(old, aim) <= old
  BY <1>3, BlendOvershootsNeither
<1>5. /\ Blend(old, aim) \in low .. 100
      /\ old <= aim => Blend(old, aim) \in old .. aim
      /\ aim <= old => Blend(old, aim) \in aim .. old
  BY <1>1, <1>3, <1>4
<1> QED
  BY <1>2, <1>5 DEF aim

LEMMA ScaledInBounds ==
    ASSUME NEW x \in 0 .. 100, NEW level \in Level
    PROVE  Scaled(x, level) \in 0 .. x
<1> DEFINE p == x * level
<1>1. p \in Int /\ 0 <= p
  BY DEF Level
<1>2. x * (100 - level) >= 0 /\ x * (100 - level) = 100 * x - p
  BY DEF Level
<1>3. p <= 100 * x
  BY <1>1, <1>2
<1>4. Scaled(x, level) = p \div 100
  BY DEF Scaled
<1> HIDE DEF p
<1>5. p \div 100 \in 0 .. x
  BY <1>1, <1>3
<1> QED
  BY <1>4, <1>5

\* A nudge is a factor between 1.00 and 1.12, or NaN where an affect is; and
\* the intensity of the mood alone decides whether there is one at all.  (The
\* comment on mood_congruence_nudge allows for 1.15.)
THEOREM NudgeIsGentle ==
    ASSUME mood.intensity \in Level, NEW affect,
           affect.valence \in Valence \cup {NaN}, affect.arousal \in Level \cup {NaN},
           mood.valence \in Valence \cup {NaN}, mood.arousal \in Level \cup {NaN}
    PROVE  /\ Nudge(affect) \in 100 .. 112 \cup {NaN}
           /\ mood.intensity < 15 => Nudge(affect) = 100
<1>1. CASE mood.intensity < 15
  BY <1>1 DEF Nudge, Level, NaN
<1>2. CASE ~(mood.intensity < 15) /\ NaN \in {affect.valence, affect.arousal,
                                              mood.valence, mood.arousal, mood.intensity}
  BY <1>2 DEF Nudge
<1>3. CASE ~(mood.intensity < 15) /\ NaN \notin {affect.valence, affect.arousal,
                                                 mood.valence, mood.arousal, mood.intensity}
  <2> DEFINE dv == affect.valence - mood.valence
             da == affect.arousal - mood.arousal
             near == ExpOf((dv * dv + da * da) \div 50)
  <2>1. affect.valence \in Int /\ mood.valence \in Int
    BY <1>3 DEF Valence
  <2>2. affect.arousal \in Int /\ mood.arousal \in Int
    BY <1>3 DEF Level
  <2>3. dv \in Int /\ da \in Int
    BY <2>1, <2>2
  <2>4. dv * dv \in Nat /\ da * da \in Nat
    BY <2>3, SquareIsNat
  <2>5. (dv * dv + da * da) \div 50 \in Nat
    BY <2>4
  <2>6. near \in Level
    BY <2>5, OverlayAssumption DEF ExpOf, AtMost
  <2>7. Nudge(affect) = 100 + Scaled(12, Scaled(near, mood.intensity))
    BY <1>3 DEF Nudge
  <2> HIDE DEF near
  <2>8. Scaled(near, mood.intensity) \in Level
    <3>1. near \in 0 .. 100
      BY <2>6 DEF Level
    <3>2. Scaled(near, mood.intensity) \in 0 .. near
      BY <3>1, ScaledInBounds
    <3> QED
      BY <3>1, <3>2 DEF Level
  <2>9. Scaled(12, Scaled(near, mood.intensity)) \in 0 .. 12
    BY <2>8, ScaledInBounds
  <2>10. Nudge(affect) \in 100 .. 112
    <3> DEFINE lift == Scaled(12, Scaled(near, mood.intensity))
    <3> HIDE DEF lift
    <3> QED
      BY <2>7, <2>9 DEF lift
  <2> QED
    BY <1>3, <2>10
<1> QED
  BY <1>1, <1>2, <1>3

-----------------------------------------------------------------------------
(* The weighted mean lies among what is averaged. *)

LEMMA TotalAdds ==
    ASSUME NEW recalled, IsFiniteSet(recalled), NEW now,
           NEW w, \A r \in recalled : w[r] = Pull(r, now) /\ w[r] \in Int
    PROVE  \E g : Adds(g, w, recalled) /\ Total(recalled, now) = g[recalled]
<1> DEFINE iter == CHOOSE iter : iter = [s \in SUBSET recalled |->
                       IF s = {} THEN 0
                       ELSE Pull(AnyOf(s), now) + iter[s \ {AnyOf(s)}]]
<1>1. Total(recalled, now) = iter[recalled]
  BY DEF Total, MapThenSumSet, MapThenFoldSet, AnyOf
<1>2. \A s \in SUBSET recalled : s # {} => AnyOf(s) \in recalled
  BY DEF AnyOf
<1>3. PICK g : Adds(g, w, recalled)
  BY SumsExist
<1>4. g = [s \in SUBSET recalled |->
              IF s = {} THEN 0 ELSE Pull(AnyOf(s), now) + g[s \ {AnyOf(s)}]]
  <2>1. ASSUME NEW s \in SUBSET recalled
        PROVE  g[s] = IF s = {} THEN 0 ELSE Pull(AnyOf(s), now) + g[s \ {AnyOf(s)}]
    BY <1>2, <1>3 DEF Adds
  <2>2. g = [s \in SUBSET recalled |-> g[s]]
    BY <1>3 DEF Adds
  <2> QED
    BY <2>1, <2>2, Zenon
<1>5. iter = [s \in SUBSET recalled |->
                 IF s = {} THEN 0 ELSE Pull(AnyOf(s), now) + iter[s \ {AnyOf(s)}]]
  BY <1>4, Zenon
<1> HIDE DEF iter
<1>6. Adds(iter, w, recalled)
  <2>1. ASSUME NEW s \in SUBSET recalled
        PROVE  iter[s] = IF s = {} THEN 0 ELSE w[AnyOf(s)] + iter[s \ {AnyOf(s)}]
    <3>1. iter[s] = IF s = {} THEN 0 ELSE Pull(AnyOf(s), now) + iter[s \ {AnyOf(s)}]
      BY <1>5, Zenon
    <3> QED
      BY <1>2, <3>1
  <2>2. iter = [s \in SUBSET recalled |-> iter[s]]
    <3> DEFINE e(s) == IF s = {} THEN 0 ELSE Pull(AnyOf(s), now) + iter[s \ {AnyOf(s)}]
    <3>1. iter = [s \in SUBSET recalled |-> e(s)]
      BY <1>5, Zenon
    <3> HIDE DEF e
    <3> QED
      BY <3>1
  <2> QED
    BY <2>1, <2>2 DEF Adds
<1> QED
  BY <1>1, <1>6

LEMMA MeanDivides ==
    ASSUME NEW recalled, IsFiniteSet(recalled), NEW now, NEW part,
           \A r \in recalled : r.affect[part] # NaN,
           NEW v, \A r \in recalled : v[r] = r.affect[part] * Pull(r, now) /\ v[r] \in Int
    PROVE  \E f : /\ Adds(f, v, recalled)
                  /\ Mean(part, recalled, now) = f[recalled] \div Total(recalled, now)
<1> DEFINE iter == CHOOSE iter : iter = [s \in SUBSET recalled |->
                       IF s = {} THEN 0
                       ELSE AnyOf(s).affect[part] * Pull(AnyOf(s), now) + iter[s \ {AnyOf(s)}]]
<1>1. Mean(part, recalled, now) = iter[recalled] \div Total(recalled, now)
  BY DEF Mean, MapThenSumSet, MapThenFoldSet, AnyOf
<1>2. \A s \in SUBSET recalled : s # {} => AnyOf(s) \in recalled
  BY DEF AnyOf
<1>3. PICK g : Adds(g, v, recalled)
  BY SumsExist
<1>4. g = [s \in SUBSET recalled |->
              IF s = {} THEN 0
              ELSE AnyOf(s).affect[part] * Pull(AnyOf(s), now) + g[s \ {AnyOf(s)}]]
  <2>1. ASSUME NEW s \in SUBSET recalled
        PROVE  g[s] = IF s = {} THEN 0
                      ELSE AnyOf(s).affect[part] * Pull(AnyOf(s), now) + g[s \ {AnyOf(s)}]
    BY <1>2, <1>3 DEF Adds
  <2>2. g = [s \in SUBSET recalled |-> g[s]]
    BY <1>3 DEF Adds
  <2> QED
    BY <2>1, <2>2, Zenon
<1>5. iter = [s \in SUBSET recalled |->
                 IF s = {} THEN 0
                 ELSE AnyOf(s).affect[part] * Pull(AnyOf(s), now) + iter[s \ {AnyOf(s)}]]
  BY <1>4, Zenon
<1> HIDE DEF iter
<1>6. Adds(iter, v, recalled)
  <2>1. ASSUME NEW s \in SUBSET recalled
        PROVE  iter[s] = IF s = {} THEN 0 ELSE v[AnyOf(s)] + iter[s \ {AnyOf(s)}]
    <3>1. iter[s] = IF s = {} THEN 0
                    ELSE AnyOf(s).affect[part] * Pull(AnyOf(s), now) + iter[s \ {AnyOf(s)}]
      BY <1>5, Zenon
    <3> QED
      BY <1>2, <3>1
  <2>2. iter = [s \in SUBSET recalled |-> iter[s]]
    <3> DEFINE e(s) == IF s = {} THEN 0
                       ELSE AnyOf(s).affect[part] * Pull(AnyOf(s), now) + iter[s \ {AnyOf(s)}]
    <3>1. iter = [s \in SUBSET recalled |-> e(s)]
      BY <1>5, Zenon
    <3> HIDE DEF e
    <3> QED
      BY <3>1
  <2> QED
    BY <2>1, <2>2 DEF Adds
<1> QED
  BY <1>1, <1>6

\* A quotient of a number between two multiples lies between their factors.
LEMMA QuotientIsBetween ==
    ASSUME NEW a \in Int, NEW n \in Int, n > 0, NEW lo \in Int, NEW hi \in Int,
           lo * n <= a, a <= hi * n
    PROVE  a \div n \in lo .. hi
<1> DEFINE q == a \div n
<1>1. q \in Int /\ n * q <= a /\ a < n * q + n
  <2>1. q \in Int /\ a = n * q + (a % n) /\ (a % n) \in 0 .. n - 1
    OBVIOUS
  <2>2. n * q \in Int
    BY <2>1
  <2> QED
    BY <2>1, <2>2
<1> HIDE DEF q
<1>2. lo <= q
  <2>1. SUFFICES ASSUME q + 1 <= lo
                 PROVE  FALSE
    BY <1>1
  <2>2. (lo - (q + 1)) * n >= 0
    BY <1>1, <2>1
  <2>3. (lo - (q + 1)) * n = lo * n - (n * q + n)
    BY <1>1
  <2> QED
    BY <1>1, <2>2, <2>3
<1>3. q <= hi
  <2>1. SUFFICES ASSUME hi + 1 <= q
                 PROVE  FALSE
    BY <1>1
  <2>2. (q - (hi + 1)) * n >= 0
    BY <1>1, <2>1
  <2>3. (q - (hi + 1)) * n = n * q - (hi * n + n)
    BY <1>1
  <2> QED
    BY <1>1, <2>2, <2>3
<1> QED
  BY <1>1, <1>2, <1>3 DEF q

\* A weight that is a number comes from an intensity and a relevance that are.
LEMMA PullIsNat ==
    ASSUME NEW r \in Recalled, NEW now \in Moments, Pull(r, now) # NaN
    PROVE  /\ Pull(r, now) \in Nat
           /\ r.affect.intensity \in Level
<1>1. r.affect.intensity \in Level /\ r.relevance \in -100 .. 100
  BY OverlayAssumption DEF Pull
<1>2. (100 * Age(r, now)) \div Tau \in Nat
  <2>1. r.node_time \in Nat /\ now \in Nat /\ Tau \in Nat /\ Tau # 0
    BY OverlayAssumption
  <2>2. Age(r, now) \in Nat
    BY <2>1 DEF Age, AtLeast
  <2>3. 100 * Age(r, now) \in Nat
    BY <2>2
  <2> HIDE DEF Age
  <2> QED
    BY <2>1, <2>3
<1>3. ExpOf((100 * Age(r, now)) \div Tau) \in Level
  BY <1>2, OverlayAssumption DEF ExpOf, AtMost
<1>4. 3000 + 40 * r.affect.intensity + 30 * r.relevance \in Nat
  <2>1. \A x \in 0 .. 100, y \in -100 .. 100 : 3000 + 40 * x + 30 * y \in Nat
    OBVIOUS
  <2>2. PICK x \in 0 .. 100 : x = r.affect.intensity
    BY <1>1 DEF Level
  <2>3. PICK y \in -100 .. 100 : y = r.relevance
    BY <1>1
  <2>4. 3000 + 40 * x + 30 * y \in Nat
    BY <2>1
  <2> QED
    BY <2>2, <2>3, <2>4
<1>5. Pull(r, now) = ExpOf((100 * Age(r, now)) \div Tau)
                        * (3000 + 40 * r.affect.intensity + 30 * r.relevance)
  BY <1>1 DEF Pull, Level, NaN
<1>6. \A x \in Level, y \in Nat : x * y \in Nat
  BY DEF Level
<1> QED
  BY <1>1, <1>3, <1>4, <1>5, <1>6

\* The mean of a part is between bounds on it that hold wherever there is
\* weight.
LEMMA MeanIsBetween ==
    ASSUME NEW recalled \in SUBSET Recalled, IsFiniteSet(recalled), NEW now \in Moments,
           Moves(recalled, now), NEW part,
           \A r \in recalled : r.affect[part] # NaN /\ r.affect[part] \in Int,
           NEW lo \in Int, NEW hi \in Int,
           \A r \in recalled : Pull(r, now) > 0 => r.affect[part] \in lo .. hi
    PROVE  Mean(part, recalled, now) \in lo .. hi
<1> DEFINE w == [r \in recalled |-> Pull(r, now)]
           v == [r \in recalled |-> r.affect[part] * Pull(r, now)]
<1>1. \A r \in recalled : Pull(r, now) \in Nat
  BY PullIsNat DEF Moves
<1>2. \A r \in recalled : w[r] = Pull(r, now) /\ w[r] \in Int
  BY <1>1
<1>3. \A r \in recalled : v[r] = r.affect[part] * Pull(r, now) /\ v[r] \in Int
  BY <1>1
<1>4. \A r \in recalled : lo * w[r] <= 1 * v[r] /\ (0 - hi) * w[r] <= (0 - 1) * v[r]
  <2> SUFFICES ASSUME NEW r \in recalled
               PROVE  lo * w[r] <= 1 * v[r] /\ (0 - hi) * w[r] <= (0 - 1) * v[r]
    OBVIOUS
  <2>1. CASE Pull(r, now) = 0
    BY <1>2, <1>3, <2>1
  <2>2. CASE Pull(r, now) > 0
    <3>1. r.affect[part] \in Int /\ lo <= r.affect[part] /\ r.affect[part] <= hi
      BY <2>2
    <3>2. \A n \in Nat, x \in Int, y \in Int : x <= y => x * n <= y * n
      <4> TAKE n \in Nat, x \in Int, y \in Int
      <4> HAVE x <= y
      <4>1. (y - x) * n >= 0 /\ (y - x) * n = y * n - x * n /\ y * n \in Int /\ x * n \in Int
        OBVIOUS
      <4> QED
        BY <4>1
    <3>3. lo * Pull(r, now) <= v[r] /\ v[r] <= hi * Pull(r, now)
      BY <1>1, <1>3, <3>1, <3>2
    <3>4. lo * w[r] <= v[r] /\ v[r] <= hi * w[r] /\ hi * w[r] \in Int /\ v[r] \in Int
      BY <1>2, <1>3, <3>3
    <3>5. (0 - hi) * w[r] = 0 - hi * w[r]
      BY <1>2
    <3> HIDE DEF w, v
    <3> QED
      BY <3>4, <3>5
  <2> QED
    BY <1>1, <2>1, <2>2
<1> HIDE DEF w, v
<1>5. PICK g : Adds(g, w, recalled) /\ Total(recalled, now) = g[recalled]
  BY <1>2, TotalAdds
<1>6. PICK f : /\ Adds(f, v, recalled)
               /\ Mean(part, recalled, now) = f[recalled] \div Total(recalled, now)
  BY <1>3, MeanDivides
<1>7. \A s \in SUBSET recalled : lo * g[s] <= 1 * f[s]
  <2>1. 1 \in Int
    OBVIOUS
  <2> QED
    BY <2>1, <1>2, <1>3, <1>4, <1>5, <1>6, SumsCompare
<1>8. \A s \in SUBSET recalled : (0 - hi) * g[s] <= (0 - 1) * f[s]
  <2>1. 0 - hi \in Int /\ 0 - 1 \in Int
    OBVIOUS
  <2> QED
    BY <2>1, <1>2, <1>3, <1>4, <1>5, <1>6, SumsCompare
<1>9. g[recalled] \in Int /\ f[recalled] \in Int
  BY <1>2, <1>3, <1>5, <1>6, SumsAreNumbers
<1>10. g[recalled] > 0
  BY <1>5 DEF Moves
<1>11. lo * g[recalled] <= f[recalled] /\ f[recalled] <= hi * g[recalled]
  <2>1. (0 - hi) * g[recalled] = 0 - hi * g[recalled] /\ hi * g[recalled] \in Int
    BY <1>9
  <2> QED
    BY <1>7, <1>8, <1>9, <2>1
<1>12. f[recalled] \div g[recalled] \in lo .. hi
  BY <1>9, <1>10, <1>11, QuotientIsBetween
<1> QED
  BY <1>5, <1>6, <1>12

-----------------------------------------------------------------------------
(* A mood is made of what was felt. *)

Part == {"valence", "arousal", "intensity"}
LowOf(part) == IF part = "valence" THEN -100 ELSE 0

Lived(affects, part) == {affect[part] : affect \in affects \cup {Baseline}}

\* The part of a mood among those of the affects lived, or NaN with one of them.
Among(value, lived) ==
    IF NaN \in lived THEN value = NaN
    ELSE \E lo, hi \in lived : value \in lo .. hi

\* The inductive invariant: what was felt is what some recalled node holds,
\* never with an intensity that is NaN, which is what keeps the next recall
\* from spoiling the intensity.
MoodInv ==
    /\ felt \subseteq {r.affect : r \in Recalled}
    /\ \A affect \in felt : affect.intensity # NaN
    /\ \A part \in Part : Among(mood[part], Lived(felt, part))

LEMMA PartsHaveRange ==
    ASSUME NEW r \in Recalled, NEW part \in Part
    PROVE  r.affect[part] \in LowOf(part) .. 100 \cup {NaN}
<1>1. CASE part = "valence"
  BY <1>1, OverlayAssumption DEF LowOf, Valence
<1>2. CASE part = "arousal"
  BY <1>2, OverlayAssumption DEF LowOf, Level
<1>3. CASE part = "intensity"
  BY <1>3, OverlayAssumption DEF LowOf, Level
<1> QED
  BY <1>1, <1>2, <1>3 DEF Part

LEMMA LivedHasRange ==
    ASSUME NEW affects \in SUBSET {r.affect : r \in Recalled}, NEW part \in Part
    PROVE  /\ Lived(affects, part) \subseteq LowOf(part) .. 100 \cup {NaN}
           /\ Lived(affects, part) # {}
<1>1. Baseline[part] \in LowOf(part) .. 100
  BY DEF Part, Baseline, LowOf
<1>2. \A affect \in affects : affect[part] \in LowOf(part) .. 100 \cup {NaN}
  BY PartsHaveRange
<1> QED
  BY <1>1, <1>2 DEF Lived

\* What is lived without a NaN has a least and a greatest part.
LEMMA LivedHasBounds ==
    ASSUME NEW affects \in SUBSET {r.affect : r \in Recalled}, NEW part \in Part,
           NaN \notin Lived(affects, part)
    PROVE  \E lo, hi \in Lived(affects, part) :
              \A x \in Lived(affects, part) : lo <= x /\ x <= hi
<1> DEFINE lived == Lived(affects, part)
<1>1. lived \subseteq LowOf(part) .. 100 /\ lived # {}
  BY LivedHasRange
<1>2. LowOf(part) \in Int
  BY DEF LowOf
<1> HIDE DEF lived
<1>3. lived \in SUBSET Int /\ \A x \in lived : LowOf(part) <= x /\ x <= 100
  BY <1>1, <1>2
<1>4. PICK lo \in lived : \A x \in lived : lo <= x
  BY <1>1, <1>2, <1>3, LeastInteger
<1>5. PICK hi \in lived : \A x \in lived : x <= hi
  <2>1. 100 \in Int
    OBVIOUS
  <2> QED
    BY <2>1, <1>1, <1>3, GreatestInteger
<1> QED
  BY <1>4, <1>5 DEF lived

\* The blend with a mean that needs no clamping lies between the two.
LEMMA DriftIsBetween ==
    ASSUME NEW low, NEW old \in Int, old # NaN, NEW mean \in Int, mean # NaN,
           Clamped(mean, low, 100) = mean
    PROVE  \/ old <= mean /\ Drift(old, mean, low) \in old .. mean
           \/ mean <= old /\ Drift(old, mean, low) \in mean .. old
<1>1. Drift(old, mean, low) = Blend(old, mean)
  BY DEF Drift, Blend
<1>2. /\ Blend(old, mean) \in Int
      /\ old <= mean => old <= Blend(old, mean) /\ Blend(old, mean) <= mean
      /\ mean <= old => mean <= Blend(old, mean) /\ Blend(old, mean) <= old
  BY BlendOvershootsNeither
<1>3. old <= mean \/ mean <= old
  OBVIOUS
<1> QED
  BY <1>1, <1>2, <1>3

\* One recall moves a part to a value that lies among what was lived by then.
LEMMA DriftStaysAmong ==
    ASSUME NEW part \in Part, NEW felt1 \in SUBSET {r.affect : r \in Recalled},
           NEW old, Among(old, Lived(felt1, part)),
           NEW recalled \in SUBSET Recalled, NEW now \in Moments, Moves(recalled, now),
           NEW felt2, felt2 = felt1 \cup {r.affect : r \in {x \in recalled : HasSay(x, now)}}
    PROVE  Among(Drift(old, Mean(part, recalled, now), LowOf(part)), Lived(felt2, part))
<1> DEFINE low == LowOf(part)
           mean == Mean(part, recalled, now)
           lived1 == Lived(felt1, part)
           lived2 == Lived(felt2, part)
<1>1. felt2 \in SUBSET {r.affect : r \in Recalled}
  OBVIOUS
<1>2. lived1 \subseteq lived2
  BY DEF Lived
<1>3. \A r \in recalled : HasSay(r, now) => r.affect[part] \in lived2
  BY DEF Lived
<1>4. \A r \in recalled : r.affect[part] = NaN => HasSay(r, now)
  <2> SUFFICES ASSUME NEW r \in recalled, r.affect[part] = NaN
               PROVE  HasSay(r, now)
    OBVIOUS
  <2>1. r.affect.intensity # NaN
    BY PullIsNat DEF Moves, Pull
  <2>2. part = "valence" \/ part = "arousal"
    BY <2>1 DEF Part
  <2> QED
    BY <2>2 DEF HasSay
<1>5. CASE NaN \in lived1
  <2>1. old = NaN /\ NaN \in lived2
    BY <1>2, <1>5 DEF Among
  <2> QED
    BY <2>1 DEF Drift, Among
<1>6. CASE \E r \in recalled : r.affect[part] = NaN
  <2>1. NaN \in lived2 /\ mean = NaN
    BY <1>3, <1>4, <1>6 DEF Mean
  <2> QED
    BY <2>1 DEF Drift, Among
<1>7. CASE NaN \notin lived1 /\ \A r \in recalled : r.affect[part] # NaN
  <2>1. NaN \notin lived2
    BY <1>7 DEF Lived
  <2>2. lived2 \subseteq low .. 100
    BY <1>1, <2>1, LivedHasRange
  <2>3. PICK lo \in lived2, hi \in lived2 : \A x \in lived2 : lo <= x /\ x <= hi
    BY <1>1, <2>1, LivedHasBounds
  <2>4. low \in {-100, 0} /\ low \in Int
    BY DEF LowOf
  <2>5. lo \in low .. 100 /\ hi \in low .. 100 /\ lo \in Int /\ hi \in Int
    BY <2>2, <2>3, <2>4
  <2>6. old \in lo .. hi
    <3>1. PICK a \in lived1, b \in lived1 : old \in a .. b
      BY <1>7 DEF Among
    <3>2. lo <= a /\ b <= hi /\ a \in low .. 100 /\ b \in low .. 100
      BY <1>2, <2>2, <2>3, <3>1
    <3> HIDE DEF low, lived1, lived2
    <3> QED
      BY <2>4, <2>5, <3>1, <3>2
  <2>7. mean \in lo .. hi
    <3>1. \A r \in recalled : r.affect[part] # NaN /\ r.affect[part] \in Int
      <4>1. \A r \in recalled : r.affect[part] \in low .. 100
        BY <1>7, PartsHaveRange
      <4> QED
        BY <1>7, <2>4, <4>1
    <3>2. \A r \in recalled : Pull(r, now) > 0 => r.affect[part] \in lo .. hi
      <4> SUFFICES ASSUME NEW r \in recalled, Pull(r, now) > 0
                   PROVE  r.affect[part] \in lo .. hi
        OBVIOUS
      <4>1. r.affect[part] \in lived2
        BY <1>3 DEF HasSay
      <4> QED
        BY <2>3, <2>5, <3>1, <4>1
    <3>3. IsFiniteSet(recalled)
      BY OverlayAssumption, FS_Subset
    <3> QED
      BY <2>5, <3>1, <3>2, <3>3, MeanIsBetween
  <2>8. Clamped(mean, low, 100) = mean /\ mean # NaN /\ mean \in Int
    <3> HIDE DEF mean, low
    <3> QED
      BY <2>4, <2>5, <2>7 DEF Clamped, AtMost, AtLeast, NaN
  <2>9. old \in Int /\ old # NaN
    <3> HIDE DEF low
    <3> QED
      BY <2>4, <2>5, <2>6 DEF NaN
  <2>10. \/ old <= mean /\ Drift(old, mean, low) \in old .. mean
         \/ mean <= old /\ Drift(old, mean, low) \in mean .. old
    <3> HIDE DEF mean, low
    <3> QED
      BY <2>8, <2>9, DriftIsBetween
  <2>11. Drift(old, mean, low) \in lo .. hi
    <3> HIDE DEF mean, low
    <3> QED
      BY <2>5, <2>6, <2>7, <2>10
  <2> HIDE DEF mean, low, lived2
  <2>12. Among(Drift(old, mean, low), lived2)
    BY <2>1, <2>3, <2>11 DEF Among
  <2> QED
    BY <2>12 DEF mean, low, lived2
<1> QED
  BY <1>5, <1>6, <1>7

LEMMA MoodInitInv == MoodInit => MoodInv
<1> SUFFICES ASSUME MoodInit
             PROVE  MoodInv
  OBVIOUS
<1>1. \A part \in Part : Among(mood[part], Lived(felt, part))
  <2> SUFFICES ASSUME NEW part \in Part
               PROVE  Among(mood[part], Lived(felt, part))
    OBVIOUS
  <2>1. Lived(felt, part) = {Baseline[part]} /\ mood[part] = Baseline[part]
    BY DEF MoodInit, Lived
  <2>2. Baseline[part] \in Int /\ Baseline[part] # NaN
    BY DEF Part, Baseline, NaN
  <2>3. Baseline[part] \in Baseline[part] .. Baseline[part]
    BY <2>2
  <2> QED
    BY <2>1, <2>2, <2>3 DEF Among
<1> QED
  BY <1>1 DEF MoodInit, MoodInv

LEMMA ComputeMoodInv ==
    ASSUME MoodInv, NEW recalled \in SUBSET Recalled, NEW now \in Moments,
           ComputeMood(recalled, now)
    PROVE  MoodInv'
<1>1. CASE ~Moves(recalled, now)
  <2>1. mood' = mood /\ felt' = felt
    BY <1>1 DEF ComputeMood
  <2> QED
    BY <2>1 DEF MoodInv
<1>2. CASE Moves(recalled, now)
  <2>1. felt' = felt \cup {r.affect : r \in {x \in recalled : HasSay(x, now)}}
    BY <1>2 DEF ComputeMood
  <2>2. \A r \in recalled : r.affect.intensity # NaN
    BY <1>2 DEF Moves, Pull
  <2>3. /\ felt' \subseteq {r.affect : r \in Recalled}
        /\ \A affect \in felt' : affect.intensity # NaN
    BY <2>1, <2>2 DEF MoodInv
  <2>4. \A part \in Part : mood'[part] = Drift(mood[part], Mean(part, recalled, now), LowOf(part))
    BY <1>2 DEF ComputeMood, Part, LowOf
  <2>5. \A part \in Part : Among(mood'[part], Lived(felt', part))
    BY <1>2, <2>1, <2>4, DriftStaysAmong DEF MoodInv
  <2> QED
    BY <2>3, <2>5 DEF MoodInv
<1> QED
  BY <1>1, <1>2

LEMMA MoodInvImplies == MoodInv => MoodWithinExperience
<1> SUFFICES ASSUME MoodInv
             PROVE  MoodWithinExperience
  OBVIOUS
<1>1. ASSUME NEW part \in Part
      PROVE  PartWithinExperience(part)
  <2> DEFINE lived == Lived(felt, part)
  <2>1. CASE NaN \in lived
    BY <2>1 DEF MoodInv, Among, Lived, PartWithinExperience
  <2>2. CASE NaN \notin lived
    <3>1. felt \in SUBSET {r.affect : r \in Recalled}
      BY DEF MoodInv
    <3>2. PICK a \in lived, b \in lived : \A x \in lived : a <= x /\ x <= b
      BY <2>2, <3>1, LivedHasBounds
    <3>3. Min(lived) \in lived /\ \A x \in lived : Min(lived) <= x
      BY <3>2 DEF Min
    <3>4. Max(lived) \in lived /\ \A x \in lived : Max(lived) >= x
      <4>1. lived \subseteq LowOf(part) .. 100 /\ LowOf(part) \in Int
        BY <2>2, <3>1, LivedHasRange DEF LowOf
      <4>2. b \in lived /\ \A x \in lived : b >= x
        <5> HIDE DEF lived
        <5> QED
          BY <3>2, <4>1
      <4> QED
        BY <4>2 DEF Max
    <3>5. PICK lo \in lived, hi \in lived : mood[part] \in lo .. hi
      BY <2>2 DEF MoodInv, Among
    <3>6. lived \subseteq LowOf(part) .. 100 /\ LowOf(part) \in Int
      BY <2>2, <3>1, LivedHasRange DEF LowOf
    <3>7. mood[part] \in Min(lived) .. Max(lived)
      <4> DEFINE least == Min(lived)
                 most == Max(lived)
      <4>1. least \in lived /\ most \in lived /\ least <= lo /\ most >= hi
        BY <3>3, <3>4, <3>5
      <4> HIDE DEF lived, least, most
      <4>2. least \in Int /\ most \in Int /\ lo \in Int /\ hi \in Int
        BY <3>5, <3>6, <4>1
      <4>3. mood[part] \in least .. most
        BY <3>5, <4>1, <4>2
      <4> QED
        BY <4>3 DEF least, most
    <3> QED
      BY <2>2, <3>7 DEF PartWithinExperience, Lived
  <2> QED
    BY <2>1, <2>2
<1>2. NudgesGently
  <2>1. \A part \in Part : \/ mood[part] = NaN
                           \/ mood[part] \in LowOf(part) .. 100
    <3> SUFFICES ASSUME NEW part \in Part, mood[part] # NaN
                 PROVE  mood[part] \in LowOf(part) .. 100
      OBVIOUS
    <3>1. felt \in SUBSET {r.affect : r \in Recalled}
      BY DEF MoodInv
    <3>2. NaN \notin Lived(felt, part)
      BY DEF MoodInv, Among
    <3>3. PICK lo \in Lived(felt, part), hi \in Lived(felt, part) : mood[part] \in lo .. hi
      BY <3>2 DEF MoodInv, Among
    <3>4. Lived(felt, part) \subseteq LowOf(part) .. 100 /\ LowOf(part) \in Int
      BY <3>1, <3>2, LivedHasRange DEF LowOf
    <3> QED
      BY <3>3, <3>4
  <2>2. NaN \notin Lived(felt, "intensity")
    BY DEF MoodInv, Lived, Baseline, NaN
  <2>3. PICK lo \in Lived(felt, "intensity"), hi \in Lived(felt, "intensity") :
                mood.intensity \in lo .. hi
    BY <2>2 DEF MoodInv, Among, Part
  <2>4. mood.intensity \in Level
    <3>1. felt \in SUBSET {r.affect : r \in Recalled}
      BY DEF MoodInv
    <3>2. Lived(felt, "intensity") \subseteq 0 .. 100
      BY <2>2, <3>1, LivedHasRange DEF LowOf, Part
    <3> QED
      BY <2>3, <3>2 DEF Level
  <2>5. mood.valence \in Valence \cup {NaN} /\ mood.arousal \in Level \cup {NaN}
    BY <2>1 DEF Part, LowOf, Valence, Level
  <2>6. (\A affect \in felt : affect.intensity < 15) => mood.intensity < 15
    <3> SUFFICES ASSUME \A affect \in felt : affect.intensity < 15
                 PROVE  mood.intensity < 15
      OBVIOUS
    <3>1. hi < 15
      BY <2>3 DEF Lived, Baseline
    <3>2. Lived(felt, "intensity") \subseteq 0 .. 100
      BY <2>2, LivedHasRange DEF LowOf, Part, MoodInv
    <3> QED
      BY <2>3, <3>1, <3>2
  <2> SUFFICES ASSUME NEW r \in Recalled
               PROVE  /\ Nudge(r.affect) \in 100 .. 112 \cup {NaN}
                      /\ (\A affect \in felt : affect.intensity < 15) => Nudge(r.affect) = 100
    BY DEF NudgesGently
  <2>7. r.affect.valence \in Valence \cup {NaN} /\ r.affect.arousal \in Level \cup {NaN}
    BY OverlayAssumption
  <2> QED
    BY <2>4, <2>5, <2>6, <2>7, NudgeIsGentle
<1> QED
  BY <1>1, <1>2 DEF MoodWithinExperience, Part

\* Whatever is recalled, in whatever order and however old, each part of the
\* mood stays between the least and the most of the baseline and of what had a
\* say in it, or is NaN for good once one NaN had; and the nudge the mood gives
\* stays within 0.12, and is none before something intense was felt.
THEOREM MoodsAreMadeOfWhatWasFelt == ReadSideSpec => []MoodWithinExperience
<1>1. ReadSideInit => MoodInv
  BY MoodInitInv DEF ReadSideInit
<1>2. MoodInv /\ [ReadSideNext]_readSideVars => MoodInv'
  <2> SUFFICES ASSUME MoodInv, [ReadSideNext]_readSideVars
               PROVE  MoodInv'
    OBVIOUS
  <2>1. CASE UNCHANGED moodVars
    BY <2>1 DEF moodVars, MoodInv
  <2>2. CASE MoodNext
    <3>1. PICK n \in 0 .. MostRecalled, now \in Moments, recalled \in SUBSET Recalled :
              ComputeMood(recalled, now)
      BY <2>2 DEF MoodNext, kSubset
    <3> QED
      BY <3>1, ComputeMoodInv
  <2> QED
    BY <2>1, <2>2 DEF ReadSideNext, readSideVars
<1> QED
  BY <1>1, <1>2, MoodInvImplies, PTL DEF ReadSideSpec

-----------------------------------------------------------------------------
(* What a query sees of the index. *)

\* What a scan compares: every entry once, with a score.
Comparable(scored) ==
    /\ scored \in Seq([node_id : Nat, score : Int])
    /\ \A i, j \in 1 .. Len(scored) : scored[i].node_id = scored[j].node_id => i = j

Sourced(known) == \A n \in DOMAIN known : known[n] \in SourceType

\* The places of the eligible entries, and how entries rank.
Due(scored, known) == {i \in DOMAIN scored : Eligible(scored[i], known)}
RankIn(scored, known) == [i \in DOMAIN scored |-> Score(scored[i], known)]
DueOrder(scored, known) ==
    BothKeys(RankIn(scored, known), Scored(scored), Due(scored, known))

LEMMA ScoresOfEligible ==
    ASSUME NEW known, Sourced(known), NEW entry, entry.score \in Int, Eligible(entry, known)
    PROVE  Score(entry, known) \in Int
<1>1. known[entry.node_id] \in SourceType
  BY DEF Eligible, Sourced
<1>2. Weight(entry, known) \in Int
  BY <1>1 DEF Weight, RankMultiplier, SourceType
<1> QED
  BY <1>2 DEF Score

LEMMA ComparableEntries ==
    ASSUME NEW scored, Comparable(scored)
    PROVE  /\ Len(scored) \in Nat /\ DOMAIN scored = 1 .. Len(scored)
           /\ \A i \in 1 .. Len(scored) : scored[i].node_id \in Nat /\ scored[i].score \in Int
           /\ \A i, j \in 1 .. Len(scored) : scored[i] = scored[j] => i = j
           /\ \A i \in 1 .. Len(scored) : scored[i] \in ToSet(scored)
           /\ \A e \in ToSet(scored) : \E i \in 1 .. Len(scored) : e = scored[i]
<1> DEFINE N == Len(scored)
<1>1. scored \in Seq([node_id : Nat, score : Int])
  BY DEF Comparable
<1>2. N \in Nat /\ DOMAIN scored = 1 .. N
  BY <1>1
<1>3. \A i \in 1 .. N : scored[i] \in [node_id : Nat, score : Int]
  <2> DEFINE E == [node_id : Nat, score : Int]
  <2>1. scored \in Seq(E)
    BY <1>1
  <2> HIDE DEF E
  <2>2. \A i \in 1 .. N : scored[i] \in E
    BY <2>1
  <2> QED
    BY <2>2 DEF E
<1>4. \A i, j \in 1 .. N : scored[i] = scored[j] => i = j
  BY DEF Comparable
<1>5. ToSet(scored) = {scored[i] : i \in 1 .. N}
  BY <1>2 DEF ToSet
<1> HIDE DEF N
<1>6. \A i \in 1 .. N : scored[i].node_id \in Nat /\ scored[i].score \in Int
  BY <1>3
<1>7. /\ \A i \in 1 .. N : scored[i] \in ToSet(scored)
      /\ \A e \in ToSet(scored) : \E i \in 1 .. N : e = scored[i]
  BY <1>5
<1> QED
  BY <1>2, <1>4, <1>6, <1>7 DEF N

\* The bounded shortlist is the stable sort, cut to length.
LEMMA ShortlistIsTopK ==
    ASSUME NEW scored, Comparable(scored), Numbers(scored), NEW k \in Nat
    PROVE  Shortlists(scored, k) = {Truncated(ByCosine(scored), k)}
<1> DEFINE N == Len(scored)
           D == 1 .. N
           keys == Scored(scored)
           R == KeyOrder(keys, D)
           m == AtMost(N, k)
<1>1. N \in Nat /\ DOMAIN scored = D /\ scored \in Seq([node_id : Nat, score : Int])
  BY ComparableEntries DEF Comparable
<1>2. \A i \in D : keys[i] \in Int
  BY <1>1, ComparableEntries DEF Scored
<1>3. ByCosine(scored) = StableDescending(scored, keys)
  BY DEF ByCosine, Scored
<1> HIDE DEF keys, N
<1>4. PICK o : Orders(o, N, D, R) /\ Visits(ByCosine(scored), scored, o, N)
  BY <1>1, <1>2, <1>3, StableRuns
<1>5. IsFiniteSet(D) /\ IsOrder(R, D)
  <2>1. D \in SUBSET Int
    BY <1>1
  <2>2. IsOrder(R, D)
    BY <1>2, <2>1, KeysOrder
  <2> QED
    BY <1>1, <2>2, FS_Interval
<1>6. Visits(Truncated(ByCosine(scored), k), scored, o, m)
  BY <1>1, <1>4, TruncatedVisits
<1>7. ASSUME NEW best \in Shortlists(scored, k)
      PROVE  best = Truncated(ByCosine(scored), k)
  <2>1. PICK t : ShortlistOf(best, t, scored, N, k)
    BY <1>1, ScanEnds DEF N
  <2>2. Leads(t, m, D, R) /\ best = [r \in 1 .. m |-> scored[t[r]]]
    BY <2>1 DEF ShortlistOf, N, keys
  <2>3. m \in Nat
    BY <1>1 DEF AtMost
  <2>4. Lists(o, D, R)
    <3> HIDE DEF D, R
    <3> QED
      BY <1>4, <1>5, OrdersLists
  <2>5. \A r \in 1 .. m : t[r] = o[r]
    <3> HIDE DEF D, R, m
    <3> QED
      BY <1>5, <2>2, <2>3, <2>4, LeadersFirst
  <2>6. Truncated(ByCosine(scored), k) = [r \in 1 .. m |-> scored[o[r]]]
    BY <1>6 DEF Visits
  <2> HIDE DEF m
  <2> QED
    BY <2>2, <2>5, <2>6, Zenon
<1>8. Shortlists(scored, k) # {}
  BY <1>1, ScanEnds
<1> QED
  BY <1>7, <1>8, Zenon

\* NaN or not, a shortlist is as long as it can be and repeats nothing.
LEMMA ShortlistIsSound ==
    ASSUME NEW scored, Comparable(scored), NEW k \in Nat, NEW best \in Shortlists(scored, k)
    PROVE  /\ Len(best) = AtMost(Len(scored), k)
           /\ ToSet(best) \subseteq ToSet(scored)
           /\ IsInjective(best)
<1> DEFINE N == Len(scored)
           m == AtMost(N, k)
<1>1. N \in Nat /\ scored \in Seq([node_id : Nat, score : Int])
  BY ComparableEntries DEF Comparable
<1>2. PICK t : ShortlistOf(best, t, scored, N, k)
  BY <1>1, ScanEnds
<1>3. /\ t \in [1 .. m -> 1 .. N]
      /\ \A q, r \in 1 .. m : t[q] = t[r] => q = r
      /\ best = [r \in 1 .. m |-> scored[t[r]]]
  BY <1>2 DEF ShortlistOf
<1>4. m \in Nat
  BY <1>1 DEF AtMost
<1>5. \A i \in 1 .. N : scored[i] \in ToSet(scored)
  BY ComparableEntries
<1>6. \A i, j \in 1 .. N : scored[i] = scored[j] => i = j
  BY ComparableEntries
<1> HIDE DEF m, N
<1>7. DOMAIN best = 1 .. m /\ Len(best) = m
  BY <1>3, <1>4
<1>8. ToSet(best) \subseteq ToSet(scored)
  BY <1>3, <1>5, <1>7 DEF ToSet
<1>9. IsInjective(best)
  BY <1>3, <1>6, <1>7 DEF IsInjective
<1> QED
  BY <1>7, <1>8, <1>9 DEF m, N

-----------------------------------------------------------------------------
(* Two ways to an answer: the full ranking, and the ranked shortlist. *)

LEMMA DueIsOrdered ==
    ASSUME NEW scored, Comparable(scored), NEW known, Sourced(known)
    PROVE  /\ \A i \in Due(scored, known) : i \in 1 .. Len(scored)
           /\ IsFiniteSet(Due(scored, known))
           /\ \A i \in Due(scored, known) :
                 /\ RankIn(scored, known)[i] = Score(scored[i], known)
                 /\ Scored(scored)[i] = scored[i].score
                 /\ RankIn(scored, known)[i] \in Int /\ Scored(scored)[i] \in Int
           /\ IsOrder(DueOrder(scored, known), Due(scored, known))
<1> DEFINE S == Due(scored, known)
<1>1. Len(scored) \in Nat /\ DOMAIN scored = 1 .. Len(scored)
  BY ComparableEntries
<1>2. S \subseteq 1 .. Len(scored)
  BY <1>1 DEF Due
<1>3. IsFiniteSet(S)
  <2>1. IsFiniteSet(1 .. Len(scored))
    BY <1>1, FS_Interval
  <2> HIDE DEF S
  <2> QED
    BY <1>2, <2>1, FS_Subset
<1>4. ASSUME NEW i \in S
      PROVE  /\ RankIn(scored, known)[i] = Score(scored[i], known)
             /\ Scored(scored)[i] = scored[i].score
             /\ RankIn(scored, known)[i] \in Int /\ Scored(scored)[i] \in Int
  <2>1. scored[i].score \in Int /\ Eligible(scored[i], known) /\ i \in DOMAIN scored
    BY <1>1, <1>2, ComparableEntries DEF Due
  <2>2. Score(scored[i], known) \in Int
    BY <2>1, ScoresOfEligible
  <2> QED
    BY <2>1, <2>2 DEF RankIn, Scored
<1>5. \A i \in S : i \in Int
  BY <1>1, <1>2
<1> HIDE DEF S
<1>6. IsOrder(BothKeys(RankIn(scored, known), Scored(scored), S), S)
  <2> DEFINE first == RankIn(scored, known)
             second == Scored(scored)
  <2>1. \A i \in S : first[i] \in Int /\ second[i] \in Int
    BY <1>4
  <2> HIDE DEF first, second
  <2>2. IsOrder(BothKeys(first, second, S), S)
    BY <1>5, <2>1, BothKeysOrder
  <2> QED
    BY <2>2 DEF first, second
<1> QED
  BY <1>2, <1>3, <1>4, <1>6 DEF S, DueOrder

LEMMA OrdersDescend ==
    ASSUME NEW S, IsFiniteSet(S), NEW first, NEW second, \A i \in S : first[i] \in Int,
           IsOrder(BothKeys(first, second, S), S),
           NEW y, NEW c, Orders(y, c, S, BothKeys(first, second, S))
    PROVE  Descends(y, c, S, first)
<1> DEFINE R == BothKeys(first, second, S)
<1>1. /\ c \in Nat /\ y \in [1 .. c -> S]
      /\ \A q, r \in 1 .. c : q < r => <<y[q], y[r]>> \in R
      /\ \A e \in S : \E r \in 1 .. c : y[r] = e
  BY DEF Orders
<1>2. \A q, r \in 1 .. c : q < r => first[y[q]] >= first[y[r]]
  <2> SUFFICES ASSUME NEW q \in 1 .. c, NEW r \in 1 .. c, q < r
               PROVE  first[y[q]] >= first[y[r]]
    OBVIOUS
  <2>1. first[y[q]] > first[y[r]] \/ first[y[q]] = first[y[r]]
    BY <1>1 DEF BothKeys
  <2>2. first[y[q]] \in Int /\ first[y[r]] \in Int
    BY <1>1
  <2> QED
    BY <2>1, <2>2
<1>3. \A q, r \in 1 .. c : y[q] = y[r] => q = r
  <2> SUFFICES ASSUME NEW q \in 1 .. c, NEW r \in 1 .. c, y[q] = y[r]
               PROVE  q = r
    OBVIOUS
  <2>1. <<y[q], y[r]>> \notin R /\ <<y[r], y[q]>> \notin R
    <3>1. y[q] \in S
      BY <1>1
    <3> HIDE DEF R
    <3> QED
      BY <3>1 DEF IsOrder, R
  <2>2. ~(q < r) /\ ~(r < q)
    BY <1>1, <2>1
  <2> QED
    BY <1>1, <2>2
<1> QED
  BY <1>1, <1>2, <1>3 DEF Descends

LEMMA FullRanks ==
    ASSUME NEW scored, Comparable(scored), Sourced(sources), NEW k \in Nat
    PROVE  \E c, y : /\ Orders(y, c, Due(scored, sources), DueOrder(scored, sources))
                     /\ Visits(FullAnswer(scored, k), scored, y, AtMost(c, k))
<1> DEFINE N == Len(scored)
           E == Due(scored, sources)
           close == Picked(scored, E)
           keys1 == [i \in DOMAIN close |-> close[i].score]
           byCosine == StableDescending(close, keys1)
           keys2 == [i \in DOMAIN byCosine |-> RankOf(byCosine[i])]
           byRank == StableDescending(byCosine, keys2)
<1>1. FullAnswer(scored, k) = Truncated(byRank, k)
  BY DEF FullAnswer, ByRank, ByCosine, Ranks, IsEligible, Due
<1>2. N \in Nat /\ \A i \in E : i \in 1 .. N
  BY ComparableEntries, DueIsOrdered
<1>3. \A i \in E : /\ RankIn(scored, sources)[i] = RankOf(scored[i])
                   /\ Scored(scored)[i] = scored[i].score
                   /\ RankOf(scored[i]) \in Int /\ scored[i].score \in Int
  BY DueIsOrdered DEF RankOf
<1> HIDE DEF E, N
<1>4. PICK c, p : Orders(p, c, E, Less(E)) /\ Visits(close, scored, p, c)
  BY <1>2, PickedRuns
<1>5. /\ c \in Nat /\ p \in [1 .. c -> E]
      /\ \A q, r \in 1 .. c : q < r => p[q] < p[r]
      /\ \A e \in E : \E r \in 1 .. c : p[r] = e
  BY <1>4 DEF Orders, Less
<1> HIDE DEF close
<1>6. DOMAIN close = 1 .. c /\ \A r \in 1 .. c : close[r] = scored[p[r]]
  BY <1>4 DEF Visits
<1>7. \A i \in 1 .. c : keys1[i] = scored[p[i]].score /\ keys1[i] \in Int
  BY <1>3, <1>5, <1>6
<1> HIDE DEF keys1
<1>8. PICK o1 : /\ Orders(o1, c, 1 .. c, KeyOrder(keys1, 1 .. c))
                /\ Visits(byCosine, close, o1, c)
  BY <1>5, <1>6, <1>7, StableRuns
<1>9. /\ o1 \in [1 .. c -> 1 .. c]
      /\ \A q, r \in 1 .. c : q < r => \/ keys1[o1[q]] > keys1[o1[r]]
                                       \/ keys1[o1[q]] = keys1[o1[r]] /\ o1[q] < o1[r]
      /\ \A i \in 1 .. c : \E r \in 1 .. c : o1[r] = i
  BY <1>8 DEF Orders, KeyOrder
<1> HIDE DEF byCosine
<1>10. DOMAIN byCosine = 1 .. c /\ \A r \in 1 .. c : byCosine[r] = scored[p[o1[r]]]
  BY <1>6, <1>8, <1>9 DEF Visits
<1>11. \A i \in 1 .. c : keys2[i] = RankOf(scored[p[o1[i]]]) /\ keys2[i] \in Int
  <2>1. \A i \in 1 .. c : p[o1[i]] \in E
    BY <1>5, <1>9
  <2> QED
    BY <1>3, <1>10, <2>1
<1> HIDE DEF keys2
<1>12. PICK o2 : /\ Orders(o2, c, 1 .. c, KeyOrder(keys2, 1 .. c))
                 /\ Visits(byRank, byCosine, o2, c)
  BY <1>5, <1>10, <1>11, StableRuns
<1>13. /\ o2 \in [1 .. c -> 1 .. c]
       /\ \A q, r \in 1 .. c : q < r => \/ keys2[o2[q]] > keys2[o2[r]]
                                        \/ keys2[o2[q]] = keys2[o2[r]] /\ o2[q] < o2[r]
       /\ \A i \in 1 .. c : \E r \in 1 .. c : o2[r] = i
  BY <1>12 DEF Orders, KeyOrder
<1> DEFINE y == [r \in 1 .. c |-> p[o1[o2[r]]]]
<1>14. \A r \in 1 .. c : /\ o2[r] \in 1 .. c /\ o1[o2[r]] \in 1 .. c
                         /\ y[r] = p[o1[o2[r]]] /\ y[r] \in E
  BY <1>5, <1>9, <1>13
<1>15. y \in [1 .. c -> E]
  BY <1>14
<1> HIDE DEF y, byRank
<1>16. Visits(byRank, scored, y, c)
  <2>1. byRank = [r \in 1 .. c |-> byCosine[o2[r]]]
    BY <1>12 DEF Visits
  <2>2. \A r \in 1 .. c : byCosine[o2[r]] = scored[y[r]]
    BY <1>10, <1>14
  <2>3. byRank = [r \in 1 .. c |-> scored[y[r]]]
    BY <2>1, <2>2, Zenon
  <2> QED
    BY <2>3 DEF Visits
<1>17. Visits(Truncated(byRank, k), scored, y, AtMost(c, k))
  BY <1>5, <1>16, TruncatedVisits
<1>18. \A e \in E : \E r \in 1 .. c : y[r] = e
  <2> SUFFICES ASSUME NEW e \in E
               PROVE  \E r \in 1 .. c : y[r] = e
    OBVIOUS
  <2>1. PICK i \in 1 .. c : p[i] = e
    BY <1>5
  <2>2. PICK j \in 1 .. c : o1[j] = i
    BY <1>9
  <2>3. PICK r \in 1 .. c : o2[r] = j
    BY <1>13
  <2> QED
    BY <1>14, <2>1, <2>2, <2>3
<1>19. ASSUME NEW q \in 1 .. c, NEW r \in 1 .. c, q < r
       PROVE  <<y[q], y[r]>> \in DueOrder(scored, sources)
  <2> DEFINE first == RankIn(scored, sources)
             second == Scored(scored)
  <2>1. /\ keys2[o2[q]] = first[y[q]] /\ keys2[o2[r]] = first[y[r]]
        /\ keys1[o1[o2[q]]] = second[y[q]] /\ keys1[o1[o2[r]]] = second[y[r]]
    BY <1>3, <1>7, <1>11, <1>14
  <2>2. \/ keys2[o2[q]] > keys2[o2[r]]
        \/ keys2[o2[q]] = keys2[o2[r]] /\ o2[q] < o2[r]
    BY <1>13, <1>19
  <2>3. o2[q] < o2[r] =>
           \/ keys1[o1[o2[q]]] > keys1[o1[o2[r]]]
           \/ keys1[o1[o2[q]]] = keys1[o1[o2[r]]] /\ o1[o2[q]] < o1[o2[r]]
    BY <1>9, <1>14
  <2>4. o1[o2[q]] < o1[o2[r]] => y[q] < y[r]
    BY <1>5, <1>14
  <2> HIDE DEF first, second
  <2>5. \/ first[y[q]] > first[y[r]]
        \/ /\ first[y[q]] = first[y[r]]
           /\ \/ second[y[q]] > second[y[r]]
              \/ second[y[q]] = second[y[r]] /\ y[q] < y[r]
    BY <2>1, <2>2, <2>3, <2>4
  <2>6. <<y[q], y[r]>> \in BothKeys(first, second, E)
    BY <1>14, <2>5 DEF BothKeys
  <2> QED
    BY <2>6 DEF DueOrder, first, second, E
<1>20. Orders(y, c, E, DueOrder(scored, sources))
  BY <1>5, <1>15, <1>18, <1>19 DEF Orders
<1> QED
  BY <1>1, <1>17, <1>20 DEF E

\* What the shortlist is, for what is ranked next.
LEMMA ShortlistVisits ==
    ASSUME NEW scored, Comparable(scored), NEW window \in Nat,
           NEW best \in Shortlists(scored, window)
    PROVE  \E t : LET N == Len(scored)
                      m == AtMost(N, window)
                  IN  /\ m \in Nat /\ m <= window /\ m <= N /\ (m = N \/ m = window)
                      /\ t \in [1 .. m -> 1 .. N]
                      /\ \A q, r \in 1 .. m : t[q] = t[r] => q = r
                      /\ Visits(best, scored, t, m)
                      /\ Numbers(scored)
                            => Leads(t, m, 1 .. N, KeyOrder(Scored(scored), 1 .. N))
<1>1. Len(scored) \in Nat /\ scored \in Seq([node_id : Nat, score : Int])
  BY ComparableEntries DEF Comparable
<1>2. PICK t : ShortlistOf(best, t, scored, Len(scored), window)
  BY <1>1, ScanEnds
<1> WITNESS t
<1>3. LET m == AtMost(Len(scored), window)
      IN  m \in Nat /\ m <= window /\ m <= Len(scored) /\ (m = Len(scored) \/ m = window)
  BY <1>1 DEF AtMost
<1> QED
  BY <1>2, <1>3 DEF ShortlistOf, Visits

\* While the window holds the whole index, an answer is all that is eligible by
\* falling rank, cut to length; and without NaN in the one order there is.
LEMMA AnswerOrdered ==
    ASSUME NEW scored, Comparable(scored), NEW known, Sourced(known),
           NEW window \in Nat, Len(scored) <= window,
           NEW best \in Shortlists(scored, window), NEW k \in Nat
    PROVE  \E c, x : /\ Descends(x, c, Due(scored, known), RankIn(scored, known))
                     /\ Numbers(scored)
                           => Orders(x, c, Due(scored, known), DueOrder(scored, known))
                     /\ Visits(Ranked(best, known, k), scored, x, AtMost(c, k))
<1> DEFINE N == Len(scored)
           E == Due(scored, known)
           first == RankIn(scored, known)
           second == Scored(scored)
<1>1. N \in Nat /\ DOMAIN scored = 1 .. N /\ (\A i \in E : i \in 1 .. N)
  BY ComparableEntries, DueIsOrdered
<1>2. PICK t : /\ t \in [1 .. N -> 1 .. N]
               /\ \A q, r \in 1 .. N : t[q] = t[r] => q = r
               /\ Visits(best, scored, t, N)
               /\ Numbers(scored) => Leads(t, N, 1 .. N, KeyOrder(second, 1 .. N))
  <2>1. AtMost(N, window) = N
    BY <1>1 DEF AtMost
  <2> QED
    BY <2>1, ShortlistVisits
<1>3. \A i \in 1 .. N : \E a \in 1 .. N : t[a] = i
  <2>1. t \in Injection(1 .. N, 1 .. N)
    BY <1>2 DEF Injection, IsInjective
  <2>2. IsFiniteSet(1 .. N)
    BY <1>1, FS_Interval
  <2>3. t \in Surjection(1 .. N, 1 .. N)
    BY <2>1, <2>2, FS_Injection
  <2> QED
    BY <2>3 DEF Surjection
<1>4. \A i \in 1 .. N : Eligible(scored[i], known) <=> i \in E
  BY <1>1 DEF Due
<1>5. \A i \in E : /\ first[i] = Score(scored[i], known) /\ first[i] \in Int
                   /\ second[i] = scored[i].score /\ second[i] \in Int
  BY DueIsOrdered
<1> HIDE DEF E, N, first, second
<1>6. PICK c, x : /\ Ranking(x, c, scored, t, N, known)
                  /\ Visits(Ranked(best, known, k), scored, x, AtMost(c, k))
  <2>1. \A a \in 1 .. N : Eligible(scored[t[a]], known) => Score(scored[t[a]], known) \in Int
    BY <1>2, <1>4, <1>5
  <2> QED
    BY <1>1, <1>2, <2>1, RankedRanks
<1>7. c \in Nat /\ \A r \in 1 .. c : x[r] \in E
  BY <1>2, <1>4, <1>6 DEF Ranking
<1>8. \A e \in E : \E r \in 1 .. c : x[r] = e
  <2> SUFFICES ASSUME NEW e \in E
               PROVE  \E r \in 1 .. c : x[r] = e
    OBVIOUS
  <2>1. PICK a \in 1 .. N : t[a] = e
    BY <1>1, <1>3
  <2> QED
    BY <1>1, <1>4, <1>6, <2>1 DEF Ranking
<1> DEFINE z == [r \in 1 .. c |-> x[r]]
<1>9. z \in [1 .. c -> E] /\ \A r \in 1 .. c : z[r] = x[r]
  BY <1>7
<1> HIDE DEF z
<1>10. Visits(Ranked(best, known, k), scored, z, AtMost(c, k))
  <2>1. \A r \in 1 .. AtMost(c, k) : r \in 1 .. c
    BY <1>7 DEF AtMost
  <2>2. \A r \in 1 .. AtMost(c, k) : scored[z[r]] = scored[x[r]]
    BY <1>9, <2>1
  <2>3. Ranked(best, known, k) = [r \in 1 .. AtMost(c, k) |-> scored[x[r]]]
    BY <1>6 DEF Visits
  <2>4. Ranked(best, known, k) = [r \in 1 .. AtMost(c, k) |-> scored[z[r]]]
    BY <2>2, <2>3, Zenon
  <2> QED
    BY <2>4 DEF Visits
<1>11. ASSUME NEW q \in 1 .. c, NEW r \in 1 .. c, q < r
       PROVE  \/ first[z[q]] > first[z[r]]
              \/ /\ first[z[q]] = first[z[r]]
                 /\ \E a, b \in 1 .. N : a < b /\ z[q] = t[a] /\ z[r] = t[b]
  <2>1. z[q] \in E /\ z[r] \in E /\ z[q] = x[q] /\ z[r] = x[r]
    BY <1>9
  <2>2. first[z[q]] = Score(scored[x[q]], known) /\ first[z[r]] = Score(scored[x[r]], known)
    BY <1>5, <2>1
  <2> QED
    BY <1>6, <1>11, <2>1, <2>2 DEF Ranking
<1>12. ASSUME NEW q \in 1 .. c, NEW r \in 1 .. c, z[q] = z[r]
       PROVE  ~(q < r)
  <2> SUFFICES ASSUME q < r
               PROVE  FALSE
    OBVIOUS
  <2>1. first[z[q]] \in Int
    BY <1>5, <1>9
  <2>2. PICK a \in 1 .. N, b \in 1 .. N : a < b /\ z[q] = t[a] /\ z[r] = t[b]
    BY <1>11, <1>12, <2>1
  <2>3. a = b
    BY <1>2, <1>12, <2>2
  <2>4. a \in Int
    BY <1>1
  <2> QED
    BY <2>2, <2>3, <2>4
<1>13. Descends(z, c, E, first)
  <2>1. \A q, r \in 1 .. c : z[q] = z[r] => q = r
    <3> SUFFICES ASSUME NEW q \in 1 .. c, NEW r \in 1 .. c, z[q] = z[r]
                 PROVE  q = r
      OBVIOUS
    <3>1. ~(q < r) /\ ~(r < q)
      BY <1>12
    <3> QED
      BY <1>7, <3>1
  <2>2. \A q, r \in 1 .. c : q < r => first[z[q]] >= first[z[r]]
    <3> SUFFICES ASSUME NEW q \in 1 .. c, NEW r \in 1 .. c, q < r
                 PROVE  first[z[q]] >= first[z[r]]
      OBVIOUS
    <3>1. first[z[q]] \in Int /\ first[z[r]] \in Int
      BY <1>5, <1>9
    <3> QED
      BY <1>11, <3>1
  <2> QED
    BY <1>7, <1>8, <1>9, <2>1, <2>2 DEF Descends
<1>14. ASSUME Numbers(scored)
       PROVE  Orders(z, c, E, BothKeys(first, second, E))
  <2>1. \A a, b \in 1 .. N : a < b => <<t[a], t[b]>> \in KeyOrder(second, 1 .. N)
    BY <1>2, <1>14 DEF Leads
  <2>2. \A q, r \in 1 .. c : q < r => <<z[q], z[r]>> \in BothKeys(first, second, E)
    <3> SUFFICES ASSUME NEW q \in 1 .. c, NEW r \in 1 .. c, q < r
                 PROVE  <<z[q], z[r]>> \in BothKeys(first, second, E)
      OBVIOUS
    <3>1. z[q] \in E /\ z[r] \in E
      BY <1>9
    <3>2. CASE first[z[q]] > first[z[r]]
      BY <3>1, <3>2 DEF BothKeys
    <3>3. CASE first[z[q]] = first[z[r]] /\ <<z[q], z[r]>> \in KeyOrder(second, 1 .. N)
      BY <3>1, <3>3 DEF BothKeys, KeyOrder
    <3> QED
      BY <1>11, <2>1, <3>2, <3>3
  <2> QED
    BY <1>7, <1>8, <1>9, <2>2 DEF Orders
<1> QED
  BY <1>10, <1>13, <1>14 DEF E, first, second, DueOrder

LEMMA CleanIsNumbers ==
    ASSUME NEW scored, Comparable(scored)
    PROVE  Clean(scored) <=> Numbers(scored)
BY ComparableEntries DEF Clean, Numbers

\* While the window holds the whole index, every answer ranks as the rule says,
\* and without NaN is what the rule says.
LEMMA AnswerIsFull ==
    ASSUME NEW scored, Comparable(scored), Sourced(sources), NEW k \in Nat,
           Len(scored) <= OverFetch(k), NEW answer \in Answers(scored, sources, k)
    PROVE  /\ Ranks(answer) = Ranks(FullAnswer(scored, k))
           /\ Clean(scored) => answer = FullAnswer(scored, k)
<1> DEFINE E == Due(scored, sources)
           first == RankIn(scored, sources)
           due == FullAnswer(scored, k)
<1>1. OverFetch(k) \in Nat
  BY DEF OverFetch
<1>2. PICK best \in Shortlists(scored, OverFetch(k)) : answer = Ranked(best, sources, k)
  BY DEF Answers
<1>3. PICK c, x : /\ Descends(x, c, E, first)
                  /\ Numbers(scored) => Orders(x, c, E, DueOrder(scored, sources))
                  /\ Visits(answer, scored, x, AtMost(c, k))
  BY <1>1, <1>2, AnswerOrdered
<1>4. PICK d, y : /\ Orders(y, d, E, DueOrder(scored, sources))
                  /\ Visits(due, scored, y, AtMost(d, k))
  BY FullRanks
<1>5. /\ IsFiniteSet(E) /\ IsOrder(DueOrder(scored, sources), E)
      /\ \A i \in E : first[i] = RankOf(scored[i]) /\ first[i] \in Int
  BY DueIsOrdered DEF RankOf
<1>6. Descends(y, d, E, first)
  <2> DEFINE second == Scored(scored)
  <2>1. Orders(y, d, E, BothKeys(first, second, E)) /\ IsOrder(BothKeys(first, second, E), E)
    BY <1>4, <1>5 DEF DueOrder
  <2> HIDE DEF E, first, second
  <2> QED
    BY <1>5, <2>1, OrdersDescend
<1> HIDE DEF E, first, due
<1>7. c = d /\ \A r \in 1 .. d : first[x[r]] = first[y[r]]
  BY <1>3, <1>5, <1>6, DescentsAgree
<1> DEFINE m == AtMost(d, k)
<1>8. d \in Nat /\ m \in Nat /\ \A r \in 1 .. m : r \in 1 .. d /\ x[r] \in E /\ y[r] \in E
  <2>1. d \in Nat /\ m \in Nat /\ \A r \in 1 .. m : r \in 1 .. d
    BY <1>6 DEF Descends, AtMost
  <2>2. \A r \in 1 .. d : x[r] \in E /\ y[r] \in E
    BY <1>3, <1>6, <1>7 DEF Descends
  <2> QED
    BY <2>1, <2>2
<1>9. answer = [r \in 1 .. m |-> scored[x[r]]] /\ due = [r \in 1 .. m |-> scored[y[r]]]
  BY <1>3, <1>4, <1>7 DEF Visits
<1> HIDE DEF m
<1>10. Ranks(answer) = Ranks(due)
  <2>1. Ranks(answer) = [r \in 1 .. m |-> RankOf(scored[x[r]])]
    <3>1. DOMAIN answer = 1 .. m /\ \A r \in 1 .. m : answer[r] = scored[x[r]]
      BY <1>9
    <3>2. Ranks(answer) = [r \in 1 .. m |-> RankOf(answer[r])]
      BY <3>1 DEF Ranks
    <3> QED
      BY <3>1, <3>2, Zenon
  <2>2. Ranks(due) = [r \in 1 .. m |-> RankOf(scored[y[r]])]
    <3>1. DOMAIN due = 1 .. m /\ \A r \in 1 .. m : due[r] = scored[y[r]]
      BY <1>9
    <3>2. Ranks(due) = [r \in 1 .. m |-> RankOf(due[r])]
      BY <3>1 DEF Ranks
    <3> QED
      BY <3>1, <3>2, Zenon
  <2>3. \A r \in 1 .. m : RankOf(scored[x[r]]) = RankOf(scored[y[r]])
    BY <1>5, <1>7, <1>8
  <2> QED
    BY <2>1, <2>2, <2>3, Zenon
<1>11. ASSUME Clean(scored)
       PROVE  answer = due
  <2>1. Orders(x, c, E, DueOrder(scored, sources))
    BY <1>3, <1>11, CleanIsNumbers
  <2>2. x = y
    BY <1>4, <1>5, <2>1, OrdersAgree
  <2> QED
    BY <1>9, <2>2
<1> QED
  BY <1>10, <1>11 DEF due

\* What an answer lacks had answers ranking as high before it, or never got a
\* place in the window.
LEMMA MissedIsCrowded ==
    ASSUME NEW scored, Comparable(scored), Sourced(sources), NEW k \in Nat,
           NEW answer \in Answers(scored, sources, k), NEW e \in ToSet(scored),
           IsEligible(e), e \notin ToSet(answer)
    PROVE  \/ /\ Len(answer) = k
              /\ \A a \in ToSet(answer) : RankOf(a) >= RankOf(e)
           \/ Cardinality({o \in ToSet(scored) \ {e} : Geq(o.score, e.score)}) >= OverFetch(k)
           \/ ~Clean(scored) /\ Len(scored) > OverFetch(k)
<1> DEFINE N == Len(scored)
           window == OverFetch(k)
           m == AtMost(N, window)
<1>1. window \in Nat
  BY DEF OverFetch
<1>2. PICK best \in Shortlists(scored, window) : answer = Ranked(best, sources, k)
  BY DEF Answers
<1>3. PICK t : /\ m \in Nat /\ m <= window /\ m <= N /\ (m = N \/ m = window)
               /\ t \in [1 .. m -> 1 .. N]
               /\ \A q, r \in 1 .. m : t[q] = t[r] => q = r
               /\ Visits(best, scored, t, m)
               /\ Numbers(scored) => Leads(t, m, 1 .. N, KeyOrder(Scored(scored), 1 .. N))
  BY <1>1, ShortlistVisits
<1>4. N \in Nat /\ DOMAIN scored = 1 .. N
  BY ComparableEntries
<1>5. PICK i \in 1 .. N : e = scored[i]
  BY ComparableEntries
<1> HIDE DEF N, m, window
<1>6. \A j \in 1 .. N : scored[j].score \in Int /\ scored[j] \in ToSet(scored)
  BY ComparableEntries DEF N
<1>7. \A j \in 1 .. N : Eligible(scored[j], sources) => Score(scored[j], sources) \in Int
  BY <1>6, ScoresOfEligible
<1>8. CASE \E a \in 1 .. m : t[a] = i
  <2>1. PICK c, x : /\ Ranking(x, c, scored, t, m, sources)
                    /\ Visits(answer, scored, x, AtMost(c, k))
    BY <1>2, <1>3, <1>7, RankedRanks
  <2>2. c \in Nat
    BY <2>1 DEF Ranking
  <2>3. PICK r \in 1 .. c : x[r] = i
    BY <1>5, <1>8, <2>1 DEF Ranking, IsEligible
  <2> DEFINE n == AtMost(c, k)
  <2>4. n \in Nat /\ (n = c \/ n = k) /\ n <= c
    BY <2>2 DEF AtMost
  <2>5. answer = [q \in 1 .. n |-> scored[x[q]]]
    BY <2>1 DEF Visits
  <2> HIDE DEF n
  <2>6. Len(answer) = n /\ ToSet(answer) = {scored[x[q]] : q \in 1 .. n}
    BY <2>4, <2>5 DEF ToSet
  <2>7. r \notin 1 .. n
    BY <1>5, <2>3, <2>6
  <2>8. n = k /\ \A q \in 1 .. n : q \in 1 .. c /\ q < r
    BY <2>2, <2>3, <2>4, <2>7
  <2>9. ASSUME NEW a \in ToSet(answer)
        PROVE  RankOf(a) >= RankOf(e)
    <3>1. PICK q \in 1 .. n : a = scored[x[q]]
      BY <2>6
    <3>2. \/ Score(scored[x[q]], sources) > Score(scored[x[r]], sources)
          \/ Score(scored[x[q]], sources) = Score(scored[x[r]], sources)
      BY <2>1, <2>8 DEF Ranking
    <3>3. Score(scored[x[q]], sources) \in Int /\ Score(scored[x[r]], sources) \in Int
      <4>1. \A p \in 1 .. c : \E b \in 1 .. m : x[p] = t[b] /\ Eligible(scored[t[b]], sources)
        BY <2>1 DEF Ranking
      <4>2. \A p \in 1 .. c : x[p] \in 1 .. N /\ Eligible(scored[x[p]], sources)
        BY <1>3, <4>1
      <4> QED
        BY <1>7, <2>8, <4>2
    <3> QED
      BY <1>5, <2>3, <3>1, <3>2, <3>3 DEF RankOf
  <2> QED
    BY <2>6, <2>8, <2>9
<1>9. CASE ~\E a \in 1 .. m : t[a] = i
  <2>1. m # N
    <3> SUFFICES ASSUME m = N
                 PROVE  FALSE
      OBVIOUS
    <3>1. t \in Injection(1 .. N, 1 .. N)
      BY <1>3 DEF Injection, IsInjective
    <3>2. IsFiniteSet(1 .. N)
      BY <1>4, FS_Interval
    <3>3. t \in Surjection(1 .. N, 1 .. N)
      BY <3>1, <3>2, FS_Injection
    <3> QED
      BY <1>5, <1>9, <3>3 DEF Surjection
  <2>2. m = window /\ N > window
    BY <1>1, <1>3, <1>4, <2>1
  <2>3. CASE ~Clean(scored)
    BY <2>2, <2>3 DEF N, window
  <2>4. CASE Clean(scored)
    <3> DEFINE O == {o \in ToSet(scored) \ {e} : Geq(o.score, e.score)}
               f == [a \in 1 .. m |-> scored[t[a]]]
    <3>1. Numbers(scored)
      BY <2>4, CleanIsNumbers
    <3>2. \A a \in 1 .. m : <<t[a], i>> \in KeyOrder(Scored(scored), 1 .. N)
      BY <1>3, <1>5, <1>9, <3>1 DEF Leads
    <3>3. ASSUME NEW a \in 1 .. m
          PROVE  scored[t[a]] \in O
      <4>1. t[a] \in 1 .. N /\ t[a] # i
        BY <1>3, <1>9
      <4>2. scored[t[a]] # e
        BY <1>5, <4>1, ComparableEntries DEF N
      <4>3. scored[t[a]].score # NaN /\ e.score # NaN
        BY <1>4, <1>5, <4>1, <3>1 DEF Numbers
      <4>4. \/ Scored(scored)[t[a]] > Scored(scored)[i]
            \/ Scored(scored)[t[a]] = Scored(scored)[i]
        BY <3>2 DEF KeyOrder
      <4>5. scored[t[a]].score > e.score \/ scored[t[a]].score = e.score
        BY <1>4, <1>5, <4>1, <4>4 DEF Scored
      <4>6. scored[t[a]].score \in Int /\ e.score \in Int
        BY <1>5, <1>6, <4>1
      <4>7. Geq(scored[t[a]].score, e.score)
        BY <4>3, <4>5, <4>6 DEF Geq
      <4> QED
        BY <1>6, <4>1, <4>2, <4>7
    <3>4. IsFiniteSet(O)
      <4> DEFINE g == [j \in 1 .. N |-> scored[j]]
      <4>1. ToSet(scored) = {scored[j] : j \in 1 .. N}
        BY <1>4 DEF ToSet
      <4>2. g \in Surjection(1 .. N, ToSet(scored))
        BY <4>1 DEF Surjection
      <4>3. IsFiniteSet(1 .. N)
        BY <1>4, FS_Interval
      <4>4. IsFiniteSet(ToSet(scored))
        BY <4>2, <4>3, FS_Surjection
      <4> QED
        BY <4>4, FS_Subset
    <3>5. \A a, b \in 1 .. m : f[a] = f[b] => a = b
      <4> SUFFICES ASSUME NEW a \in 1 .. m, NEW b \in 1 .. m, f[a] = f[b]
                   PROVE  a = b
        OBVIOUS
      <4>1. t[a] \in 1 .. N /\ t[b] \in 1 .. N /\ scored[t[a]] = scored[t[b]]
        BY <1>3
      <4>2. t[a] = t[b]
        BY <4>1, ComparableEntries DEF N
      <4> QED
        BY <1>3, <4>2
    <3>6. f \in [1 .. m -> O]
      BY <3>3
    <3> HIDE DEF f, O
    <3>7. f \in Injection(1 .. m, O)
      BY <3>5, <3>6 DEF Injection, IsInjective
    <3>8. Cardinality(1 .. m) <= Cardinality(O) /\ Cardinality(1 .. m) = m
      BY <1>3, <3>4, <3>7, FS_Injection, FS_Interval
    <3>9. Cardinality(O) \in Nat
      BY <3>4, FS_CardinalityType
    <3>10. Cardinality(O) >= window
      BY <1>1, <2>2, <3>8, <3>9
    <3> QED
      BY <3>10 DEF O, window
  <2> QED
    BY <2>3, <2>4
<1> QED
  BY <1>8, <1>9

-----------------------------------------------------------------------------
(* The index between calls. *)

Embeddings == {fact.embedding : fact \in Facts}
Indexed == [node_id : Nat, vector : Embeddings]

\* The inductive invariant: every id in index or graph was drawn, none is
\* indexed twice, and what is indexed is what some fact came with.
RecallInv ==
    /\ stored \in Nat
    /\ DOMAIN sources \subseteq 1 .. stored /\ Sourced(sources)
    /\ vectors \in Seq(Indexed)
    /\ \A i \in 1 .. Len(vectors) : vectors[i].node_id \in 1 .. stored
    /\ \A i, j \in 1 .. Len(vectors) : vectors[i].node_id = vectors[j].node_id => i = j

\* retain_ids: the survivors, each where it was among them.
LEMMA RetainedRuns ==
    ASSUME NEW s, NEW n \in Nat, DOMAIN s = 1 .. n, NEW ids
    PROVE  \E c, p : LET kept == {i \in 1 .. n : s[i].node_id \in ids}
                     IN  Orders(p, c, kept, Less(kept)) /\ Visits(RetainIds(s, ids), s, p, c)
<1> DEFINE kept == {i \in 1 .. n : s[i].node_id \in ids}
<1>1. RetainIds(s, ids) = Picked(s, kept)
  BY DEF RetainIds
<1>2. \A i \in kept : i \in 1 .. n
  OBVIOUS
<1> HIDE DEF kept
<1>3. \E c, p : Orders(p, c, kept, Less(kept)) /\ Visits(Picked(s, kept), s, p, c)
  BY <1>2, PickedRuns
<1> QED
  BY <1>1, <1>3 DEF kept

LEMMA IndexedEntries ==
    ASSUME NEW entries, entries \in Seq(Indexed)
    PROVE  /\ Len(entries) \in Nat /\ DOMAIN entries = 1 .. Len(entries)
           /\ \A i \in 1 .. Len(entries) :
                 entries[i].node_id \in Nat /\ entries[i].vector \in Embeddings
                 /\ entries[i] \in Indexed
<1>1. \A i \in 1 .. Len(entries) : entries[i] \in Indexed
  OBVIOUS
<1>2. \A i \in 1 .. Len(entries) : entries[i].node_id \in Nat /\ entries[i].vector \in Embeddings
  BY <1>1 DEF Indexed
<1> QED
  BY <1>1, <1>2

LEMMA RecallInitInv == Init => RecallInv
<1> SUFFICES ASSUME Init
             PROVE  RecallInv
  OBVIOUS
<1>1. stored = 0 /\ sources = << >> /\ vectors = << >>
  BY DEF Init
<1>2. DOMAIN sources = {} /\ Len(vectors) = 0 /\ vectors \in Seq(Indexed)
  BY <1>1
<1> QED
  BY <1>1, <1>2 DEF RecallInv, Sourced

LEMMA AddNodeInv ==
    ASSUME RecallInv, NEW fact \in Facts, AddNode(fact)
    PROVE  RecallInv'
<1>1. stored \in Nat /\ stored' = stored + 1
  BY DEF RecallInv, AddNode
<1>2. DOMAIN sources' \subseteq 1 .. stored' /\ Sourced(sources')
  <2>1. DOMAIN sources' = DOMAIN sources \cup {stored'}
    BY DEF AddNode
  <2>2. \A n \in DOMAIN sources' : sources'[n] = IF n = stored' THEN fact.source_type
                                                 ELSE sources[n]
    BY DEF AddNode
  <2>3. fact.source_type \in SourceType
    BY RecallAssumption
  <2>4. DOMAIN sources' \subseteq 1 .. stored'
    BY <1>1, <2>1 DEF RecallInv
  <2> QED
    BY <2>1, <2>2, <2>3, <2>4 DEF RecallInv, Sourced
<1>3. CASE vectors' = vectors
  <2>1. \A i \in 1 .. Len(vectors) : vectors[i].node_id \in 1 .. stored'
    BY <1>1, IndexedEntries DEF RecallInv
  <2> QED
    BY <1>1, <1>2, <1>3, <2>1 DEF RecallInv
<1>4. CASE vectors' # vectors
  <2> DEFINE entry == [node_id |-> stored', vector |-> fact.embedding]
             n == Len(vectors)
  <2>1. vectors' = Append(vectors, entry)
    BY <1>4 DEF AddNode, Inserted
  <2>2. entry \in Indexed
    BY <1>1 DEF Indexed, Embeddings
  <2>3. vectors \in Seq(Indexed) /\ n \in Nat
    BY IndexedEntries DEF RecallInv
  <2>4. entry.node_id = stored'
    OBVIOUS
  <2> HIDE DEF entry
  <2>5. /\ vectors' \in Seq(Indexed) /\ Len(vectors') = n + 1
        /\ \A i \in 1 .. n : vectors'[i] = vectors[i]
        /\ vectors'[n + 1] = entry
    BY <2>1, <2>2, <2>3
  <2> HIDE DEF n
  <2>6. \A i \in 1 .. n : vectors[i].node_id \in 1 .. stored
    BY DEF RecallInv, n
  <2>7. \A i, j \in 1 .. n : vectors[i].node_id = vectors[j].node_id => i = j
    BY DEF RecallInv, n
  <2>8. \A i \in 1 .. n + 1 : i \in 1 .. n \/ i = n + 1
    BY <2>3
  <2>9. \A i \in 1 .. n + 1 : vectors'[i].node_id \in 1 .. stored'
    BY <1>1, <2>4, <2>5, <2>6, <2>8
  <2>10. \A i \in 1 .. n : vectors'[i].node_id # stored' /\ vectors'[i].node_id = vectors[i].node_id
    BY <1>1, <2>5, <2>6
  <2>11. \A i, j \in 1 .. n + 1 : vectors'[i].node_id = vectors'[j].node_id => i = j
    BY <2>4, <2>5, <2>7, <2>8, <2>10
  <2> QED
    BY <1>1, <1>2, <2>5, <2>9, <2>11 DEF RecallInv
<1> QED
  BY <1>3, <1>4

LEMMA ForgetInv ==
    ASSUME RecallInv, NEW gone, Forget(gone)
    PROVE  RecallInv'
<1>1. stored' = stored /\ stored \in Nat
  BY DEF RecallInv, Forget
<1>2. DOMAIN sources' = DOMAIN sources \ gone /\ \A n \in DOMAIN sources' : sources'[n] = sources[n]
  BY DEF Forget
<1>3. DOMAIN sources' \subseteq 1 .. stored' /\ Sourced(sources')
  BY <1>1, <1>2 DEF RecallInv, Sourced
<1> DEFINE n == Len(vectors)
           kept == {i \in 1 .. n : vectors[i].node_id \in DOMAIN sources'}
<1>4. n \in Nat /\ DOMAIN vectors = 1 .. n /\ \A i \in 1 .. n : vectors[i] \in Indexed
  BY IndexedEntries DEF RecallInv
<1>5. PICK c, p : Orders(p, c, kept, Less(kept)) /\ Visits(vectors', vectors, p, c)
  <2>1. vectors' = RetainIds(vectors, DOMAIN sources')
    BY DEF Forget
  <2>2. \E c, p : Orders(p, c, kept, Less(kept))
                     /\ Visits(RetainIds(vectors, DOMAIN sources'), vectors, p, c)
    BY <1>4, RetainedRuns
  <2> QED
    BY <2>1, <2>2
<1>6. /\ c \in Nat /\ p \in [1 .. c -> kept]
      /\ \A q, r \in 1 .. c : q < r => p[q] < p[r]
  BY <1>5 DEF Orders, Less
<1>7. kept \subseteq 1 .. n
  OBVIOUS
<1> HIDE DEF n, kept
<1>8. vectors' = [r \in 1 .. c |-> vectors[p[r]]]
  BY <1>5 DEF Visits
<1>9. \A r \in 1 .. c : p[r] \in 1 .. n /\ vectors'[r] = vectors[p[r]]
  BY <1>6, <1>7, <1>8
<1>10. vectors' \in Seq(Indexed) /\ Len(vectors') = c
  <2>1. vectors' \in [1 .. c -> Indexed]
    BY <1>4, <1>8, <1>9
  <2> QED
    BY <1>6, <2>1, FunctionIsSequence
<1>11. \A i \in 1 .. c : vectors'[i].node_id \in 1 .. stored
  BY <1>9 DEF RecallInv, n
<1>12. ASSUME NEW i \in 1 .. c, NEW j \in 1 .. c, vectors'[i].node_id = vectors'[j].node_id
       PROVE  i = j
  <2>1. p[i] = p[j] /\ p[i] \in Int
    BY <1>4, <1>9, <1>12 DEF RecallInv, n
  <2>2. ~(i < j) /\ ~(j < i)
    BY <1>6, <2>1
  <2> QED
    BY <1>6, <2>2
<1> QED
  BY <1>1, <1>3, <1>10, <1>11, <1>12 DEF RecallInv

\* What one scan sees of an index.
LEMMA ScanIsComparable ==
    ASSUME NEW entries \in Seq(Indexed),
           \A i, j \in 1 .. Len(entries) : entries[i].node_id = entries[j].node_id => i = j,
           NEW build \in Builds
    PROVE  LET scored == ScannedIn(entries, build)
           IN  /\ Comparable(scored)
               /\ Len(scored) <= Len(entries)
               /\ build = "int8" /\ ~HasNaN(Query) => Numbers(scored)
<1> DEFINE scored == ScannedIn(entries, build)
           n == Len(entries)
<1>1. n \in Nat /\ DOMAIN entries = 1 .. n
      /\ \A i \in 1 .. n : entries[i].node_id \in Nat /\ entries[i].vector \in Embeddings
  BY IndexedEntries
<1>2. \A v \in Embeddings : Scores[build][v] = ScoreUnder(build, Query, v)
  BY DEF Scores, Embeddings
<1>3. Query \in Seq(Int) /\ \A v \in Embeddings : v \in Seq(Int)
  BY RecallAssumption DEF Embeddings
<1>4. ASSUME NEW v \in Embeddings
      PROVE  /\ Scores[build][v] \in Int
             /\ build = "int8" /\ ~HasNaN(Query) => Scores[build][v] # NaN
  <2>1. /\ ScoreUnder(build, Query, v) \in -100 .. 100 \cup {NaN}
        /\ build = "int8" /\ ~HasNaN(Query) => ScoreUnder(build, Query, v) \in -100 .. 100
    BY <1>3, ScoresBounded
  <2>2. Scores[build][v] = ScoreUnder(build, Query, v)
    BY <1>2
  <2> DEFINE x == Scores[build][v]
  <2>3. /\ x \in -100 .. 100 \cup {NaN}
        /\ build = "int8" /\ ~HasNaN(Query) => x \in -100 .. 100
    BY <2>1, <2>2
  <2> HIDE DEF x
  <2>4. /\ x \in Int
        /\ build = "int8" /\ ~HasNaN(Query) => x # NaN
    BY <2>3 DEF NaN
  <2> QED
    BY <2>4 DEF x
<1>5. CASE ~Scans(build, Query)
  <2>1. scored = << >>
    BY <1>5 DEF ScannedIn
  <2>2. Len(scored) = 0 /\ DOMAIN scored = {} /\ scored \in Seq([node_id : Nat, score : Int])
    BY <2>1
  <2> HIDE DEF scored
  <2>3. Comparable(scored) /\ Numbers(scored)
    BY <2>2 DEF Comparable, Numbers
  <2> QED
    BY <1>1, <2>2, <2>3 DEF scored
<1>6. CASE Scans(build, Query)
  <2>1. scored = [i \in 1 .. n |-> [node_id |-> entries[i].node_id,
                                    score   |-> Scores[build][entries[i].vector]]]
    BY <1>1, <1>6 DEF ScannedIn
  <2>2. \A i \in 1 .. n : /\ scored[i] \in [node_id : Nat, score : Int]
                          /\ scored[i].node_id = entries[i].node_id
                          /\ scored[i].score = Scores[build][entries[i].vector]
    BY <1>1, <1>4, <2>1
  <2>3. scored \in [1 .. n -> [node_id : Nat, score : Int]]
    BY <2>1, <2>2
  <2> HIDE DEF scored
  <2>4. scored \in Seq([node_id : Nat, score : Int]) /\ Len(scored) = n /\ DOMAIN scored = 1 .. n
    BY <1>1, <2>3, FunctionIsSequence
  <2>5. \A i, j \in 1 .. n : scored[i].node_id = scored[j].node_id => i = j
    BY <2>2
  <2>6. Comparable(scored)
    BY <2>4, <2>5 DEF Comparable
  <2>7. build = "int8" /\ ~HasNaN(Query) => Numbers(scored)
    <3>1. \A i \in 1 .. n : entries[i].vector \in Embeddings
      BY <1>1
    <3>2. \A i \in 1 .. n : scored[i].score \in Int
      BY <1>4, <2>2, <3>1
    <3>3. build = "int8" /\ ~HasNaN(Query) => \A i \in 1 .. n : scored[i].score # NaN
      BY <1>4, <2>2, <3>1
    <3> QED
      BY <2>4, <3>2, <3>3 DEF Numbers
  <2> QED
    BY <1>1, <2>4, <2>6, <2>7 DEF scored
<1> QED
  BY <1>5, <1>6

LEMMA RecallStep ==
    ASSUME RecallInv, [ReadSideNext]_readSideVars
    PROVE  RecallInv'
<1>1. CASE UNCHANGED vars
  BY <1>1 DEF vars, RecallInv
<1>2. CASE Next
  BY <1>2, AddNodeInv, ForgetInv DEF Next
<1> QED
  BY <1>1, <1>2 DEF ReadSideNext, readSideVars

\* However facts are stored and forgotten, the index lists stored facts once, in
\* the order they came, with the embeddings they came with (add_node stores node
\* and vector together, evict_nodes retains the vectors of the nodes it left).
THEOREM RecallInvariance == ReadSideSpec => []RecallInv
<1>1. ReadSideInit => RecallInv
  BY RecallInitInv DEF ReadSideInit
<1> QED
  BY <1>1, RecallStep, PTL DEF ReadSideSpec

LEMMA ScannedNow ==
    ASSUME RecallInv, NEW build \in Builds
    PROVE  /\ Comparable(Scanned(build))
           /\ Len(Scanned(build)) <= Len(vectors)
           /\ build = "int8" /\ ~HasNaN(Query) => Numbers(Scanned(build))
           /\ Len(Scanned(build)) \in Nat /\ Len(vectors) \in Nat
<1>1. Len(Scanned(build)) \in Nat /\ Len(vectors) \in Nat
  <2>1. Comparable(Scanned(build))
    BY ScanIsComparable DEF RecallInv, Scanned
  <2> QED
    BY <2>1, ComparableEntries, IndexedEntries DEF RecallInv
<1> QED
  BY <1>1, ScanIsComparable DEF RecallInv, Scanned

\* However the index was filled and emptied: the bounded insertion of a scan
\* gives what the stable sort it replaced would, ties included, at any length;
\* and where a NaN costs it the order it is still as long as it can be and
\* repeats nothing.
THEOREM ShortlistsAreStableSorts == ReadSideSpec => []ShortlistIsStableTopK
<1>1. RecallInv => ShortlistIsStableTopK
  <2> SUFFICES ASSUME RecallInv, NEW build \in Builds, NEW k \in 1 .. MaxFacts
               PROVE  LET scored == Scanned(build)
                          found  == Shortlists(scored, k)
                      IN  /\ Clean(scored) \/ (build = "int8" /\ ~HasNaN(Query)) =>
                                 found = {Truncated(ByCosine(scored), k)}
                          /\ \A best \in found :
                                 /\ Len(best) = AtMost(Len(scored), k)
                                 /\ ToSet(best) \subseteq ToSet(scored)
                                 /\ IsInjective(best)
    BY DEF ShortlistIsStableTopK
  <2> DEFINE scored == Scanned(build)
  <2>1. /\ Comparable(scored) /\ k \in Nat
        /\ build = "int8" /\ ~HasNaN(Query) => Numbers(scored)
    BY ScannedNow, RecallAssumption
  <2> HIDE DEF scored
  <2>2. Clean(scored) \/ (build = "int8" /\ ~HasNaN(Query)) =>
            Shortlists(scored, k) = {Truncated(ByCosine(scored), k)}
    BY <2>1, CleanIsNumbers, ShortlistIsTopK
  <2>3. \A best \in Shortlists(scored, k) :
            /\ Len(best) = AtMost(Len(scored), k)
            /\ ToSet(best) \subseteq ToSet(scored)
            /\ IsInjective(best)
    BY <2>1, ShortlistIsSound
  <2> QED
    BY <2>2, <2>3 DEF scored
<1> QED
  BY <1>1, RecallInvariance, PTL

\* While the index fits the window, a search gives exactly what ranking every
\* vector would: by weighted score, then by cosine, then oldest first.
THEOREM UncrowdedIsExact == ReadSideSpec => []ExactWhenUncrowded
<1>1. RecallInv => ExactWhenUncrowded
  <2> SUFFICES ASSUME RecallInv, NEW build \in Builds, NEW k \in TopKs, Uncrowded(k),
                      NEW answer \in AnswersOf(build, k)
               PROVE  LET scored == Scanned(build)
                          due    == FullAnswer(scored, k)
                      IN  /\ Ranks(answer) = Ranks(due)
                          /\ Clean(scored) => answer = due
    BY DEF ExactWhenUncrowded
  <2> DEFINE scored == Scanned(build)
  <2>1. k \in Nat /\ OverFetch(k) \in Nat
    BY RecallAssumption DEF OverFetch
  <2>2. Comparable(scored) /\ Sourced(sources) /\ Len(scored) <= OverFetch(k)
    BY <2>1, ScannedNow DEF RecallInv, Uncrowded
  <2>3. answer \in Answers(scored, sources, k)
    BY DEF AnswersOf
  <2> HIDE DEF scored
  <2>4. /\ Ranks(answer) = Ranks(FullAnswer(scored, k))
        /\ Clean(scored) => answer = FullAnswer(scored, k)
    BY <2>1, <2>2, <2>3, AnswerIsFull
  <2> QED
    BY <2>4 DEF scored
<1> QED
  BY <1>1, RecallInvariance, PTL

\* Beyond the window a match is missing only behind top_k answers that rank as
\* high, or a window full of vectors as close, or where a NaN is stored.
THEOREM OnlyCrowdingHides == ReadSideSpec => []MissedOnlyIfCrowded
<1>1. RecallInv => MissedOnlyIfCrowded
  <2> SUFFICES ASSUME RecallInv, NEW build \in Builds, NEW k \in TopKs,
                      NEW answer \in AnswersOf(build, k), NEW e \in ToSet(Scanned(build)),
                      IsEligible(e), e \notin ToSet(answer)
               PROVE  \/ /\ Len(answer) = k
                         /\ \A a \in ToSet(answer) : RankOf(a) >= RankOf(e)
                      \/ Cardinality({o \in ToSet(Scanned(build)) \ {e} : Geq(o.score, e.score)})
                             >= OverFetch(k)
                      \/ ~Clean(Scanned(build)) /\ ~Uncrowded(k)
    BY DEF MissedOnlyIfCrowded
  <2> DEFINE scored == Scanned(build)
  <2>1. k \in Nat /\ OverFetch(k) \in Nat
    BY RecallAssumption DEF OverFetch
  <2>2. /\ Comparable(scored) /\ Sourced(sources) /\ Len(scored) <= Len(vectors)
        /\ Len(scored) \in Nat /\ Len(vectors) \in Nat
    BY ScannedNow DEF RecallInv
  <2>3. answer \in Answers(scored, sources, k)
    BY DEF AnswersOf
  <2> HIDE DEF scored
  <2>4. \/ /\ Len(answer) = k
           /\ \A a \in ToSet(answer) : RankOf(a) >= RankOf(e)
        \/ Cardinality({o \in ToSet(scored) \ {e} : Geq(o.score, e.score)}) >= OverFetch(k)
        \/ ~Clean(scored) /\ Len(scored) > OverFetch(k)
    <3>1. e \in ToSet(scored)
      BY DEF scored
    <3> QED
      BY <2>1, <2>2, <2>3, <3>1, MissedIsCrowded
  <2>5. Len(scored) > OverFetch(k) => ~Uncrowded(k)
    BY <2>1, <2>2 DEF Uncrowded
  <2>6. \/ /\ Len(answer) = k
           /\ \A a \in ToSet(answer) : RankOf(a) >= RankOf(e)
        \/ Cardinality({o \in ToSet(scored) \ {e} : Geq(o.score, e.score)}) >= OverFetch(k)
        \/ ~Clean(scored) /\ ~Uncrowded(k)
    BY <2>4, <2>5
  <2> QED
    BY <2>6 DEF scored
<1> QED
  BY <1>1, RecallInvariance, PTL

-----------------------------------------------------------------------------
(* What quantising costs an answer. *)

\* What quantising may cost a score is a number that covers it.
LEMMA SlackCovers ==
    \E K \in Nat : QuantisationSlack = 2 * K /\ Covers(K, Len(Query))
<1> DEFINE n == Len(Query)
           T == {s \in 0 .. n : 16129 * s * s >= 2500 * n}
           K == Min(T)
<1>1. n \in Nat
  BY RecallAssumption
<1>2. QuantisationSlack = 2 * K
  BY DEF QuantisationSlack
<1> HIDE DEF n
<1>3. T \in SUBSET Nat /\ T # {}
  <2>1. n * n >= n
    <3>1. CASE n = 0
      BY <3>1
    <3>2. CASE n > 0
      <4>1. 1 * n <= n * n
        BY <1>1, <3>2, ProductsGrow
      <4> QED
        BY <1>1, <4>1
    <3> QED
      BY <1>1, <3>1, <3>2
  <2>2. 16129 * n * n >= 2500 * n
    <3> DEFINE nn == n * n
    <3>1. 16129 * n * n = 16129 * nn /\ nn \in Nat
      BY <1>1
    <3> HIDE DEF nn
    <3>2. nn >= n
      BY <2>1 DEF nn
    <3> QED
      BY <1>1, <3>1, <3>2
  <2>3. n \in T
    BY <1>1, <2>2
  <2>4. T \subseteq 0 .. n
    OBVIOUS
  <2> HIDE DEF T
  <2> QED
    BY <1>1, <2>3, <2>4
<1>4. PICK least \in T : \A s \in T : least <= s
  <2> HIDE DEF T
  <2> QED
    BY <1>3, LeastNumber
<1>5. K \in T
  <2> HIDE DEF T
  <2> QED
    BY <1>4 DEF Min
<1> HIDE DEF K
<1>6. K \in Nat /\ 16129 * K * K >= 2500 * n
  BY <1>3, <1>5
<1>7. Covers(K, n)
  <2>1. 16129 * K * K = 16129 * (K * K) /\ K * K \in Int
    BY <1>6
  <2> QED
    BY <1>1, <1>6, <2>1 DEF Covers
<1> QED
  BY <1>2, <1>6, <1>7 DEF n

\* The two scans see the same entries, with scores as near as quantising leaves
\* them; or the int8 one sees none.
LEMMA ScansAgree ==
    ASSUME RecallInv, Clean(Scanned("f32")), NEW K \in Nat, Covers(K, Len(Query))
    PROVE  LET exact == Scanned("f32")
               coded == Scanned("int8")
           IN  /\ Numbers(coded)
               /\ \A i \in 1 .. Len(coded) :
                     /\ i \in 1 .. Len(exact)
                     /\ coded[i].node_id = exact[i].node_id
                     /\ Near(coded[i].score, exact[i].score, K)
               /\ Len(coded) > 0 => Len(coded) = Len(exact)
<1> DEFINE exact == Scanned("f32")
           coded == Scanned("int8")
           n == Len(vectors)
           full(build) == [i \in 1 .. n |-> [node_id |-> vectors[i].node_id,
                                             score |-> Scores[build][vectors[i].vector]]]
<1>1. /\ n \in Nat /\ DOMAIN vectors = 1 .. n
      /\ \A i \in 1 .. n : vectors[i].vector \in Embeddings
  BY IndexedEntries DEF RecallInv
<1>2. Comparable(exact) /\ Comparable(coded)
  <2>1. "f32" \in Builds /\ "int8" \in Builds
    BY DEF Builds
  <2> QED
    BY <2>1, ScannedNow
<1>3. \A v \in Embeddings : v \in Seq(Int) /\ \A build \in Builds : Scores[build][v] = ScoreUnder(build, Query, v)
  BY RecallAssumption DEF Embeddings, Scores
<1>4. exact = full("f32")
  BY <1>1 DEF Scanned, ScannedIn, Scans
<1>5. DOMAIN exact = 1 .. n /\ Len(exact) = n
  <2>1. DOMAIN exact = 1 .. n
    BY <1>4
  <2>2. DOMAIN exact = 1 .. Len(exact) /\ Len(exact) \in Nat
    BY <1>2, ComparableEntries
  <2> HIDE DEF exact
  <2> QED
    BY <1>1, <2>1, <2>2
<1>6. \A i \in 1 .. n : /\ exact[i].node_id = vectors[i].node_id
                        /\ exact[i].score = ScoreUnder("f32", Query, vectors[i].vector)
                        /\ exact[i].score # NaN
  <2>1. \A i \in 1 .. n : exact[i].score # NaN
    BY <1>5 DEF Clean
  <2>2. \A i \in 1 .. n : /\ exact[i].node_id = vectors[i].node_id
                          /\ exact[i].score = Scores["f32"][vectors[i].vector]
    BY <1>4
  <2> QED
    BY <1>1, <1>3, <2>1, <2>2 DEF Builds
<1>7. CASE ~Scans("int8", Query)
  <2>1. coded = << >>
    BY <1>7 DEF Scanned, ScannedIn
  <2>2. Len(coded) = 0 /\ DOMAIN coded = {}
    BY <2>1
  <2> QED
    BY <2>2 DEF Numbers
<1>8. CASE Scans("int8", Query)
  <2>1. coded = full("int8")
    BY <1>1, <1>8 DEF Scanned, ScannedIn
  <2>2. DOMAIN coded = 1 .. n /\ Len(coded) = n
    <3>1. DOMAIN coded = 1 .. n
      BY <2>1
    <3>2. DOMAIN coded = 1 .. Len(coded) /\ Len(coded) \in Nat
      BY <1>2, ComparableEntries
    <3> HIDE DEF coded
    <3> QED
      BY <1>1, <3>1, <3>2
  <2>3. \A i \in 1 .. n : /\ coded[i].node_id = vectors[i].node_id
                          /\ coded[i].score = ScoreUnder("int8", Query, vectors[i].vector)
    <3>1. \A i \in 1 .. n : /\ coded[i].node_id = vectors[i].node_id
                            /\ coded[i].score = Scores["int8"][vectors[i].vector]
      BY <2>1
    <3> QED
      BY <1>1, <1>3, <3>1 DEF Builds
  <2> HIDE DEF exact, coded
  <2>4. ASSUME NEW i \in 1 .. n
        PROVE  coded[i].score # NaN /\ Near(coded[i].score, exact[i].score, K)
    <3> DEFINE v == vectors[i].vector
    <3>1. v \in Seq(Int) /\ Query \in Seq(Int) /\ ScoreUnder("f32", Query, v) # NaN
      BY <1>1, <1>3, <1>6, RecallAssumption
    <3> HIDE DEF v
    <3>2. /\ ScoreUnder("int8", Query, v) # NaN
          /\ Near(ScoreUnder("int8", Query, v), ScoreUnder("f32", Query, v), K)
      BY <3>1, QuantisedIsNear
    <3> QED
      BY <1>6, <2>3, <3>2 DEF v
  <2>5. \A i \in 1 .. n : coded[i].score \in Int
    BY <1>2, <2>2, ComparableEntries
  <2>6. Numbers(coded)
    BY <2>2, <2>4, <2>5 DEF Numbers
  <2> QED
    BY <1>5, <1>6, <2>2, <2>3, <2>4, <2>6 DEF exact, coded
<1> QED
  BY <1>7, <1>8

\* What a shortlist leaves out scores no higher than what it has.
LEMMA ShortlistHasTheBest ==
    ASSUME NEW scored, Comparable(scored), Numbers(scored), NEW k \in Nat,
           NEW a \in ToSet(Search(scored, k)), NEW i \in 1 .. Len(scored),
           \A x \in ToSet(Search(scored, k)) : x.node_id # scored[i].node_id
    PROVE  \E j \in 1 .. Len(scored) : a = scored[j] /\ scored[j].score >= scored[i].score
<1> DEFINE N == Len(scored)
           D == 1 .. N
           keys == Scored(scored)
           R == KeyOrder(keys, D)
           m == AtMost(N, k)
           best == Search(scored, k)
<1>1. N \in Nat /\ DOMAIN scored = D /\ scored \in Seq([node_id : Nat, score : Int])
  BY ComparableEntries DEF Comparable
<1>2. best \in Shortlists(scored, k)
  <2>1. Shortlists(scored, k) # {}
    BY <1>1, ScanEnds
  <2> QED
    BY <2>1 DEF Search
<1> HIDE DEF best
<1>3. PICK t : ShortlistOf(best, t, scored, N, k)
  BY <1>1, <1>2, ScanEnds
<1>4. Leads(t, m, D, R) /\ best = [r \in 1 .. m |-> scored[t[r]]]
  BY <1>3 DEF ShortlistOf
<1>5. DOMAIN best = 1 .. m /\ \A r \in 1 .. m : t[r] \in D /\ best[r] = scored[t[r]]
  BY <1>4 DEF Leads
<1>6. ToSet(best) = {scored[t[r]] : r \in 1 .. m}
  BY <1>5 DEF ToSet
<1>7. PICK r \in 1 .. m : a = scored[t[r]]
  BY <1>6 DEF best
<1>8. \A q \in 1 .. m : t[q] # i
  BY <1>6 DEF best
<1>9. <<t[r], i>> \in R
  BY <1>4, <1>8 DEF Leads
<1>10. \A x \in D : keys[x] = scored[x].score /\ keys[x] \in Int
  BY <1>1, ComparableEntries DEF Scored
<1> HIDE DEF keys
<1>11. keys[t[r]] >= keys[i]
  BY <1>5, <1>9, <1>10 DEF KeyOrder
<1> QED
  BY <1>5, <1>7, <1>10, <1>11

\* The int8 index loses only near ties: where it misses one of the exact top k,
\* what it has instead is closer to the query but for the rounding of a code, on
\* both sides of the comparison (vector_index.rs, Int8VectorIndex).
THEOREM Int8LosesNearTiesOnly == ReadSideSpec => []Int8MissesOnlyNearTies
<1>1. RecallInv => Int8MissesOnlyNearTies
  <2> DEFINE exact == Scanned("f32")
             coded == Scanned("int8")
             cosine(e) == (CHOOSE x \in ToSet(exact) : x.node_id = e.node_id).score
  <2> SUFFICES ASSUME RecallInv, NEW k \in 1 .. MaxFacts, Clean(exact),
                      NEW e \in ToSet(Search(exact, k)), NEW a \in ToSet(Search(coded, k)),
                      \A x \in ToSet(Search(coded, k)) : x.node_id # e.node_id
               PROVE  cosine(a) >= e.score - QuantisationSlack
    BY DEF Int8MissesOnlyNearTies
  <2>1. PICK K \in Nat : QuantisationSlack = 2 * K /\ Covers(K, Len(Query))
    BY SlackCovers
  <2>2. Comparable(exact) /\ Comparable(coded) /\ k \in Nat
    <3>1. "f32" \in Builds /\ "int8" \in Builds
      BY DEF Builds
    <3> QED
      BY <3>1, ScannedNow, RecallAssumption
  <2>3. /\ Numbers(coded)
        /\ \A i \in 1 .. Len(coded) :
              /\ i \in 1 .. Len(exact)
              /\ coded[i].node_id = exact[i].node_id
              /\ Near(coded[i].score, exact[i].score, K)
        /\ Len(coded) > 0 => Len(coded) = Len(exact)
    BY <2>1, ScansAgree
  <2> HIDE DEF exact, coded
  <2>4. ToSet(Search(exact, k)) \subseteq ToSet(exact) /\ ToSet(Search(coded, k)) \subseteq ToSet(coded)
    <3>1. ASSUME NEW scored, Comparable(scored)
          PROVE  ToSet(Search(scored, k)) \subseteq ToSet(scored)
      <4>1. scored \in Seq([node_id : Nat, score : Int])
        BY <3>1 DEF Comparable
      <4>2. Search(scored, k) \in Shortlists(scored, k)
        BY <2>2, <4>1, ScanEnds DEF Search
      <4> QED
        BY <2>2, <3>1, <4>2, ShortlistIsSound
    <3> QED
      BY <2>2, <3>1
  <2>5. PICK i \in 1 .. Len(exact) : e = exact[i]
    BY <2>2, <2>4, ComparableEntries
  <2>6. Len(coded) = Len(exact)
    <3>1. PICK j \in 1 .. Len(coded) : a = coded[j]
      BY <2>2, <2>4, ComparableEntries
    <3>2. Len(coded) \in Nat
      BY <2>2, ComparableEntries
    <3> QED
      BY <2>3, <3>1, <3>2
  <2>7. i \in 1 .. Len(coded) /\ \A x \in ToSet(Search(coded, k)) : x.node_id # coded[i].node_id
    BY <2>3, <2>5, <2>6
  <2>8. PICK j \in 1 .. Len(coded) : a = coded[j] /\ coded[j].score >= coded[i].score
    BY <2>2, <2>3, <2>7, ShortlistHasTheBest
  <2>9. cosine(a) = exact[j].score
    <3>1. exact[j] \in ToSet(exact) /\ exact[j].node_id = a.node_id
      BY <2>2, <2>3, <2>8, ComparableEntries
    <3>2. ASSUME NEW x \in ToSet(exact), x.node_id = a.node_id
          PROVE  x = exact[j]
      <4>1. PICK r \in 1 .. Len(exact) : x = exact[r]
        BY <2>2, ComparableEntries
      <4>2. r = j
        BY <2>2, <2>3, <2>8, <3>1, <3>2, <4>1 DEF Comparable
      <4> QED
        BY <4>1, <4>2
    <3>3. (CHOOSE x \in ToSet(exact) : x.node_id = a.node_id) = exact[j]
      BY <3>1, <3>2
    <3> QED
      BY <3>3
  <2> HIDE DEF cosine
  <2>10. /\ Near(coded[i].score, exact[i].score, K) /\ Near(coded[j].score, exact[j].score, K)
         /\ coded[i].score \in Int /\ exact[i].score \in Int
         /\ coded[j].score \in Int /\ exact[j].score \in Int
    BY <2>2, <2>3, <2>7, <2>8, ComparableEntries
  <2>11. exact[j].score >= exact[i].score - 2 * K
    <3> DEFINE c1 == coded[i].score
               c2 == coded[j].score
               e1 == exact[i].score
               e2 == exact[j].score
    <3>1. /\ c1 \in Int /\ c2 \in Int /\ e1 \in Int /\ e2 \in Int
          /\ e1 <= c1 + K /\ c2 <= e2 + K /\ c2 >= c1
      BY <2>8, <2>10 DEF Near
    <3> HIDE DEF c1, c2, e1, e2
    <3>2. e2 >= e1 - 2 * K
      BY <3>1
    <3> QED
      BY <3>2 DEF e1, e2
  <2> QED
    BY <2>1, <2>5, <2>9, <2>11
<1> QED
  BY <1>1, RecallInvariance, PTL

-----------------------------------------------------------------------------
(* Forgetting leaves the rest of an answer as it was. *)

HasPlaces(s, n) == s = [r \in 1 .. n |-> s[r]]

LEMMA PrefixByPlaces ==
    ASSUME NEW d \in Nat, NEW m \in Nat, d <= m,
           NEW s, HasPlaces(s, d), NEW u, HasPlaces(u, m),
           \A r \in 1 .. d : s[r] = u[r]
    PROVE  IsPrefix(s, u)
<1> DEFINE E == {u[r] : r \in 1 .. m}
<1>0. s = [r \in 1 .. d |-> s[r]] /\ u = [r \in 1 .. m |-> u[r]]
  BY DEF HasPlaces
<1>1. Len(s) = d /\ Len(u) = m
  BY <1>0
<1>2. u \in [1 .. m -> E]
  BY <1>0, Zenon
<1>3. \A r \in 1 .. d : r \in 1 .. m
  OBVIOUS
<1>4. s \in [1 .. d -> E]
  <2>1. \A r \in 1 .. d : s[r] \in E
    BY <1>3
  <2> HIDE DEF E
  <2> QED
    BY <1>0, <2>1, Zenon
<1> HIDE DEF E
<1>5. s \in Seq(E) /\ u \in Seq(E)
  BY <1>2, <1>4, FunctionIsSequence
<1>6. SubSeq(s, 1, d) = [r \in 1 .. d |-> s[r]]
  BY <1>1, <1>5
<1>7. SubSeq(u, 1, d) = [r \in 1 .. d |-> u[r]]
  BY <1>1, <1>5
<1>8. SubSeq(s, 1, d) = SubSeq(u, 1, d)
  BY <1>6, <1>7, Zenon
<1> QED
  BY <1>1, <1>8 DEF IsPrefix

\* scan is what a scan sees of the entries whose ids stay, in their order.
Sifts(v, n, scan, scored, known) ==
    /\ n \in Nat /\ Len(scan) = n
    /\ v \in [1 .. n -> 1 .. Len(scored)]
    /\ \A q, r \in 1 .. n : q < r => v[q] < v[r]
    /\ \A r \in 1 .. n : scan[r] = scored[v[r]] /\ scan[r].node_id \in DOMAIN known
    /\ \A i \in 1 .. Len(scored) : scored[i].node_id \in DOMAIN known => \E r \in 1 .. n : v[r] = i

LEMMA SurvivorsInPlace ==
    ASSUME NEW scored, Comparable(scored), Numbers(scored), NEW before, Sourced(before),
           NEW scan, Comparable(scan), NEW after, Sourced(after),
           DOMAIN after \subseteq DOMAIN before, \A n \in DOMAIN after : after[n] = before[n],
           NEW v, NEW n, Sifts(v, n, scan, scored, after),
           NEW k \in Nat, Len(scored) <= OverFetch(k), Len(scan) <= Len(scored),
           NEW answer \in Answers(scored, before, k), NEW later \in Answers(scan, after, k)
    PROVE  IsPrefix(RetainIds(answer, DOMAIN after), later)
<1> DEFINE N == Len(scored)
           E == Due(scored, before)
           first == RankIn(scored, before)
           second == Scored(scored)
           F == {i \in E : scored[i].node_id \in DOMAIN after}
           R == BothKeys(first, second, F)
           window == OverFetch(k)
<1>1. window \in Nat /\ N \in Nat /\ DOMAIN scored = 1 .. N /\ N <= window /\ n <= window
      /\ n = Len(scan) /\ DOMAIN scan = 1 .. n /\ n \in Nat
  BY ComparableEntries DEF OverFetch, Sifts
<1>2. PICK best1 \in Shortlists(scored, window) : answer = Ranked(best1, before, k)
  BY DEF Answers
<1>3. PICK best2 \in Shortlists(scan, window) : later = Ranked(best2, after, k)
  BY DEF Answers
<1>4. PICK c, x : /\ Orders(x, c, E, DueOrder(scored, before))
                  /\ Visits(answer, scored, x, AtMost(c, k))
  BY <1>1, <1>2, AnswerOrdered
<1>5. Numbers(scan)
  BY <1>1 DEF Numbers, Sifts
<1>6. PICK b, y : /\ Orders(y, b, Due(scan, after), DueOrder(scan, after))
                  /\ Visits(later, scan, y, AtMost(b, k))
  BY <1>1, <1>3, <1>5, AnswerOrdered
<1>7. \A i \in E : i \in 1 .. N /\ first[i] \in Int /\ second[i] \in Int
                   /\ first[i] = Score(scored[i], before) /\ second[i] = scored[i].score
  BY DueIsOrdered
<1>8. \A j \in Due(scan, after) : /\ j \in 1 .. n
                                  /\ RankIn(scan, after)[j] = Score(scan[j], after)
                                  /\ Scored(scan)[j] = scan[j].score
  BY <1>1, DueIsOrdered
<1>9. \A e : e.node_id \in DOMAIN after =>
          /\ Score(e, after) = Score(e, before)
          /\ Eligible(e, after) <=> Eligible(e, before)
  BY DEF Score, Weight, Eligible
<1>10. \A i \in 1 .. N : i \in E <=> Eligible(scored[i], before)
  BY <1>1 DEF Due
<1>11. \A j \in 1 .. n : j \in Due(scan, after) <=> Eligible(scan[j], after)
  BY <1>1 DEF Due
<1>12. /\ v \in [1 .. n -> 1 .. N]
       /\ \A q, r \in 1 .. n : q < r => v[q] < v[r]
       /\ \A r \in 1 .. n : scan[r] = scored[v[r]] /\ scan[r].node_id \in DOMAIN after
       /\ \A i \in 1 .. N : scored[i].node_id \in DOMAIN after => \E r \in 1 .. n : v[r] = i
  BY DEF Sifts
<1>13. \A j \in 1 .. n : j \in Due(scan, after) <=> v[j] \in F
  BY <1>9, <1>10, <1>11, <1>12
<1>14. IsFiniteSet(F) /\ \A i \in F : i \in Int /\ first[i] \in Int /\ second[i] \in Int
  <2>1. IsFiniteSet(E) /\ F \subseteq E
    BY DueIsOrdered
  <2>2. IsFiniteSet(F)
    BY <2>1, FS_Subset
  <2> QED
    BY <1>1, <1>7, <2>1, <2>2
<1>15. F \subseteq E /\ \A i \in E : i \in F <=> scored[i].node_id \in DOMAIN after
  OBVIOUS
<1> HIDE DEF E, F, N, first, second, R, window
<1>16. IsOrder(R, F)
  BY <1>14, BothKeysOrder DEF R
\* The later answer, in terms of the earlier scan.
<1> DEFINE z == [r \in 1 .. b |-> v[y[r]]]
<1>17. /\ b \in Nat /\ y \in [1 .. b -> Due(scan, after)]
       /\ \A q, r \in 1 .. b : q < r => <<y[q], y[r]>> \in DueOrder(scan, after)
       /\ \A j \in Due(scan, after) : \E r \in 1 .. b : y[r] = j
  BY <1>6 DEF Orders
<1>18. \A r \in 1 .. b : /\ y[r] \in 1 .. n /\ y[r] \in Due(scan, after)
                         /\ z[r] = v[y[r]] /\ z[r] \in F /\ scan[y[r]] = scored[z[r]]
  BY <1>8, <1>12, <1>13, <1>17
<1>19. z \in [1 .. b -> F]
  BY <1>18
<1> HIDE DEF z
<1>20. ASSUME NEW q \in 1 .. b, NEW r \in 1 .. b, q < r
       PROVE  <<z[q], z[r]>> \in R
  <2> DEFINE first2 == RankIn(scan, after)
             second2 == Scored(scan)
  <2>1. \/ first2[y[q]] > first2[y[r]]
        \/ /\ first2[y[q]] = first2[y[r]]
           /\ \/ second2[y[q]] > second2[y[r]]
              \/ second2[y[q]] = second2[y[r]] /\ y[q] < y[r]
    BY <1>17, <1>20 DEF DueOrder, BothKeys
  <2>2. ASSUME NEW s \in 1 .. b
        PROVE  first2[y[s]] = first[z[s]] /\ second2[y[s]] = second[z[s]]
    <3>1. first2[y[s]] = Score(scan[y[s]], after) /\ second2[y[s]] = scan[y[s]].score
      BY <1>8, <1>18
    <3>2. Score(scan[y[s]], after) = Score(scan[y[s]], before)
      BY <1>9, <1>12, <1>18
    <3>3. z[s] \in E
      BY <1>15, <1>18
    <3> QED
      BY <1>7, <1>18, <3>1, <3>2, <3>3
  <2>3. y[q] < y[r] => z[q] < z[r]
    BY <1>12, <1>18
  <2> HIDE DEF first2, second2
  <2> QED
    BY <1>18, <2>1, <2>2, <2>3 DEF R, BothKeys
<1>21. \A e \in F : \E r \in 1 .. b : z[r] = e
  <2> SUFFICES ASSUME NEW e \in F
               PROVE  \E r \in 1 .. b : z[r] = e
    OBVIOUS
  <2>1. e \in 1 .. N /\ scored[e].node_id \in DOMAIN after
    BY <1>7, <1>15
  <2>2. PICK j \in 1 .. n : v[j] = e
    BY <1>12, <2>1
  <2>3. PICK r \in 1 .. b : y[r] = j
    BY <1>13, <1>17, <2>2
  <2> QED
    BY <1>18, <2>2, <2>3
<1>22. Lists(z, F, R) /\ b = Cardinality(F)
  <2>1. Orders(z, b, F, R)
    BY <1>17, <1>19, <1>20, <1>21 DEF Orders
  <2> QED
    BY <1>14, <1>16, <2>1, OrdersLists
<1>23. later = [r \in 1 .. AtMost(b, k) |-> scored[z[r]]]
  <2>1. later = [r \in 1 .. AtMost(b, k) |-> scan[y[r]]]
    BY <1>6 DEF Visits
  <2>2. \A r \in 1 .. AtMost(b, k) : r \in 1 .. b
    BY <1>17 DEF AtMost
  <2>3. \A r \in 1 .. AtMost(b, k) : scan[y[r]] = scored[z[r]]
    BY <1>18, <2>2
  <2> QED
    BY <2>1, <2>3, Zenon
\* What is kept of the earlier answer.
<1> DEFINE m == AtMost(c, k)
           Q == {r \in 1 .. m : answer[r].node_id \in DOMAIN after}
<1>24. /\ c \in Nat /\ x \in [1 .. c -> E]
       /\ \A q, r \in 1 .. c : q < r => <<x[q], x[r]>> \in BothKeys(first, second, E)
       /\ \A e \in E : \E r \in 1 .. c : x[r] = e
  BY <1>4 DEF Orders, DueOrder, E, first, second
<1>25. m \in Nat /\ m <= c /\ m <= k /\ (m = c \/ m = k)
  BY <1>24 DEF AtMost
<1>26. answer = [r \in 1 .. m |-> scored[x[r]]]
  BY <1>4 DEF Visits
<1> HIDE DEF m
<1>27. \A r \in 1 .. m : r \in 1 .. c /\ x[r] \in E /\ answer[r] = scored[x[r]]
  BY <1>24, <1>25, <1>26
<1>28. PICK d, p : Orders(p, d, Q, Less(Q)) /\ Visits(RetainIds(answer, DOMAIN after), answer, p, d)
  <2>1. DOMAIN answer = 1 .. m
    BY <1>26
  <2> QED
    BY <1>25, <2>1, RetainedRuns
<1>29. \A r \in Q : r \in 1 .. m /\ x[r] \in F
  BY <1>15, <1>27
<1>30. \A r \in 1 .. m : x[r] \in F => r \in Q
  BY <1>15, <1>27
<1> HIDE DEF Q
<1>31. /\ d \in Nat /\ p \in [1 .. d -> Q]
       /\ \A q, r \in 1 .. d : q < r => p[q] < p[r]
       /\ \A e \in Q : \E r \in 1 .. d : p[r] = e
  BY <1>28 DEF Orders, Less
<1> DEFINE w == [r \in 1 .. d |-> x[p[r]]]
<1>32. \A r \in 1 .. d : p[r] \in 1 .. m /\ p[r] \in 1 .. c /\ w[r] = x[p[r]] /\ w[r] \in F
  BY <1>27, <1>29, <1>31
<1>33. w \in [1 .. d -> F]
  BY <1>32
<1> HIDE DEF w
<1>34. RetainIds(answer, DOMAIN after) = [r \in 1 .. d |-> scored[w[r]]]
  <2>1. RetainIds(answer, DOMAIN after) = [r \in 1 .. d |-> answer[p[r]]]
    BY <1>28 DEF Visits
  <2>2. \A r \in 1 .. d : answer[p[r]] = scored[w[r]]
    BY <1>27, <1>32
  <2> QED
    BY <2>1, <2>2, Zenon
<1>35. \A i, j \in F : <<i, j>> \in BothKeys(first, second, E) => <<i, j>> \in R
  BY <1>15 DEF R, BothKeys
<1>36. \A q, r \in 1 .. d : q < r => <<w[q], w[r]>> \in R
  BY <1>24, <1>31, <1>32, <1>35
<1>37. ASSUME NEW e \in F, \A r \in 1 .. d : w[r] # e, NEW r \in 1 .. d
       PROVE  <<w[r], e>> \in R
  <2>1. PICK s \in 1 .. c : x[s] = e
    BY <1>15, <1>24
  <2>2. s \notin Q
    BY <1>31, <1>32, <1>37, <2>1
  <2>3. s \notin 1 .. m
    BY <1>30, <1>37, <2>1, <2>2
  <2>4. p[r] < s
    BY <1>25, <1>24, <1>32, <2>1, <2>3
  <2> QED
    BY <1>24, <1>32, <1>35, <1>37, <2>1, <2>4
<1>38. Leads(w, d, F, R)
  BY <1>33, <1>36, <1>37 DEF Leads
<1>39. d <= b /\ \A r \in 1 .. d : w[r] = z[r]
  BY <1>14, <1>16, <1>22, <1>31, <1>38, LeadersFirst
<1>40. d <= m
  <2>1. p \in Injection(1 .. d, 1 .. m)
    <3>1. p \in [1 .. d -> 1 .. m]
      BY <1>29, <1>31
    <3>2. \A q, r \in 1 .. d : p[q] = p[r] => q = r
      <4> SUFFICES ASSUME NEW q \in 1 .. d, NEW r \in 1 .. d, p[q] = p[r]
                   PROVE  q = r
        OBVIOUS
      <4>1. p[q] \in Int
        BY <1>25, <1>32
      <4>2. ~(q < r) /\ ~(r < q)
        BY <1>31, <4>1
      <4> QED
        BY <1>31, <4>2
    <3> QED
      BY <3>1, <3>2 DEF Injection, IsInjective
  <2>2. Cardinality(1 .. d) <= Cardinality(1 .. m)
    <3>1. IsFiniteSet(1 .. m)
      BY <1>25, FS_Interval
    <3> QED
      BY <2>1, <3>1, FS_Injection
  <2>3. Cardinality(1 .. d) = d
    BY <1>31, FS_Interval
  <2>4. Cardinality(1 .. m) = m
    BY <1>25, FS_Interval
  <2> QED
    BY <2>2, <2>3, <2>4
<1>41. d <= AtMost(b, k) /\ AtMost(b, k) \in Nat
  BY <1>17, <1>25, <1>31, <1>39, <1>40 DEF AtMost
<1> DEFINE kept == RetainIds(answer, DOMAIN after)
<1>42. HasPlaces(kept, d) /\ HasPlaces(later, AtMost(b, k))
  <2>1. \A r \in 1 .. d : kept[r] = scored[w[r]]
    BY <1>34
  <2>2. \A r \in 1 .. AtMost(b, k) : later[r] = scored[z[r]]
    BY <1>23
  <2> HIDE DEF kept
  <2>3. kept = [r \in 1 .. d |-> scored[w[r]]]
    BY <1>34 DEF kept
  <2> QED
    BY <1>23, <2>1, <2>2, <2>3, Zenon DEF HasPlaces
<1>43. \A r \in 1 .. d : kept[r] = later[r]
  <2> SUFFICES ASSUME NEW r \in 1 .. d
               PROVE  kept[r] = later[r]
    OBVIOUS
  <2>1. kept[r] = scored[w[r]]
    BY <1>34
  <2>2. r \in 1 .. AtMost(b, k)
    BY <1>31, <1>41
  <2>3. later[r] = scored[z[r]]
    BY <1>23, <2>2
  <2> QED
    BY <1>39, <2>1, <2>3
<1> HIDE DEF kept
<1>44. IsPrefix(kept, later)
  BY <1>31, <1>41, <1>42, <1>43, PrefixByPlaces
<1> QED
  BY <1>44 DEF kept

\* A scan after forgetting sees what the scan before saw of the survivors.
LEMMA ForgetSifts ==
    ASSUME RecallInv, NEW gone, Forget(gone), NEW build \in Builds
    PROVE  \E v, n : /\ Sifts(v, n, ScannedIn(vectors', build), Scanned(build), sources')
                     /\ n <= Len(Scanned(build))
<1> DEFINE N == Len(vectors)
           D == DOMAIN sources'
           kept == {i \in 1 .. N : vectors[i].node_id \in D}
           scored == Scanned(build)
           scan == ScannedIn(vectors', build)
           seen(entries, i) == [node_id |-> entries[i].node_id,
                                score   |-> Scores[build][entries[i].vector]]
<1>1. N \in Nat /\ DOMAIN vectors = 1 .. N
  BY IndexedEntries DEF RecallInv
<1>2. CASE ~Scans(build, Query)
  <2>1. scored = << >> /\ scan = << >>
    BY <1>2 DEF Scanned, ScannedIn
  <2> DEFINE v == [r \in 1 .. 0 |-> r]
  <2>2. Len(scored) = 0 /\ Len(scan) = 0 /\ 1 .. 0 = {}
    BY <2>1
  <2> HIDE DEF scored, scan
  <2>3. Sifts(v, 0, scan, scored, sources')
    BY <2>2 DEF Sifts
  <2> QED
    BY <2>2, <2>3 DEF scored, scan
<1>3. CASE Scans(build, Query)
  <2>1. PICK n, v : Orders(v, n, kept, Less(kept)) /\ Visits(vectors', vectors, v, n)
    <3>1. vectors' = RetainIds(vectors, D)
      BY DEF Forget
    <3> HIDE DEF D
    <3>2. \E n, v : Orders(v, n, kept, Less(kept)) /\ Visits(RetainIds(vectors, D), vectors, v, n)
      BY <1>1, RetainedRuns
    <3> QED
      BY <3>1, <3>2
  <2>2. /\ n \in Nat /\ v \in [1 .. n -> kept]
        /\ \A q, r \in 1 .. n : q < r => v[q] < v[r]
        /\ \A i \in kept : \E r \in 1 .. n : v[r] = i
    BY <2>1 DEF Orders, Less
  <2>3. vectors' = [r \in 1 .. n |-> vectors[v[r]]]
    BY <2>1 DEF Visits
  <2>4. kept \subseteq 1 .. N /\ \A i \in 1 .. N : i \in kept <=> vectors[i].node_id \in D
    OBVIOUS
  <2> HIDE DEF kept, D
  <2>5. scored = [i \in 1 .. N |-> seen(vectors, i)]
    BY <1>1, <1>3 DEF Scanned, ScannedIn
  <2>6. DOMAIN vectors' = 1 .. n
    BY <2>3
  <2>7. scan = [i \in 1 .. n |-> seen(vectors', i)]
    BY <1>3, <2>6 DEF ScannedIn
  <2> HIDE DEF scored, scan
  <2>8. Len(scored) = N /\ Len(scan) = n
    BY <1>1, <2>2, <2>5, <2>7
  <2>9. \A i \in 1 .. N : scored[i] = seen(vectors, i)
    BY <2>5
  <2>10. \A i \in 1 .. N : scored[i].node_id = vectors[i].node_id
    <3>1. \A i : seen(vectors, i).node_id = vectors[i].node_id
      OBVIOUS
    <3> HIDE DEF seen, N
    <3> QED
      BY <2>9, <3>1
  <2>11. ASSUME NEW r \in 1 .. n
         PROVE  /\ v[r] \in 1 .. N /\ v[r] \in kept
                /\ scan[r] = scored[v[r]] /\ scan[r].node_id \in D
    <3>1. v[r] \in 1 .. N /\ v[r] \in kept /\ vectors'[r] = vectors[v[r]]
      BY <2>2, <2>3, <2>4
    <3>2. scan[r] = seen(vectors', r) /\ seen(vectors', r) = seen(vectors, v[r])
      BY <2>7, <3>1
    <3>3. scan[r] = scored[v[r]]
      BY <2>9, <3>1, <3>2
    <3> QED
      BY <2>4, <2>10, <3>1, <3>3
  <2>12. v \in [1 .. n -> 1 .. N]
    BY <2>2, <2>4
  <2>13. Sifts(v, n, scan, scored, sources')
    BY <2>2, <2>4, <2>8, <2>10, <2>11, <2>12 DEF Sifts, D
  <2>14. n <= N
    <3>1. \A q, r \in 1 .. n : v[q] = v[r] => q = r
      <4> SUFFICES ASSUME NEW q \in 1 .. n, NEW r \in 1 .. n, v[q] = v[r]
                   PROVE  q = r
        OBVIOUS
      <4>1. v[q] \in Int
        BY <1>1, <2>11
      <4>2. ~(q < r) /\ ~(r < q)
        BY <2>2, <4>1
      <4> QED
        BY <2>2, <4>2
    <3>2. v \in Injection(1 .. n, 1 .. N)
      BY <2>12, <3>1 DEF Injection, IsInjective
    <3>3. IsFiniteSet(1 .. N)
      BY <1>1, FS_Interval
    <3>4. Cardinality(1 .. n) <= Cardinality(1 .. N)
      BY <3>2, <3>3, FS_Injection
    <3>5. Cardinality(1 .. n) = n
      BY <2>2, FS_Interval
    <3>6. Cardinality(1 .. N) = N
      <4> HIDE DEF N
      <4> QED
        BY <1>1, FS_Interval
    <3> QED
      BY <3>4, <3>5, <3>6
  <2> QED
    BY <2>8, <2>13, <2>14 DEF scored, scan
<1> QED
  BY <1>2, <1>3

LEMMA ForgetKeepsAnswers ==
    ASSUME RecallInv, RecallInv', NEW gone, Forget(gone)
    PROVE  SurvivorsStayAnswered
<1> SUFFICES ASSUME NEW build \in Builds, NEW k \in TopKs,
                    Uncrowded(k), Clean(Scanned(build)),
                    NEW answer \in AnswersOf(build, k),
                    NEW later \in Answers(ScannedIn(vectors', build), sources', k)
             PROVE  IsPrefix(RetainIds(answer, DOMAIN sources'), later)
  BY DEF SurvivorsStayAnswered
<1> DEFINE scored == Scanned(build)
           scan == ScannedIn(vectors', build)
<1>1. k \in Nat /\ OverFetch(k) \in Nat
  BY RecallAssumption DEF OverFetch
<1>2. /\ Comparable(scored) /\ Len(scored) <= Len(vectors)
      /\ Len(scored) \in Nat /\ Len(vectors) \in Nat
  BY ScannedNow
<1>3. Comparable(scan)
  BY ScanIsComparable DEF RecallInv
<1>4. Numbers(scored)
  BY <1>2, CleanIsNumbers
<1>5. Len(scored) <= OverFetch(k)
  BY <1>1, <1>2 DEF Uncrowded
<1>6. PICK v, n : Sifts(v, n, scan, scored, sources') /\ n <= Len(scored)
  BY ForgetSifts
<1>7. Len(scan) <= Len(scored)
  BY <1>6 DEF Sifts
<1>8. /\ Sourced(sources) /\ Sourced(sources')
      /\ DOMAIN sources' \subseteq DOMAIN sources
      /\ \A i \in DOMAIN sources' : sources'[i] = sources[i]
  BY DEF RecallInv, Forget
<1>9. answer \in Answers(scored, sources, k)
  BY DEF AnswersOf
<1> HIDE DEF scored, scan
<1>10. later \in Answers(scan, sources', k)
  BY DEF scan
<1> QED
  BY <1>1, <1>2, <1>3, <1>4, <1>5, <1>6, <1>7, <1>8, <1>9, <1>10, SurvivorsInPlace

\* As long as the window held the whole index, forgetting some facts never
\* hides a surviving answer nor swaps two: what is left of an answer is what
\* the next one begins with.
THEOREM SurvivorsAreNotHidden == ReadSideSpec => ForgettingHidesNothingElse
<1>1. RecallInv /\ RecallInv' /\ [ReadSideNext]_readSideVars => [SurvivorsStayAnswered]_vars
  <2> SUFFICES ASSUME RecallInv, RecallInv', [ReadSideNext]_readSideVars, vars' # vars
               PROVE  SurvivorsStayAnswered
    OBVIOUS
  <2>1. Next
    BY DEF ReadSideNext, readSideVars, vars
  <2>2. CASE \E fact \in Facts : AddNode(fact)
    <3>1. stored' # stored
      BY <2>2 DEF AddNode, RecallInv
    <3> QED
      BY <3>1 DEF SurvivorsStayAnswered
  <2>3. CASE \E gone \in SUBSET DOMAIN sources : Forget(gone)
    BY <2>3, ForgetKeepsAnswers
  <2> QED
    BY <2>1, <2>2, <2>3 DEF Next
<1> QED
  BY <1>1, RecallInvariance, PTL DEF ReadSideSpec, ForgettingHidesNothingElse
=============================================================================
