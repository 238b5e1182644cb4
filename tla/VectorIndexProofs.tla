-------------------------- MODULE VectorIndexProofs --------------------------
(***************************************************************************)
(* What the operators of VectorIndex compute, for every input: what is     *)
(* picked or sorted out of a sequence, and what a scan ends with.          *)
(*                                                                         *)
(* To the provers a recursive function is a CHOOSE, so that its equation   *)
(* has to be shown to have a solution; and induction is the least number   *)
(* principle, for an induction rule would take an operator.                *)
(***************************************************************************)
EXTENDS VectorIndex, FiniteSetTheorems, SequenceTheorems, WellFoundedInduction, TLAPS

-----------------------------------------------------------------------------
(* Induction and recursion over the numbers up to N. *)

LEMMA LeastNumber ==
    ASSUME NEW T \in SUBSET Nat, T # {}
    PROVE  \E n \in T : \A m \in T : n <= m
<1>1. IsWellFoundedOn(OpToRel(<, Nat), Nat)
  BY NatLessThanWellFounded
<1>2. \E x \in T : \A y \in T : ~(<<y, x>> \in OpToRel(<, Nat))
  BY <1>1, WFMin
<1>3. ASSUME NEW x \in T, NEW y \in T, ~(<<y, x>> \in OpToRel(<, Nat))
      PROVE  x <= y
  <2>1. ~(y < x)
    <3>1. SUFFICES ASSUME y < x
                   PROVE  <<y, x>> \in OpToRel(<, Nat)
      BY <1>3
    <3> QED
      BY <3>1 DEF OpToRel
  <2> QED
    BY <2>1
<1> QED
  BY <1>2, <1>3

\* Of a nonempty set of numbers with a bound one is the greatest.
LEMMA GreatestNumber ==
    ASSUME NEW T \in SUBSET Nat, T # {}, NEW bound \in Nat, \A n \in T : n <= bound
    PROVE  \E n \in T : \A m \in T : m <= n
<1> DEFINE Short == {bound - n : n \in T}
<1>1. Short \in SUBSET Nat /\ Short # {}
  <2>1. \A n \in T : bound - n \in Nat
    OBVIOUS
  <2> QED
    BY <2>1
<1>2. PICK d \in Short : \A e \in Short : d <= e
  <2> HIDE DEF Short
  <2> QED
    BY <1>1, LeastNumber
<1>3. PICK n \in T : d = bound - n
  BY <1>2
<1>4. ASSUME NEW m \in T
      PROVE  m <= n
  <2>1. d <= bound - m
    BY <1>2
  <2> QED
    BY <1>3, <2>1
<1> QED
  BY <1>4

Iterates(f, N, base, step) ==
    f[0] = base /\ \A i \in 1 .. N : f[i] = step[<<f[i - 1], i>>]

\* A function that is told what it is at 0 and how it goes from i - 1 to i
\* exists.
LEMMA Iteration ==
    ASSUME NEW N \in Nat, NEW S, NEW base \in S, NEW step \in [S \X (1 .. N) -> S]
    PROVE  \E f \in [0 .. N -> S] : Iterates(f, N, base, step)
<1> DEFINE Upto(n) == \E f \in [0 .. n -> S] :
              f = [i \in 0 .. n |-> IF i = 0 THEN base ELSE step[<<f[i - 1], i>>]]
<1> DEFINE T == {n \in 0 .. N : ~Upto(n)}
<1>1. Upto(0)
  <2>1. [i \in 0 .. 0 |-> base] \in [0 .. 0 -> S]
    OBVIOUS
  <2>2. [i \in 0 .. 0 |-> base] = [i \in 0 .. 0 |-> IF i = 0 THEN base ELSE step[<<[k \in 0 .. 0 |-> base][i - 1], i>>]]
    OBVIOUS
  <2> QED
    BY <2>1, <2>2
<1>2. ASSUME NEW n \in 1 .. N, Upto(n - 1)
      PROVE  Upto(n)
  <2>1. PICK f \in [0 .. n - 1 -> S] : 
           f = [i \in 0 .. n - 1 |-> IF i = 0 THEN base ELSE step[<<f[i - 1], i>>]]
    BY <1>2
  <2> DEFINE g == [i \in 0 .. n |-> IF i = n THEN step[<<f[n - 1], n>>] ELSE f[i]]
  <2>2. n - 1 \in 0 .. n - 1 /\ <<f[n - 1], n>> \in S \X (1 .. N)
    OBVIOUS
  <2>3. g \in [0 .. n -> S]
    BY <2>2
  <2>4. ASSUME NEW i \in 0 .. n
        PROVE  g[i] = IF i = 0 THEN base ELSE step[<<g[i - 1], i>>]
    <3>1. CASE i = n
      <4>1. g[n] = step[<<f[n - 1], n>>] /\ g[n - 1] = f[n - 1]
        BY <2>2
      <4> QED
        BY <3>1, <4>1
    <3>2. CASE i # n
      <4>1. i \in 0 .. n - 1 /\ g[i] = f[i]
        BY <3>2
      <4>2. f[i] = IF i = 0 THEN base ELSE step[<<f[i - 1], i>>]
        BY <2>1, <4>1
      <4>3. i # 0 => i - 1 \in 0 .. n - 1 /\ i - 1 # n /\ g[i - 1] = f[i - 1]
        BY <4>1
      <4> QED
        BY <4>1, <4>2, <4>3
    <3> QED
      BY <3>1, <3>2
  <2>5. g = [i \in 0 .. n |-> IF i = 0 THEN base ELSE step[<<g[i - 1], i>>]]
    <3> HIDE DEF g
    <3>1. g = [i \in 0 .. n |-> g[i]]
      BY <2>3
    <3> QED
      BY <2>4, <3>1
  <2> QED
    BY <2>3, <2>5
<1>3. T = {}
  <2>1. SUFFICES ASSUME T # {} 
                 PROVE FALSE
    OBVIOUS
  <2> HIDE DEF Upto
  <2>2. PICK n \in T : \A m \in T : n <= m
    <3>1. T \in SUBSET Nat
      OBVIOUS
    <3> HIDE DEF T
    <3> QED
      BY <2>1, <3>1, LeastNumber
  <2>3. n \in 1 .. N /\ ~Upto(n)
    BY <1>1, <2>2
  <2>4. Upto(n - 1)
    BY <2>2, <2>3
  <2> QED
    BY <1>2, <2>3, <2>4
<1>4. Upto(N)
  <2> HIDE DEF Upto
  <2> QED BY <1>3
<1>5. PICK f \in [0 .. N -> S] :
             f = [i \in 0 .. N |-> IF i = 0 THEN base ELSE step[<<f[i - 1], i>>]]
  BY <1>4
<1>6. Iterates(f, N, base, step)
  BY <1>5 DEF Iterates
<1> QED
  BY <1>6


-----------------------------------------------------------------------------
(* Listings: the elements of a finite set in a strict total order. *)

IsOrder(R, S) ==
    /\ \A x \in S : <<x, x>> \notin R
    /\ \A x, y \in S : x # y => <<x, y>> \in R \/ <<y, x>> \in R
    /\ \A x, y, z \in S : <<x, y>> \in R /\ <<y, z>> \in R => <<x, z>> \in R

Lists(t, S, R) ==
    /\ t \in [1 .. Cardinality(S) -> S]
    /\ \A q, r \in 1 .. Cardinality(S) : q < r => <<t[q], t[r]>> \in R

Before(R, S, x) == {y \in S : <<y, x>> \in R}

\* As many places as elements, each element at its own.
LEMMA PlacesDiffer ==
    ASSUME NEW S, IsFiniteSet(S), NEW R, IsOrder(R, S)
    PROVE  /\ Cardinality(S) \in Nat
           /\ \A x \in S : Cardinality(Before(R, S, x)) \in 0 .. Cardinality(S) - 1
           /\ \A x, y \in S : <<x, y>> \in R
                 => Cardinality(Before(R, S, x)) < Cardinality(Before(R, S, y))
<1>1. Cardinality(S) \in Nat
  BY FS_CardinalityType
<1>2. ASSUME NEW x \in S
      PROVE  /\ IsFiniteSet(Before(R, S, x))
             /\ Cardinality(Before(R, S, x)) \in 0 .. Cardinality(S) - 1
  <2>1. Before(R, S, x) \in SUBSET S /\ Before(R, S, x) # S
    BY DEF Before, IsOrder
  <2>2. /\ IsFiniteSet(Before(R, S, x))
        /\ Cardinality(Before(R, S, x)) <= Cardinality(S)
        /\ Cardinality(Before(R, S, x)) # Cardinality(S)
    BY <2>1, FS_Subset
  <2>3. Cardinality(Before(R, S, x)) \in Nat
    BY <2>2, FS_CardinalityType
  <2> QED
    BY <1>1, <2>2, <2>3
<1>3. ASSUME NEW x \in S, NEW y \in S, <<x, y>> \in R
      PROVE  Cardinality(Before(R, S, x)) < Cardinality(Before(R, S, y))
  <2>1. Before(R, S, x) \in SUBSET Before(R, S, y)
    BY <1>3 DEF Before, IsOrder
  <2>2. x \in Before(R, S, y) /\ x \notin Before(R, S, x)
    BY <1>3 DEF Before, IsOrder
  <2>3. IsFiniteSet(Before(R, S, y))
    BY <1>2
  <2>4. /\ Cardinality(Before(R, S, x)) <= Cardinality(Before(R, S, y))
        /\ Cardinality(Before(R, S, x)) # Cardinality(Before(R, S, y))
    BY <2>1, <2>2, <2>3, FS_Subset
  <2>5. Cardinality(Before(R, S, x)) \in Nat /\ Cardinality(Before(R, S, y)) \in Nat
    BY <1>1, <1>2
  <2> QED
    BY <2>4, <2>5
<1> QED
  BY <1>1, <1>2, <1>3

\* Every place is somebody's, and only one's.
LEMMA PlacesTaken ==
    ASSUME NEW S, IsFiniteSet(S), NEW R, IsOrder(R, S)
    PROVE  /\ \A x, y \in S : Cardinality(Before(R, S, x)) = Cardinality(Before(R, S, y)) => x = y
           /\ \A r \in 1 .. Cardinality(S) :
                 \E x \in S : Cardinality(Before(R, S, x)) = r - 1
<1> DEFINE n == Cardinality(S)
           place == [x \in S |-> Cardinality(Before(R, S, x))]
<1>1. /\ n \in Nat
      /\ \A x \in S : place[x] \in 0 .. n - 1
      /\ \A x, y \in S : <<x, y>> \in R => place[x] < place[y]
  BY PlacesDiffer
<1>2. ASSUME NEW x \in S, NEW y \in S, place[x] = place[y]
      PROVE  x = y
  <2>1. ~(place[x] < place[y]) /\ ~(place[y] < place[x])
    BY <1>1, <1>2
  <2> QED
    BY <1>1, <2>1 DEF IsOrder
<1>3. place \in Injection(S, 0 .. n - 1)
  <2>1. place \in [S -> 0 .. n - 1]
    BY <1>1
  <2>2. IsInjective(place)
    BY <1>2 DEF IsInjective
  <2> QED
    BY <2>1, <2>2 DEF Injection
<1>4. IsFiniteSet(0 .. n - 1) /\ Cardinality(0 .. n - 1) = n
  <2>1. n - 1 \in Int /\ 0 \in Int
    BY <1>1
  <2> HIDE DEF n
  <2> QED
    BY <1>1, <2>1, FS_Interval
<1>5. place \in Surjection(S, 0 .. n - 1)
  <2> HIDE DEF place
  <2> QED
    BY <1>3, <1>4, FS_Injection
<1>6. ASSUME NEW r \in 1 .. n
      PROVE  \E x \in S : place[x] = r - 1
  <2>1. r - 1 \in 0 .. n - 1
    BY <1>1
  <2> HIDE DEF place
  <2> QED
    BY <1>5, <2>1 DEF Surjection
<1> QED
  BY <1>2, <1>6

\* A function that gives place r to an element with r - 1 before it, as InOrder
\* does, lists the set.
LEMMA OrderedLists ==
    ASSUME NEW S, IsFiniteSet(S), NEW R, IsOrder(R, S),
           NEW t, t = [r \in 1 .. Cardinality(S) |-> t[r]],
           \A r \in 1 .. Cardinality(S) :
               t[r] \in S /\ Cardinality(Before(R, S, t[r])) = r - 1
    PROVE  Lists(t, S, R)
<1> DEFINE n == Cardinality(S)
<1>1. ASSUME NEW r \in 1 .. n
      PROVE  t[r] \in S /\ Cardinality(Before(R, S, t[r])) = r - 1
  OBVIOUS
<1>2. t \in [1 .. n -> S]
  BY <1>1
<1>3. ASSUME NEW q \in 1 .. n, NEW r \in 1 .. n, q < r
      PROVE  <<t[q], t[r]>> \in R
  <2>1. /\ t[q] \in S /\ t[r] \in S
        /\ Cardinality(Before(R, S, t[q])) = q - 1
        /\ Cardinality(Before(R, S, t[r])) = r - 1
    BY <1>1
  <2>2. n \in Nat
    BY PlacesDiffer
  <2>3. t[q] # t[r]
    <3>1. q - 1 # r - 1
      BY <1>3, <2>2
    <3> QED
      BY <2>1, <3>1
  <2>4. ~(<<t[r], t[q]>> \in R)
    <3>1. ~(r - 1 < q - 1)
      BY <1>3, <2>2
    <3> QED
      BY <2>1, <3>1, PlacesDiffer
  <2> QED
    BY <2>1, <2>3, <2>4 DEF IsOrder
<1> QED
  BY <1>2, <1>3 DEF Lists

\* A listing visits every element, and in its place.
LEMMA ListedInPlace ==
    ASSUME NEW S, IsFiniteSet(S), NEW R, IsOrder(R, S), NEW t, Lists(t, S, R)
    PROVE  /\ \A q, r \in 1 .. Cardinality(S) : t[q] = t[r] => q = r
           /\ \A x \in S : \E r \in 1 .. Cardinality(S) : t[r] = x
           /\ \A q, r \in 1 .. Cardinality(S) : <<t[q], t[r]>> \in R => q < r
           /\ \A r \in 1 .. Cardinality(S) : Cardinality(Before(R, S, t[r])) = r - 1
<1> DEFINE n == Cardinality(S)
<1>1. n \in Nat
  BY FS_CardinalityType
<1>2. t \in [1 .. n -> S] /\ \A q, r \in 1 .. n : q < r => <<t[q], t[r]>> \in R
  BY DEF Lists
<1> HIDE DEF n
<1>3. ASSUME NEW q \in 1 .. n, NEW r \in 1 .. n, t[q] = t[r]
      PROVE  q = r
  <2>1. q < r \/ r < q \/ q = r
    BY <1>1
  <2>2. <<t[q], t[r]>> \notin R /\ <<t[r], t[q]>> \notin R
    BY <1>2, <1>3 DEF IsOrder
  <2> QED
    BY <1>2, <2>1, <2>2
<1>4. t \in Surjection(1 .. n, S)
  <2>1. t \in Injection(1 .. n, S)
    BY <1>2, <1>3 DEF Injection, IsInjective
  <2>2. IsFiniteSet(1 .. n) /\ Cardinality(1 .. n) = Cardinality(S)
    BY <1>1, FS_Interval DEF n
  <2> QED
    BY <2>1, <2>2, FS_Injection
<1>5. \A x \in S : \E r \in 1 .. n : t[r] = x
  BY <1>4 DEF Surjection
<1>6. ASSUME NEW q \in 1 .. n, NEW r \in 1 .. n, <<t[q], t[r]>> \in R
      PROVE  q < r
  <2>1. ~(r < q)
    <3>1. SUFFICES ASSUME r < q
                   PROVE  FALSE
      OBVIOUS
    <3>2. <<t[r], t[q]>> \in R
      BY <1>2, <3>1
    <3> QED
      BY <1>2, <1>6, <3>2 DEF IsOrder
  <2>2. q # r
    BY <1>2, <1>6 DEF IsOrder
  <2> QED
    BY <1>1, <2>1, <2>2
<1>7. ASSUME NEW r \in 1 .. n
      PROVE  Cardinality(Before(R, S, t[r])) = r - 1
  <2> DEFINE m == r - 1
             u == [q \in 1 .. m |-> t[q]]
             B == Before(R, S, t[r])
  <2>1. m \in Nat /\ \A q \in 1 .. m : q \in 1 .. n /\ q < r
    BY <1>1
  <2>2. u \in [1 .. m -> B]
    BY <1>2, <2>1 DEF Before
  <2>3. IsInjective(u)
    BY <1>3, <2>1 DEF IsInjective
  <2>4. ASSUME NEW y \in B
        PROVE  \E q \in 1 .. m : u[q] = y
    <3>1. PICK q \in 1 .. n : t[q] = y
      BY <1>5 DEF Before
    <3>2. q < r
      BY <1>6, <3>1 DEF Before
    <3>3. q \in 1 .. m
      BY <1>1, <3>2
    <3> QED
      BY <3>1, <3>3
  <2>5. u \in Bijection(1 .. m, B)
    BY <2>2, <2>3, <2>4 DEF Bijection, Injection, Surjection
  <2>6. ExistsBijection(1 .. m, B)
    BY <2>5 DEF ExistsBijection
  <2> HIDE DEF m, B
  <2>7. Cardinality(B) = m
    BY <2>1, <2>6, FS_CountingElements
  <2> QED
    BY <2>7 DEF m, B
<1> QED
  BY <1>3, <1>5, <1>6, <1>7 DEF n

\* A set has one listing in an order.
LEMMA OneListing ==
    ASSUME NEW S, IsFiniteSet(S), NEW R, IsOrder(R, S),
           NEW t, Lists(t, S, R), NEW u, Lists(u, S, R)
    PROVE  t = u
<1> DEFINE n == Cardinality(S)
<1>1. t \in [1 .. n -> S] /\ u \in [1 .. n -> S]
  BY DEF Lists
<1>2. ASSUME NEW r \in 1 .. n
      PROVE  t[r] = u[r]
  <2>1. Cardinality(Before(R, S, t[r])) = r - 1 /\ Cardinality(Before(R, S, u[r])) = r - 1
    BY ListedInPlace
  <2>2. t[r] \in S /\ u[r] \in S
    BY <1>1
  <2> QED
    BY <2>1, <2>2, PlacesTaken
<1>3. t = [r \in 1 .. n |-> t[r]] /\ u = [r \in 1 .. n |-> u[r]]
  BY <1>1
<1> QED
  BY <1>2, <1>3, Zenon

-----------------------------------------------------------------------------
(* The first so many of a listing. *)

Leads(t, m, S, R) ==
    /\ t \in [1 .. m -> S]
    /\ \A q, r \in 1 .. m : q < r => <<t[q], t[r]>> \in R
    /\ \A x \in S : (\A r \in 1 .. m : t[r] # x) => \A r \in 1 .. m : <<t[r], x>> \in R

\* The leaders stand in the places the whole listing gives them.
LEMMA LeadersInPlace ==
    ASSUME NEW S, IsFiniteSet(S), NEW R, IsOrder(R, S),
           NEW m \in Nat, NEW t, Leads(t, m, S, R)
    PROVE  /\ \A q, r \in 1 .. m : t[q] = t[r] => q = r
           /\ \A r \in 1 .. m : Cardinality(Before(R, S, t[r])) = r - 1
<1>1. /\ t \in [1 .. m -> S]
      /\ \A q, r \in 1 .. m : q < r => <<t[q], t[r]>> \in R
      /\ \A x \in S : (\A r \in 1 .. m : t[r] # x) => \A r \in 1 .. m : <<t[r], x>> \in R
  BY DEF Leads
<1>2. ASSUME NEW q \in 1 .. m, NEW r \in 1 .. m, t[q] = t[r]
      PROVE  q = r
  <2>1. q < r \/ r < q \/ q = r
    OBVIOUS
  <2>2. <<t[q], t[r]>> \notin R /\ <<t[r], t[q]>> \notin R
    BY <1>1, <1>2 DEF IsOrder
  <2> QED
    BY <1>1, <2>1, <2>2
<1>3. ASSUME NEW r \in 1 .. m
      PROVE  Cardinality(Before(R, S, t[r])) = r - 1
  <2> DEFINE k == r - 1
             u == [q \in 1 .. k |-> t[q]]
             B == Before(R, S, t[r])
  <2>1. k \in Nat /\ \A q \in 1 .. k : q \in 1 .. m /\ q < r
    OBVIOUS
  <2>2. u \in [1 .. k -> B]
    BY <1>1, <2>1 DEF Before
  <2>3. IsInjective(u)
    BY <1>2, <2>1 DEF IsInjective
  <2>4. ASSUME NEW y \in B
        PROVE  \E q \in 1 .. k : u[q] = y
    <3>1. y \in S /\ <<y, t[r]>> \in R
      BY DEF Before
    <3>2. <<t[r], y>> \notin R
      BY <1>1, <3>1 DEF IsOrder
    <3>3. PICK q \in 1 .. m : t[q] = y
      BY <1>1, <3>1, <3>2
    <3>4. ~(r < q) /\ q # r
      <4>1. r < q => <<t[r], t[q]>> \in R
        BY <1>1
      <4> QED
        BY <1>1, <3>1, <3>2, <3>3, <4>1 DEF IsOrder
    <3>5. q \in 1 .. k
      BY <3>4
    <3> QED
      BY <3>3, <3>5
  <2>5. u \in Bijection(1 .. k, B)
    BY <2>2, <2>3, <2>4 DEF Bijection, Injection, Surjection
  <2>6. ExistsBijection(1 .. k, B)
    BY <2>5 DEF ExistsBijection
  <2> HIDE DEF k, B
  <2>7. Cardinality(B) = k
    BY <2>1, <2>6, FS_CountingElements
  <2> QED
    BY <2>7 DEF k, B
<1> QED
  BY <1>2, <1>3

LEMMA LeadersFirst ==
    ASSUME NEW S, IsFiniteSet(S), NEW R, IsOrder(R, S),
           NEW m \in Nat, NEW t, Leads(t, m, S, R), NEW u, Lists(u, S, R)
    PROVE  /\ m <= Cardinality(S)
           /\ \A r \in 1 .. m : t[r] = u[r]
<1>1. t \in [1 .. m -> S] /\ u \in [1 .. Cardinality(S) -> S] /\ Cardinality(S) \in Nat
  BY FS_CardinalityType DEF Leads, Lists
<1>2. m <= Cardinality(S)
  <2>1. t \in Injection(1 .. m, S)
    BY <1>1, LeadersInPlace DEF Injection, IsInjective
  <2>2. Cardinality(1 .. m) <= Cardinality(S)
    BY <2>1, FS_Injection
  <2>3. Cardinality(1 .. m) = m
    BY FS_Interval
  <2> QED
    BY <2>2, <2>3
<1>3. ASSUME NEW r \in 1 .. m
      PROVE  t[r] = u[r]
  <2>1. r \in 1 .. Cardinality(S)
    BY <1>1, <1>2
  <2>2. Cardinality(Before(R, S, t[r])) = r - 1
    BY LeadersInPlace
  <2>3. Cardinality(Before(R, S, u[r])) = r - 1
    BY <2>1, ListedInPlace
  <2>4. t[r] \in S /\ u[r] \in S
    BY <1>1, <2>1
  <2> QED
    BY <2>2, <2>3, <2>4, PlacesTaken
<1> QED
  BY <1>2, <1>3

-----------------------------------------------------------------------------
(* One turn of the scan. *)

\* A binary search always ends somewhere.
LEMMA SearchEnds ==
    ASSUME NEW best, NEW n \in Nat, Len(best) = n, NEW score
    PROVE  PartitionPoints(best, score) # {}
<1> DEFINE T == {p \in 0 .. n : p > 0 => Geq(best[p].score, score)}
<1>1. T \in SUBSET Nat /\ T # {} /\ \A p \in T : p <= n
  <2>1. 0 \in T
    OBVIOUS
  <2> QED
    BY <2>1
<1>2. PICK p \in T : \A q \in T : q <= p
  <2> HIDE DEF T
  <2> QED
    BY <1>1, GreatestNumber
<1>3. p < n => ~Geq(best[p + 1].score, score)
  <2>1. SUFFICES ASSUME p < n, Geq(best[p + 1].score, score)
                 PROVE  FALSE
    OBVIOUS
  <2>2. p + 1 \in T
    BY <2>1
  <2> QED
    BY <1>2, <2>2
<1>4. p \in PartitionPoints(best, score)
  BY <1>3 DEF PartitionPoints
<1> QED
  BY <1>4

\* What a turn makes of a shortlist, place by place.
LEMMA ShortlistedAt ==
    ASSUME NEW S, NEW best \in Seq(S), NEW entry \in S, NEW pos \in 0 .. Len(best),
           NEW k \in Nat, Len(best) <= k
    PROVE  LET n == AtMost(Len(best) + 1, k)
           IN  /\ Shortlisted(best, entry, pos, k) = [r \in 1 .. n |-> Shortlisted(best, entry, pos, k)[r]]
               /\ \A r \in 1 .. n : Shortlisted(best, entry, pos, k)[r] =
                     IF r <= pos THEN best[r] ELSE IF r = pos + 1 THEN entry ELSE best[r - 1]
<1> DEFINE n == Len(best)
           front == SubSeq(best, 1, pos)
           back == SubSeq(best, pos + 1, n)
           mid == front \o <<entry>>
           longer == InsertAt(best, pos + 1, entry)
           at(r) == IF r <= pos THEN best[r] ELSE IF r = pos + 1 THEN entry ELSE best[r - 1]
<1>1. n \in Nat /\ best \in [1 .. n -> S] /\ pos \in Nat /\ pos <= n /\ n <= k
  BY LenProperties
<1>2. CASE pos >= k
  <2>1. pos = n /\ k = n /\ AtMost(n + 1, k) = n
    <3> HIDE DEF n
    <3> QED
      BY <1>1, <1>2 DEF AtMost
  <2>2. Shortlisted(best, entry, pos, k) = best
    BY <1>2 DEF Shortlisted
  <2>3. best = [r \in 1 .. n |-> best[r]]
    BY <1>1
  <2>4. [r \in 1 .. n |-> best[r]] = [r \in 1 .. n |-> at(r)]
    BY <2>1
  <2> QED
    BY <2>1, <2>2, <2>3, <2>4
<1>3. CASE ~(pos >= k)
  <2>1. /\ front \in Seq(S) /\ Len(front) = pos
        /\ \A i \in 1 .. pos : front[i] = best[i]
    <3>1. \A i \in 1 .. pos : best[i] \in S
      BY <1>1
    <3> HIDE DEF n
    <3>2. /\ front \in Seq(S) /\ Len(front) = IF 1 <= pos THEN pos - 1 + 1 ELSE 0
          /\ \A i \in 1 .. pos - 1 + 1 : front[i] = best[1 + i - 1]
      BY <1>1, <3>1, SubSeqProperties
    <3> HIDE DEF front
    <3>3. Len(front) = pos
      BY <1>1, <3>2
    <3>4. ASSUME NEW i \in 1 .. pos
          PROVE  front[i] = best[i]
      <4>1. i \in 1 .. pos - 1 + 1 /\ 1 + i - 1 = i
        BY <1>1
      <4> QED
        BY <3>2, <4>1
    <3> QED
      BY <3>2, <3>3, <3>4
  <2>2. /\ back \in Seq(S) /\ Len(back) = n - pos
        /\ \A i \in 1 .. n - pos : back[i] = best[pos + i]
    <3>1. \A i \in pos + 1 .. n : best[i] \in S
      BY <1>1
    <3> HIDE DEF n
    <3>2. /\ back \in Seq(S) /\ Len(back) = IF pos + 1 <= n THEN n - (pos + 1) + 1 ELSE 0
          /\ \A i \in 1 .. n - (pos + 1) + 1 : back[i] = best[pos + 1 + i - 1]
      <4>1. pos + 1 \in Int /\ n \in Int
        BY <1>1
      <4> QED
        BY <3>1, <4>1, SubSeqProperties
    <3> HIDE DEF back
    <3>3. Len(back) = n - pos
      BY <1>1, <3>2
    <3>4. ASSUME NEW i \in 1 .. n - pos
          PROVE  back[i] = best[pos + i]
      <4>1. i \in 1 .. n - (pos + 1) + 1 /\ pos + 1 + i - 1 = pos + i
        BY <1>1
      <4> QED
        BY <3>2, <4>1
    <3> QED
      BY <3>2, <3>3, <3>4
  <2>3. longer = mid \o back
    <3> DEFINE place == pos + 1
    <3>1. place - 1 = pos
      BY <1>1
    <3> HIDE DEF place
    <3>2. InsertAt(best, place, entry)
             = SubSeq(best, 1, place - 1) \o <<entry>> \o SubSeq(best, place, Len(best))
      BY DEF InsertAt
    <3> QED
      BY <3>1, <3>2 DEF place
  <2>4. <<entry>> \in Seq(S) /\ Len(<<entry>>) = 1 /\ <<entry>>[1] = entry
    OBVIOUS
  <2> HIDE DEF front, back, n
  <2>5. /\ mid \in Seq(S) /\ Len(mid) = pos + 1
        /\ \A i \in 1 .. pos + 1 : mid[i] = IF i <= pos THEN best[i] ELSE entry
    <3>1. /\ mid \in Seq(S) /\ Len(mid) = Len(front) + Len(<<entry>>)
          /\ \A i \in 1 .. Len(front) + Len(<<entry>>) : mid[i] =
                IF i <= Len(front) THEN front[i] ELSE <<entry>>[i - Len(front)]
      BY <2>1, <2>4, ConcatProperties
    <3> QED
      BY <1>1, <2>1, <2>4, <3>1
  <2>6. Shortlisted(best, entry, pos, k) = Truncated(longer, k)
    BY <1>3 DEF Shortlisted
  <2> HIDE DEF mid, longer
  <2>7. /\ longer \in Seq(S) /\ Len(longer) = n + 1
        /\ \A i \in 1 .. n + 1 : longer[i] = at(i)
    <3>1. /\ longer \in Seq(S) /\ Len(longer) = Len(mid) + Len(back)
          /\ \A i \in 1 .. Len(mid) + Len(back) : longer[i] =
                IF i <= Len(mid) THEN mid[i]
                ELSE back[i - Len(mid)]
      BY <2>2, <2>3, <2>5, ConcatProperties
    <3>2. Len(longer) = n + 1
      BY <1>1, <2>2, <2>5, <3>1
    <3>3. ASSUME NEW i \in 1 .. n + 1
          PROVE  longer[i] = at(i)
      <4>1. longer[i] = IF i <= pos + 1 THEN mid[i] ELSE back[i - (pos + 1)]
        BY <1>1, <2>2, <2>5, <3>1
      <4>2. CASE i <= pos + 1
        BY <1>1, <2>5, <4>1, <4>2
      <4>3. CASE ~(i <= pos + 1)
        <5>1. i - (pos + 1) \in 1 .. n - pos /\ pos + (i - (pos + 1)) = i - 1
          BY <1>1, <4>3
        <5>2. longer[i] = best[i - 1]
          BY <2>2, <4>1, <4>3, <5>1
        <5> QED
          BY <1>1, <4>3, <5>2
      <4> QED
        BY <4>2, <4>3
    <3> QED
      BY <3>1, <3>2, <3>3
  <2> HIDE DEF at
  <2>8. CASE n + 1 > k
    <3>1. AtMost(n + 1, k) = k
      BY <1>1, <2>8 DEF AtMost
    <3>2. Truncated(longer, k) = SubSeq(longer, 1, k)
      BY <2>7, <2>8 DEF Truncated
    <3>3. /\ SubSeq(longer, 1, k) \in Seq(S)
          /\ Len(SubSeq(longer, 1, k)) = k
          /\ \A i \in 1 .. k : SubSeq(longer, 1, k)[i] = longer[i]
      <4>1. longer \in [1 .. n + 1 -> S]
        BY <2>7, LenProperties
      <4>2. \A i \in 1 .. k : longer[i] \in S
        BY <1>1, <2>8, <4>1
      <4>3. /\ SubSeq(longer, 1, k) \in Seq(S)
            /\ Len(SubSeq(longer, 1, k)) = IF 1 <= k THEN k - 1 + 1 ELSE 0
            /\ \A i \in 1 .. k - 1 + 1 : SubSeq(longer, 1, k)[i] = longer[1 + i - 1]
        BY <4>2, SubSeqProperties
      <4>4. ASSUME NEW i \in 1 .. k
            PROVE  SubSeq(longer, 1, k)[i] = longer[i]
        <5>1. i \in 1 .. k - 1 + 1 /\ 1 + i - 1 = i
          OBVIOUS
        <5> QED
          BY <4>3, <5>1
      <4> QED
        BY <4>3, <4>4
    <3>4. SubSeq(longer, 1, k) = [r \in 1 .. k |-> SubSeq(longer, 1, k)[r]]
      BY <3>3, LenProperties
    <3>5. \A r \in 1 .. k : SubSeq(longer, 1, k)[r] = at(r)
      BY <1>1, <2>7, <2>8, <3>3
    <3> QED
      BY <2>6, <3>1, <3>2, <3>4, <3>5 DEF at, n
  <2>9. CASE ~(n + 1 > k)
    <3>1. AtMost(n + 1, k) = n + 1
      BY <1>1, <2>9 DEF AtMost
    <3>2. Truncated(longer, k) = longer
      BY <2>7, <2>9 DEF Truncated
    <3>3. longer = [r \in 1 .. n + 1 |-> longer[r]]
      BY <2>7, LenProperties
    <3> QED
      BY <2>7, <2>6, <3>1, <3>2, <3>3 DEF at, n
  <2> QED
    BY <2>8, <2>9
<1>4. Shortlisted(best, entry, pos, k) = [r \in 1 .. AtMost(n + 1, k) |-> at(r)]
  BY <1>2, <1>3
<1>5. \A r \in 1 .. AtMost(n + 1, k) : Shortlisted(best, entry, pos, k)[r] = at(r)
  BY <1>4
<1> QED
  BY <1>4, <1>5


-----------------------------------------------------------------------------
(* The whole scan. *)

LEMMA FunctionIsSequence ==
    ASSUME NEW E, NEW n \in Nat, NEW f \in [1 .. n -> E]
    PROVE  f \in Seq(E) /\ Len(f) = n
<1>1. f \in Seq(E)
  BY SeqDef
<1>2. DOMAIN f = 1 .. n /\ DOMAIN f = 1 .. Len(f) /\ Len(f) \in Nat
  BY <1>1, LenProperties
<1> QED
  BY <1>1, <1>2

\* Descending keys, equals in their own order: what a stable sort sorts by.
KeyOrder(keys, S) ==
    {p \in S \X S : keys[p[1]] > keys[p[2]] \/ (keys[p[1]] = keys[p[2]] /\ p[1] < p[2])}

LEMMA KeysOrder ==
    ASSUME NEW S \in SUBSET Int, NEW keys, \A x \in S : keys[x] \in Int
    PROVE  IsOrder(KeyOrder(keys, S), S)
<1>1. \A x, y \in S : <<x, y>> \in KeyOrder(keys, S)
                         <=> keys[x] > keys[y] \/ (keys[x] = keys[y] /\ x < y)
  BY DEF KeyOrder
<1>2. \A x \in S : <<x, x>> \notin KeyOrder(keys, S)
  BY <1>1
<1>3. ASSUME NEW x \in S, NEW y \in S, x # y
      PROVE  <<x, y>> \in KeyOrder(keys, S) \/ <<y, x>> \in KeyOrder(keys, S)
  BY <1>1, <1>3
<1>4. ASSUME NEW x \in S, NEW y \in S, NEW z \in S,
             <<x, y>> \in KeyOrder(keys, S), <<y, z>> \in KeyOrder(keys, S)
      PROVE  <<x, z>> \in KeyOrder(keys, S)
  <2>1. keys[x] > keys[y] \/ (keys[x] = keys[y] /\ x < y)
    BY <1>1, <1>4
  <2>2. keys[y] > keys[z] \/ (keys[y] = keys[z] /\ y < z)
    BY <1>1, <1>4
  <2>3. keys[x] > keys[z] \/ (keys[x] = keys[z] /\ x < z)
    BY <2>1, <2>2
  <2> QED
    BY <1>1, <2>3
<1> QED
  BY <1>2, <1>3, <1>4 DEF IsOrder

Scored(scored) == [i \in DOMAIN scored |-> scored[i].score]
Numbers(scored) == \A i \in DOMAIN scored : scored[i].score \in Int \ {NaN}

\* What a shortlist is after i entries: k of them or all, none of them twice;
\* and without NaN the best of them, in order.
ShortlistOf(best, t, scored, i, k) ==
    /\ t \in [1 .. AtMost(i, k) -> 1 .. i]
    /\ \A q, r \in 1 .. AtMost(i, k) : t[q] = t[r] => q = r
    /\ best = [r \in 1 .. AtMost(i, k) |-> scored[t[r]]]
    /\ Numbers(scored)
          => Leads(t, AtMost(i, k), 1 .. i, KeyOrder(Scored(scored), 1 .. Len(scored)))

LEMMA ShortlistIsSequence ==
    ASSUME NEW E, NEW scored \in Seq(E), NEW k \in Nat, NEW i \in 0 .. Len(scored),
           NEW t, NEW best, ShortlistOf(best, t, scored, i, k)
    PROVE  /\ AtMost(i, k) \in Nat /\ AtMost(i, k) <= k /\ AtMost(i, k) <= i
           /\ best \in Seq(E) /\ Len(best) = AtMost(i, k)
<1> DEFINE m == AtMost(i, k)
<1>1. scored \in [1 .. Len(scored) -> E] /\ Len(scored) \in Nat
  BY LenProperties
<1>2. m \in Nat /\ m <= k /\ m <= i
  BY <1>1 DEF AtMost
<1>3. t \in [1 .. m -> 1 .. i] /\ best = [r \in 1 .. m |-> scored[t[r]]]
  BY DEF ShortlistOf
<1> HIDE DEF m
<1>4. best \in [1 .. m -> E]
  BY <1>1, <1>3
<1>5. best \in Seq(E) /\ Len(best) = m
  BY <1>2, <1>4, FunctionIsSequence
<1> QED
  BY <1>2, <1>5 DEF m

LEMMA ShortlistGrows ==
    ASSUME NEW E, NEW scored \in Seq(E), NEW k \in Nat, NEW i \in 1 .. Len(scored),
           NEW t, NEW best, ShortlistOf(best, t, scored, i - 1, k),
           NEW pos \in PartitionPoints(best, scored[i].score)
    PROVE  \E u : ShortlistOf(Shortlisted(best, scored[i], pos, k), u, scored, i, k)
<1> DEFINE N == Len(scored)
           m == AtMost(i - 1, k)
           n == AtMost(i, k)
           R == KeyOrder(Scored(scored), 1 .. N)
           u == [r \in 1 .. n |-> IF r <= pos THEN t[r] ELSE IF r = pos + 1 THEN i ELSE t[r - 1]]
           next == Shortlisted(best, scored[i], pos, k)
<1>1. scored \in [1 .. N -> E] /\ N \in Nat /\ DOMAIN scored = 1 .. N /\ i - 1 \in 0 .. N
  BY LenProperties
<1>2. /\ m \in Nat /\ m <= k /\ m <= i - 1
      /\ best \in Seq(E) /\ Len(best) = m
  BY <1>1, ShortlistIsSequence
<1>3. /\ t \in [1 .. m -> 1 .. i - 1]
      /\ \A q, r \in 1 .. m : t[q] = t[r] => q = r
      /\ best = [r \in 1 .. m |-> scored[t[r]]]
      /\ Numbers(scored) => Leads(t, m, 1 .. i - 1, R)
  BY DEF ShortlistOf
<1>4. n \in Nat /\ n = AtMost(m + 1, k) /\ n <= m + 1 /\ m <= n /\ (n = m => k = m) /\ n <= k
  BY <1>1 DEF AtMost
<1>5. pos \in 0 .. m
  BY <1>2 DEF PartitionPoints
<1>6. next = [r \in 1 .. n |->
                 IF r <= pos THEN best[r] ELSE IF r = pos + 1 THEN scored[i] ELSE best[r - 1]]
  <2> DEFINE entry == scored[i]
  <2>1. best \in Seq(E) /\ entry \in E /\ pos \in 0 .. Len(best) /\ k \in Nat /\ Len(best) <= k
    BY <1>1, <1>2, <1>5
  <2> HIDE DEF m, n, N, R, u, entry
  <2>2. AtMost(Len(best) + 1, k) = n
    BY <1>2, <1>4
  <2>3. /\ Shortlisted(best, entry, pos, k) = [r \in 1 .. n |-> Shortlisted(best, entry, pos, k)[r]]
        /\ \A r \in 1 .. n : Shortlisted(best, entry, pos, k)[r] =
              IF r <= pos THEN best[r] ELSE IF r = pos + 1 THEN entry ELSE best[r - 1]
    BY <2>1, <2>2, ShortlistedAt
  <2> QED
    BY <2>3 DEF entry
<1> HIDE DEF m, n, N, R
<1>7. ASSUME NEW r \in 1 .. n
      PROVE  /\ r <= pos => r \in 1 .. m
             /\ r > pos + 1 => r - 1 \in 1 .. m
  BY <1>2, <1>4, <1>5
<1>8. u \in [1 .. n -> 1 .. i]
  <2>1. ASSUME NEW r \in 1 .. n
        PROVE  u[r] \in 1 .. i
    <3>1. CASE r <= pos
      BY <1>3, <1>7, <3>1
    <3>2. CASE r = pos + 1
      BY <1>5, <3>2
    <3>3. CASE r > pos + 1
      BY <1>3, <1>5, <1>7, <3>3
    <3> QED
      BY <1>5, <3>1, <3>2, <3>3
  <2> QED
    BY <2>1
<1>9. ASSUME NEW q \in 1 .. n, NEW r \in 1 .. n, u[q] = u[r]
      PROVE  q = r
  <2>1. ASSUME NEW x \in 1 .. n
        PROVE  /\ x <= pos => u[x] = t[x] /\ x \in 1 .. m /\ u[x] # i
               /\ x = pos + 1 => u[x] = i
               /\ x > pos + 1 => u[x] = t[x - 1] /\ x - 1 \in 1 .. m /\ u[x] # i
               /\ x <= pos \/ x = pos + 1 \/ x > pos + 1
    <3>1. \A y \in 1 .. m : t[y] # i
      BY <1>3
    <3> QED
      BY <1>5, <1>7, <3>1
  <2>2. q \in 1 .. n /\ r \in 1 .. n /\ pos \in Nat
    BY <1>5
  <2> HIDE DEF u
  <2>3. \A x, y \in 1 .. m : t[x] = t[y] => x = y
    BY <1>3
  <2>4. CASE q <= pos
    BY <2>1, <2>2, <2>3, <2>4, <1>9
  <2>5. CASE q = pos + 1
    BY <2>1, <2>2, <2>3, <2>5, <1>9
  <2>6. CASE q > pos + 1
    BY <2>1, <2>2, <2>3, <2>6, <1>9
  <2> QED
    BY <2>1, <2>4, <2>5, <2>6
<1>10. next = [r \in 1 .. n |-> scored[u[r]]]
  <2>1. ASSUME NEW r \in 1 .. n
        PROVE  (IF r <= pos THEN best[r] ELSE IF r = pos + 1 THEN scored[i] ELSE best[r - 1])
                  = scored[u[r]]
    BY <1>3, <1>5, <1>7
  <2> HIDE DEF u, next
  <2> QED
    BY <1>6, <2>1
<1>11. ASSUME Numbers(scored)
       PROVE  Leads(u, n, 1 .. i, R)
  <2> DEFINE key(x) == scored[x].score
  <2>1. \A x \in 1 .. N : key(x) \in Int /\ key(x) # NaN
    BY <1>1, <1>11 DEF Numbers
  <2>2. \A x, y \in 1 .. N : <<x, y>> \in R <=> key(x) > key(y) \/ (key(x) = key(y) /\ x < y)
    BY <1>1 DEF R, KeyOrder, Scored
  <2>3. IsOrder(R, 1 .. N)
    <3>1. \A x \in 1 .. N : Scored(scored)[x] \in Int
      BY <1>1, <2>1 DEF Scored
    <3>2. 1 .. N \in SUBSET Int
      BY <1>1
    <3>3. IsOrder(KeyOrder(Scored(scored), 1 .. N), 1 .. N)
      BY <3>1, <3>2, KeysOrder
    <3> QED
      BY <3>3 DEF R
  <2>4. i \in 1 .. N /\ 1 .. i - 1 \subseteq 1 .. N /\ 1 .. i \subseteq 1 .. N
    BY <1>1 DEF N
  <2>5. Leads(t, m, 1 .. i - 1, R)
    BY <1>3, <1>11
  <2>6. \A r \in 1 .. m : t[r] \in 1 .. N /\ t[r] < i
    BY <1>3, <2>4
  <2>7. ASSUME NEW r \in 1 .. m, r <= pos
        PROVE  <<t[r], i>> \in R
    <3>1. pos \in 1 .. m /\ Geq(best[pos].score, scored[i].score)
      BY <1>5, <2>7 DEF PartitionPoints
    <3>2. key(t[pos]) >= key(i)
      BY <1>3, <3>1 DEF Geq
    <3>3. t[pos] \in 1 .. N /\ t[r] \in 1 .. N /\ i \in 1 .. N /\ t[pos] < i /\ t[r] < i
      BY <2>4, <2>6, <3>1
    <3> HIDE DEF key, u
    <3>4. key(t[r]) >= key(t[pos])
      <4>1. r = pos \/ <<t[r], t[pos]>> \in R
        BY <2>5, <2>7, <3>1 DEF Leads
      <4> QED
        BY <2>1, <2>2, <3>3, <4>1
    <3>5. key(t[r]) >= key(i)
      BY <2>1, <3>2, <3>3, <3>4
    <3> QED
      BY <2>1, <2>2, <3>3, <3>5
  <2>8. ASSUME NEW r \in 1 .. m, r > pos
        PROVE  <<i, t[r]>> \in R
    <3>1. pos + 1 \in 1 .. m /\ ~Geq(best[pos + 1].score, scored[i].score)
      BY <1>2, <1>5, <2>8 DEF PartitionPoints
    <3>2. t[pos + 1] \in 1 .. N /\ t[r] \in 1 .. N /\ i \in 1 .. N
      BY <2>4, <2>6, <3>1
    <3>3. ~(key(t[pos + 1]) >= key(i))
      <4>1. best[pos + 1].score = key(t[pos + 1])
        BY <1>3, <3>1
      <4> QED
        BY <2>1, <3>1, <3>2, <4>1 DEF Geq
    <3> HIDE DEF key, u
    <3>4. key(t[pos + 1]) >= key(t[r])
      <4>1. r = pos + 1 \/ <<t[pos + 1], t[r]>> \in R
        BY <1>5, <2>5, <2>8, <3>1 DEF Leads
      <4> QED
        BY <2>1, <2>2, <3>2, <4>1
    <3>5. key(i) > key(t[r])
      BY <2>1, <3>2, <3>3, <3>4
    <3> QED
      BY <2>2, <3>2, <3>5
  <2>9. ASSUME NEW x \in 1 .. n
        PROVE  /\ x <= pos => u[x] = t[x] /\ x \in 1 .. m
               /\ x = pos + 1 => u[x] = i
               /\ x > pos + 1 => u[x] = t[x - 1] /\ x - 1 \in 1 .. m /\ x - 1 > pos
               /\ x <= pos \/ x = pos + 1 \/ x > pos + 1
    BY <1>5, <1>7
  <2>10. \A q, r \in 1 .. m : q < r => <<t[q], t[r]>> \in R
    BY <2>5 DEF Leads
  <2>11. ASSUME NEW q \in 1 .. n, NEW r \in 1 .. n, q < r
         PROVE  <<u[q], u[r]>> \in R
    <3> HIDE DEF u
    <3>1. CASE r <= pos
      <4>1. q <= pos
        BY <1>5, <2>11, <3>1
      <4> QED
        BY <2>9, <2>10, <2>11, <3>1, <4>1
    <3>2. CASE r = pos + 1
      <4>1. q <= pos
        BY <1>5, <2>11, <3>2
      <4> QED
        BY <2>7, <2>9, <3>2, <4>1
    <3>3. CASE r > pos + 1
      <4>1. CASE q <= pos
        <5>1. q < r - 1
          BY <1>5, <3>3, <4>1
        <5> QED
          BY <2>9, <2>10, <3>3, <4>1, <5>1
      <4>2. CASE q = pos + 1
        BY <2>8, <2>9, <3>3, <4>2
      <4>3. CASE q > pos + 1
        <5>1. q - 1 < r - 1
          BY <2>11
        <5> QED
          BY <2>9, <2>10, <3>3, <4>3, <5>1
      <4> QED
        BY <2>9, <4>1, <4>2, <4>3
    <3> QED
      BY <2>9, <3>1, <3>2, <3>3
  <2>12. ASSUME NEW x \in 1 .. i, \A r \in 1 .. n : u[r] # x, NEW r \in 1 .. n
         PROVE  <<u[r], x>> \in R
    <3>1. CASE x = i
      <4>1. ~(pos + 1 \in 1 .. n)
        BY <2>9, <2>12, <3>1
      <4>2. r <= pos
        BY <1>4, <1>5, <4>1
      <4> HIDE DEF u
      <4> QED
        BY <2>7, <2>9, <3>1, <4>2
    <3>2. CASE x # i
      <4>1. x \in 1 .. i - 1
        BY <3>2
      <4>2. CASE \E s \in 1 .. m : t[s] = x
        <5>1. PICK s \in 1 .. m : t[s] = x
          BY <4>2
        <5>2. ~(s <= pos)
          <6>1. s <= pos => s \in 1 .. n /\ u[s] = t[s]
            BY <1>2, <1>4, <1>5
          <6> QED
            BY <2>12, <5>1, <6>1
        <5>3. ~(s + 1 \in 1 .. n)
          <6>1. s + 1 \in 1 .. n => u[s + 1] = t[s]
            BY <1>5, <5>2
          <6> QED
            BY <2>12, <5>1, <6>1
        <5>4. s = m /\ n = m
          BY <1>2, <1>4, <5>3
        <5> HIDE DEF u
        <5>5. CASE r <= pos
          <6>1. r < s
            BY <1>5, <5>2, <5>5
          <6> QED
            BY <2>9, <2>10, <5>1, <5>5, <6>1
        <5>6. CASE r = pos + 1
          <6>1. s > pos
            BY <1>5, <5>2
          <6> QED
            BY <2>8, <2>9, <5>1, <5>6, <6>1
        <5>7. CASE r > pos + 1
          <6>1. r - 1 < s
            BY <5>4
          <6> QED
            BY <2>9, <2>10, <5>1, <5>7, <6>1
        <5> QED
          BY <2>9, <5>5, <5>6, <5>7
      <4>3. CASE ~\E s \in 1 .. m : t[s] = x
        <5>1. \A s \in 1 .. m : <<t[s], x>> \in R
          BY <2>5, <4>1, <4>3 DEF Leads
        <5> HIDE DEF u
        <5>2. CASE r # pos + 1
          BY <2>9, <5>1, <5>2
        <5>3. CASE r = pos + 1
          <6>1. m # 0
            <7>1. SUFFICES ASSUME m = 0
                           PROVE  FALSE
              OBVIOUS
            <7>2. k >= 1 /\ i - 1 >= 1
              BY <1>4, <4>1
            <7>3. m >= 1
              BY <7>2 DEF m, AtMost
            <7> QED
              BY <7>1, <7>3
          <6>2. m \in 1 .. m /\ <<t[m], x>> \in R
            BY <1>2, <5>1, <6>1
          <6>3. CASE pos < m
            <7>1. <<i, t[m]>> \in R
              BY <2>8, <6>2, <6>3, <1>5
            <7>2. i \in 1 .. N /\ t[m] \in 1 .. N /\ x \in 1 .. N
              BY <2>4, <2>6, <4>1, <6>2
            <7>3. <<i, x>> \in R
              BY <2>3, <6>2, <7>1, <7>2 DEF IsOrder
            <7> QED
              BY <2>9, <5>3, <7>3
          <6>4. CASE ~(pos < m)
            <7>1. n = m + 1 /\ pos = m
              BY <1>2, <1>4, <1>5, <5>3, <6>4
            <7>2. m < k
              BY <1>2, <1>4, <7>1
            <7>3. m = i - 1
              BY <7>2 DEF m, AtMost
            <7>4. t \in Injection(1 .. m, 1 .. m)
              BY <1>3, <7>3 DEF Injection, IsInjective
            <7>5. t \in Surjection(1 .. m, 1 .. m)
              <8>1. IsFiniteSet(1 .. m)
                BY <1>2, FS_Interval
              <8> QED
                BY <7>4, <8>1, FS_Injection
            <7>6. \E s \in 1 .. m : t[s] = x
              BY <4>1, <7>3, <7>5 DEF Surjection
            <7> QED
              BY <4>3, <7>6
          <6> QED
            BY <6>3, <6>4
        <5> QED
          BY <5>2, <5>3
      <4> QED
        BY <4>2, <4>3
    <3> QED
      BY <3>1, <3>2
  <2> HIDE DEF u
  <2> QED
    BY <1>8, <2>11, <2>12 DEF Leads
<1> HIDE DEF u, next
<1>12. ShortlistOf(next, u, scored, i, k)
  BY <1>8, <1>9, <1>10, <1>11 DEF ShortlistOf, n, N, R
<1> QED
  BY <1>12 DEF next

LEMMA ShortlistStaysShort ==
    ASSUME NEW E, NEW k \in Nat, NEW best \in Seq(E), Len(best) <= k,
           NEW entry \in E, NEW pos \in 0 .. Len(best)
    PROVE  /\ Shortlisted(best, entry, pos, k) \in Seq(E)
           /\ Len(Shortlisted(best, entry, pos, k)) <= k
<1> DEFINE n == AtMost(Len(best) + 1, k)
           next == Shortlisted(best, entry, pos, k)
<1>1. Len(best) \in Nat /\ best \in [1 .. Len(best) -> E]
  BY LenProperties
<1>2. n \in Nat /\ n <= k /\ n <= Len(best) + 1
  BY <1>1 DEF AtMost
<1>3. /\ next = [r \in 1 .. n |-> next[r]]
      /\ \A r \in 1 .. n : next[r] =
            IF r <= pos THEN best[r] ELSE IF r = pos + 1 THEN entry ELSE best[r - 1]
  BY ShortlistedAt
<1> HIDE DEF n, next
<1>4. \A r \in 1 .. n : next[r] \in E
  BY <1>1, <1>2, <1>3
<1>5. next \in [1 .. n -> E]
  BY <1>3, <1>4
<1>6. next \in Seq(E) /\ Len(next) = n
  BY <1>2, <1>5, FunctionIsSequence
<1> QED
  BY <1>2, <1>6 DEF next

\* A scan always ends with a shortlist, and every one it may end with is a
\* shortlist of what was scanned.
LEMMA ScanEnds ==
    ASSUME NEW E, NEW scored \in Seq(E), NEW k \in Nat
    PROVE  /\ Shortlists(scored, k) # {}
           /\ \A best \in Shortlists(scored, k) :
                 \E t : ShortlistOf(best, t, scored, Len(scored), k)
<1> DEFINE N == Len(scored)
           Kept == {best \in Seq(E) : Len(best) <= k}
           Turned(bests, i) == UNION {{Shortlisted(best, scored[i], pos, k) :
                                          pos \in PartitionPoints(best, scored[i].score)} :
                                         best \in bests}
           f == CHOOSE f : f = [i \in 0 .. N |-> IF i = 0 THEN {<< >>} ELSE Turned(f[i - 1], i)]
<1>1. N \in Nat /\ scored \in [1 .. N -> E]
  BY LenProperties
<1>2. Shortlists(scored, k) = f[N]
  BY DEF Shortlists
<1>3. ASSUME NEW best \in Kept, NEW i \in 1 .. N,
             NEW pos \in PartitionPoints(best, scored[i].score)
      PROVE  Shortlisted(best, scored[i], pos, k) \in Kept
  <2>1. best \in Seq(E) /\ Len(best) <= k /\ pos \in 0 .. Len(best) /\ scored[i] \in E
    BY <1>1 DEF PartitionPoints
  <2> QED
    BY <2>1, ShortlistStaysShort
<1>4. \A bests \in SUBSET Kept, i \in 1 .. N : Turned(bests, i) \in SUBSET Kept
  <2> HIDE DEF Kept, Turned
  <2> SUFFICES ASSUME NEW bests \in SUBSET Kept, NEW i \in 1 .. N, NEW x \in Turned(bests, i)
               PROVE  x \in Kept
    OBVIOUS
  <2>1. PICK best \in bests : \E pos \in PartitionPoints(best, scored[i].score) :
                x = Shortlisted(best, scored[i], pos, k)
    BY DEF Turned
  <2> QED
    BY <1>3, <2>1
<1>5. {<< >>} \in SUBSET Kept
  BY EmptySeq
<1>6. f = [i \in 0 .. N |-> IF i = 0 THEN {<< >>} ELSE Turned(f[i - 1], i)]
  <2> DEFINE step == [p \in (SUBSET Kept) \X (1 .. N) |-> Turned(p[1], p[2])]
  <2> HIDE DEF Kept, Turned, N
  <2>1. step \in [(SUBSET Kept) \X (1 .. N) -> SUBSET Kept]
    BY <1>4
  <2>2. \A bests \in SUBSET Kept, i \in 1 .. N : step[<<bests, i>>] = Turned(bests, i)
    OBVIOUS
  <2> HIDE DEF step
  <2> DEFINE base == {<< >>}
             Sets == SUBSET Kept
  <2>6. base \in Sets /\ step \in [Sets \X (1 .. N) -> Sets]
    BY <1>5, <2>1
  <2> HIDE DEF f, base, Sets
  <2>3. PICK g \in [0 .. N -> Sets] : Iterates(g, N, base, step)
    BY <1>1, <2>6, Iteration
  <2>4. ASSUME NEW i \in 0 .. N
        PROVE  g[i] = IF i = 0 THEN {<< >>} ELSE Turned(g[i - 1], i)
    <3>1. i # 0 => i \in 1 .. N /\ g[i - 1] \in SUBSET Kept
      BY <1>1, <2>3 DEF Sets
    <3> QED
      BY <2>2, <2>3, <3>1 DEF base, Iterates
  <2>5. g = [i \in 0 .. N |-> IF i = 0 THEN {<< >>} ELSE Turned(g[i - 1], i)]
    <3>1. g = [i \in 0 .. N |-> g[i]]
      BY <2>3
    <3> QED
      BY <2>4, <3>1, Zenon
  <2> QED
    BY <2>5 DEF f
<1> DEFINE Due(i) == /\ f[i] # {}
                     /\ \A best \in f[i] : \E t : ShortlistOf(best, t, scored, i, k)
<1> HIDE DEF f
<1>7. Due(0)
  <2>1. f[0] = {<< >>}
    BY <1>1, <1>6
  <2>2. ShortlistOf(<< >>, << >>, scored, 0, k)
    <3>1. AtMost(0, k) = 0 /\ 1 .. 0 = {}
      BY DEF AtMost
    <3>2. \A R : Leads(<< >>, 0, 1 .. 0, R)
      BY <3>1 DEF Leads
    <3> QED
      BY <3>1, <3>2 DEF ShortlistOf
  <2> QED
    BY <2>1, <2>2
<1>8. ASSUME NEW i \in 1 .. N, Due(i - 1)
      PROVE  Due(i)
  <2>1. f[i] = Turned(f[i - 1], i)
    <3> HIDE DEF Turned, Due, N, Kept
    <3>1. i \in 0 .. N /\ i # 0
      BY <1>1
    <3> QED
      BY <1>6, <3>1
  <2>2. ASSUME NEW best \in f[i - 1]
        PROVE  PartitionPoints(best, scored[i].score) # {}
    <3>1. PICK t : ShortlistOf(best, t, scored, i - 1, k)
      BY <1>8
    <3>2. i - 1 \in 0 .. Len(scored)
      BY <1>1
    <3>3. Len(best) \in Nat
      BY <3>1, <3>2, ShortlistIsSequence
    <3> QED
      BY <3>3, SearchEnds
  <2>3. f[i] # {}
    <3>1. PICK best \in f[i - 1] : TRUE
      BY <1>8
    <3>2. PICK pos \in PartitionPoints(best, scored[i].score) : TRUE
      BY <2>2
    <3>3. Shortlisted(best, scored[i], pos, k) \in Turned(f[i - 1], i)
      OBVIOUS
    <3> QED
      BY <2>1, <3>3
  <2>4. ASSUME NEW next \in f[i]
        PROVE  \E t : ShortlistOf(next, t, scored, i, k)
    <3>1. PICK best \in f[i - 1] : \E pos \in PartitionPoints(best, scored[i].score) :
                  next = Shortlisted(best, scored[i], pos, k)
      BY <2>1
    <3>2. PICK t : ShortlistOf(best, t, scored, i - 1, k)
      BY <1>8
    <3> QED
      BY <3>1, <3>2, ShortlistGrows
  <2> QED
    BY <2>3, <2>4
<1>9. Due(N)
  <2> DEFINE T == {i \in 0 .. N : ~Due(i)}
  <2> HIDE DEF Due
  <2>1. SUFFICES ASSUME T # {}
                 PROVE  FALSE
    BY <1>1
  <2>2. T \in SUBSET Nat
    BY <1>1
  <2>3. PICK i \in T : \A j \in T : i <= j
    <3> HIDE DEF T
    <3> QED
      BY <2>1, <2>2, LeastNumber
  <2>4. i \in 1 .. N /\ ~Due(i)
    BY <1>1, <1>7
  <2>5. Due(i - 1)
    BY <1>1, <2>3, <2>4
  <2> QED
    BY <1>8, <2>4, <2>5
<1> QED
  BY <1>2, <1>9

-----------------------------------------------------------------------------
(* Picking and sorting are listings of positions. *)

Less(S) == {p \in S \X S : p[1] < p[2]}

LEMMA LessOrders ==
    ASSUME NEW S \in SUBSET Int
    PROVE  IsOrder(Less(S), S)
<1>1. \A x, y \in S : <<x, y>> \in Less(S) <=> x < y
  BY DEF Less
<1>2. \A x, y \in S : x # y => <<x, y>> \in Less(S) \/ <<y, x>> \in Less(S)
  BY <1>1
<1>3. \A x, y, z \in S : <<x, y>> \in Less(S) /\ <<y, z>> \in Less(S) => <<x, z>> \in Less(S)
  <2>1. SUFFICES ASSUME NEW x \in S, NEW y \in S, NEW z \in S,
                        <<x, y>> \in Less(S), <<y, z>> \in Less(S)
                 PROVE  <<x, z>> \in Less(S)
    OBVIOUS
  <2>2. x < y /\ y < z
    BY <1>1, <2>1
  <2>3. x < z
    BY <2>2
  <2> QED
    BY <1>1, <2>3
<1> QED
  BY <1>1, <1>2, <1>3 DEF IsOrder

\* u is what s holds at n places, in the order t visits them.
Visits(u, s, t, n) == u = [r \in 1 .. n |-> s[t[r]]]

LEMMA PickedLists ==
    ASSUME NEW s, NEW P, IsFiniteSet(P), \A x \in P : x \in Int
    PROVE  /\ Cardinality(P) \in Nat
           /\ \E t : /\ Lists(t, P, Less(P))
                     /\ Visits(Picked(s, P), s, t, Cardinality(P))
<1> DEFINE N == 1 .. Cardinality(P)
           order == [r \in N |-> CHOOSE x \in P : Cardinality({y \in P : y < x}) = r - 1]
<1>1. IsOrder(Less(P), P)
  BY LessOrders
<1>2. \A x \in P : {y \in P : y < x} = Before(Less(P), P, x)
  BY DEF Before, Less
<1>3. ASSUME NEW r \in N
      PROVE  order[r] \in P /\ Cardinality(Before(Less(P), P, order[r])) = r - 1
  <2>1. PICK x \in P : Cardinality(Before(Less(P), P, x)) = r - 1
    <3> HIDE DEF order
    <3> QED
      BY <1>1, PlacesTaken, SMT
  <2>2. Cardinality({y \in P : y < x}) = r - 1
    <3>1. {y \in P : y < x} = Before(Less(P), P, x)
      BY <1>2
    <3> QED
      BY <2>1, <3>1
  <2>3. order[r] \in P /\ Cardinality({y \in P : y < order[r]}) = r - 1
    BY <2>2
  <2>4. {y \in P : y < order[r]} = Before(Less(P), P, order[r])
    BY <1>2, <2>3
  <2> QED
    BY <2>3, <2>4
<1>4. order = [r \in N |-> order[r]]
  <2> DEFINE e(r) == CHOOSE x \in P : Cardinality({y \in P : y < x}) = r - 1
  <2>1. order = [r \in N |-> e(r)]
    OBVIOUS
  <2> HIDE DEF e, order
  <2> QED
    BY <2>1
<1>5. Picked(s, P) = [r \in DOMAIN order |-> s[order[r]]]
  BY DEF Picked, InOrder
<1>6. DOMAIN order = N
  OBVIOUS
<1> HIDE DEF order
<1>7. Lists(order, P, Less(P))
  BY <1>1, <1>3, <1>4, OrderedLists
<1>8. Visits(Picked(s, P), s, order, Cardinality(P))
  BY <1>5, <1>6 DEF Visits
<1> QED
  BY <1>7, <1>8, FS_CardinalityType

LEMMA StableLists ==
    ASSUME NEW n \in Nat, NEW s, DOMAIN s = 1 .. n,
           NEW keys, \A i \in 1 .. n : keys[i] \in Int
    PROVE  \E t : /\ Lists(t, 1 .. n, KeyOrder(keys, 1 .. n))
                  /\ Visits(StableDescending(s, keys), s, t, n)
<1> DEFINE D == 1 .. n
           R == KeyOrder(keys, D)
           B(x) == {y \in D : keys[y] > keys[x] \/ (keys[y] = keys[x] /\ y < x)}
           order == [r \in 1 .. Cardinality(D) |-> CHOOSE x \in D : Cardinality(B(x)) = r - 1]
<1>0. IsFiniteSet(D)
  BY FS_Interval
<1>1. Cardinality(D) = n
  BY FS_Interval
<1>2. IsOrder(R, D)
  <2>1. D \in SUBSET Int
    OBVIOUS
  <2> HIDE DEF D
  <2> QED
    BY <2>1, KeysOrder DEF D
<1>3. \A x \in D : B(x) = Before(R, D, x)
  <2> HIDE DEF D
  <2> QED
    BY DEF KeyOrder, Before
<1>4. Visits(StableDescending(s, keys), s, order, n)
  BY DEF StableDescending, InOrder, Visits
<1>5. ASSUME NEW r \in 1 .. Cardinality(D)
      PROVE  order[r] \in D /\ Cardinality(Before(R, D, order[r])) = r - 1
  <2> HIDE DEF D, R, B
  <2>1. \E x \in D : Cardinality(B(x)) = r - 1
    <3>1. PICK x \in D : Cardinality(Before(R, D, x)) = r - 1
      <4> HIDE DEF order
      <4> QED
        BY <1>0, <1>2, PlacesTaken, SMT
    <3>2. B(x) = Before(R, D, x)
      BY <1>3
    <3> QED
      BY <3>1, <3>2
  <2>2. order[r] \in D /\ Cardinality(B(order[r])) = r - 1
    BY <2>1
  <2> QED
    BY <1>3, <2>2
<1>6. order = [r \in 1 .. Cardinality(D) |-> order[r]]
  <2> HIDE DEF D, B
  <2> QED
    OBVIOUS
<1> HIDE DEF order
<1>7. Lists(order, D, R)
  <2> HIDE DEF D, R
  <2> QED
    BY <1>0, <1>2, <1>5, <1>6, OrderedLists
<1> QED
  BY <1>4, <1>7

-----------------------------------------------------------------------------
(* Sums over finite sets. *)

\* Of a nonempty set of integers with a lower bound one is the least, and with
\* an upper bound one is the greatest.
LEMMA LeastInteger ==
    ASSUME NEW T \in SUBSET Int, T # {}, NEW bound \in Int, \A n \in T : bound <= n
    PROVE  \E n \in T : \A m \in T : n <= m
<1> DEFINE Above == {n - bound : n \in T}
<1>1. Above \in SUBSET Nat /\ Above # {}
  <2>1. \A n \in T : n - bound \in Nat
    OBVIOUS
  <2> QED
    BY <2>1
<1>2. PICK d \in Above : \A e \in Above : d <= e
  <2> HIDE DEF Above
  <2> QED
    BY <1>1, LeastNumber
<1>3. PICK n \in T : d = n - bound
  BY <1>2
<1>4. ASSUME NEW m \in T
      PROVE  n <= m
  <2>1. d <= m - bound
    BY <1>2
  <2> QED
    BY <1>3, <2>1
<1> QED
  BY <1>4

LEMMA GreatestInteger ==
    ASSUME NEW T \in SUBSET Int, T # {}, NEW bound \in Int, \A n \in T : n <= bound
    PROVE  \E n \in T : \A m \in T : m <= n
<1> DEFINE Below == {0 - n : n \in T}
           low == 0 - bound
<1>1. Below \in SUBSET Int /\ Below # {} /\ low \in Int /\ \A n \in Below : low <= n
  <2>1. \A n \in T : 0 - n \in Int /\ 0 - bound <= 0 - n
    OBVIOUS
  <2>2. Below # {}
    OBVIOUS
  <2>3. Below \in SUBSET Int /\ \A n \in Below : low <= n
    BY <2>1
  <2> QED
    BY <2>2, <2>3
<1>2. PICK d \in Below : \A e \in Below : d <= e
  <2> HIDE DEF Below, low
  <2> QED
    BY <1>1, LeastInteger
<1>3. PICK n \in T : d = 0 - n
  BY <1>2
<1>4. ASSUME NEW m \in T
      PROVE  m <= n
  <2>1. d <= 0 - m
    BY <1>2
  <2> QED
    BY <1>3, <2>1
<1> QED
  BY <1>4

AnyOf(s) == CHOOSE x \in s : TRUE

\* Induction over the subsets of a finite set.
LEMMA SubsetInduction ==
    ASSUME NEW S, IsFiniteSet(S), NEW Good, {} \in Good,
           \A s \in SUBSET S : s # {} /\ s \ {AnyOf(s)} \in Good => s \in Good
    PROVE  \A s \in SUBSET S : s \in Good
<1> DEFINE T == {Cardinality(s) : s \in {s \in SUBSET S : s \notin Good}}
<1>1. \A s \in SUBSET S : IsFiniteSet(s) /\ Cardinality(s) \in Nat
  BY FS_Subset, FS_CardinalityType
<1>2. SUFFICES ASSUME T # {}
               PROVE  FALSE
  OBVIOUS
<1>3. PICK n \in T : \A m \in T : n <= m
  <2>1. T \in SUBSET Nat
    BY <1>1
  <2> HIDE DEF T
  <2> QED
    BY <1>2, <2>1, LeastNumber
<1>4. PICK s \in SUBSET S : s \notin Good /\ Cardinality(s) = n
  BY <1>3
<1> DEFINE x == AnyOf(s)
<1>5. x \in s
  BY <1>4 DEF AnyOf
<1>6. s \ {x} \in SUBSET S /\ s \ {x} \notin Good
  BY <1>4, <1>5
<1> HIDE DEF x
<1>7. Cardinality(s \ {x}) \in T
  BY <1>6
<1>8. Cardinality(s \ {x}) = n - 1 /\ n \in Nat
  BY <1>1, <1>4, <1>5, FS_RemoveElement
<1> QED
  BY <1>3, <1>7, <1>8

\* g adds up w over the subsets of S, one element after the other.
Adds(g, w, S) ==
    /\ g = [s \in SUBSET S |-> g[s]]
    /\ g[{}] = 0
    /\ \A s \in SUBSET S : s # {} => g[s] = w[AnyOf(s)] + g[s \ {AnyOf(s)}]

LEMMA SumsAreNumbers ==
    ASSUME NEW S, IsFiniteSet(S), NEW w, \A x \in S : w[x] \in Int, NEW g, Adds(g, w, S)
    PROVE  \A s \in SUBSET S : g[s] \in Int
<1> DEFINE Good == {s \in SUBSET S : g[s] \in Int}
<1>1. {} \in Good
  BY DEF Adds
<1>2. ASSUME NEW s \in SUBSET S, s # {}, s \ {AnyOf(s)} \in Good
      PROVE  s \in Good
  <2>1. AnyOf(s) \in s
    BY <1>2 DEF AnyOf
  <2>2. g[s] = w[AnyOf(s)] + g[s \ {AnyOf(s)}]
    BY <1>2 DEF Adds
  <2>3. w[AnyOf(s)] \in Int /\ g[s \ {AnyOf(s)}] \in Int
    BY <1>2, <2>1
  <2> QED
    BY <2>2, <2>3
<1>3. \A s \in SUBSET S : s \in Good
  <2> HIDE DEF Good
  <2> QED
    BY <1>1, <1>2, SubsetInduction
<1> QED
  BY <1>3

\* Where k times each term is at most m times another, so it is with the sums.
LEMMA SumsCompare ==
    ASSUME NEW S, IsFiniteSet(S),
           NEW v, \A x \in S : v[x] \in Int, NEW w, \A x \in S : w[x] \in Int,
           NEW k \in Int, NEW m \in Int, \A x \in S : k * w[x] <= m * v[x],
           NEW f, Adds(f, v, S), NEW g, Adds(g, w, S)
    PROVE  \A s \in SUBSET S : k * g[s] <= m * f[s]
<1> DEFINE Good == {s \in SUBSET S : k * g[s] <= m * f[s]}
<1>1. {} \in Good
  BY DEF Adds
<1>2. ASSUME NEW s \in SUBSET S, s # {}, s \ {AnyOf(s)} \in Good
      PROVE  s \in Good
  <2> DEFINE x == AnyOf(s)
             t == s \ {x}
  <2>1. x \in S
    BY <1>2 DEF AnyOf
  <2>2. g[s] = w[x] + g[t] /\ f[s] = v[x] + f[t]
    BY <1>2 DEF Adds
  <2>3. w[x] \in Int /\ g[t] \in Int /\ v[x] \in Int /\ f[t] \in Int
    <3>1. t \in SUBSET S
      OBVIOUS
    <3> HIDE DEF x, t
    <3> QED
      BY <2>1, <3>1, SumsAreNumbers
  <2>4. k * w[x] <= m * v[x] /\ k * g[t] <= m * f[t]
    BY <1>2, <2>1
  <2> HIDE DEF x, t
  <2>5. k * (w[x] + g[t]) = k * w[x] + k * g[t] /\ k * w[x] \in Int /\ k * g[t] \in Int
    BY <2>3
  <2>6. m * (v[x] + f[t]) = m * v[x] + m * f[t] /\ m * v[x] \in Int /\ m * f[t] \in Int
    BY <2>3
  <2>7. k * g[s] <= m * f[s]
    BY <2>2, <2>3, <2>4, <2>5, <2>6
  <2> QED
    BY <2>7
<1>3. \A s \in SUBSET S : s \in Good
  <2> HIDE DEF Good
  <2> QED
    BY <1>1, <1>2, SubsetInduction
<1> QED
  BY <1>3

LEMMA SumsExist ==
    ASSUME NEW S, IsFiniteSet(S), NEW w, \A x \in S : w[x] \in Int
    PROVE  \E g : Adds(g, w, S)
<1> DEFINE N == Cardinality(S)
           Sets == SUBSET S
           Values == [Sets -> Int]
           base == [s \in Sets |-> 0]
           More(g) == [s \in Sets |-> IF s = {} THEN 0 ELSE w[AnyOf(s)] + g[s \ {AnyOf(s)}]]
           step == [p \in Values \X (1 .. N) |-> More(p[1])]
<1>1. N \in Nat /\ \A s \in Sets : IsFiniteSet(s) /\ Cardinality(s) \in 0 .. N
  <2>1. \A s \in Sets : IsFiniteSet(s) /\ Cardinality(s) <= Cardinality(S)
    BY FS_Subset
  <2> QED
    BY <2>1, FS_CardinalityType
<1>2. \A s \in Sets : s # {} => AnyOf(s) \in s /\ AnyOf(s) \in S /\ s \ {AnyOf(s)} \in Sets
  BY DEF AnyOf
<1>3. ASSUME NEW g \in Values
      PROVE  More(g) \in Values
  BY <1>2
<1>4. base \in Values
  OBVIOUS
<1> HIDE DEF N, Sets, Values, base, More
<1>5. step \in [Values \X (1 .. N) -> Values] /\ \A g \in Values, i \in 1 .. N : step[<<g, i>>] = More(g)
  BY <1>3
<1> HIDE DEF step
<1>6. PICK f \in [0 .. N -> Values] : Iterates(f, N, base, step)
  BY <1>1, <1>4, <1>5, Iteration
<1>7. /\ f[0] = base
      /\ \A i \in 1 .. N : f[i] = More(f[i - 1])
  <2>1. ASSUME NEW i \in 1 .. N
        PROVE  f[i] = More(f[i - 1])
    <3>1. f[i - 1] \in Values
      BY <1>1, <1>6
    <3> QED
      BY <1>5, <1>6, <3>1 DEF Iterates
  <2> QED
    BY <1>6, <2>1 DEF Iterates
<1>8. /\ \A s \in Sets : base[s] = 0
      /\ \A g : /\ {} \in Sets => More(g)[{}] = 0
                /\ \A s \in Sets : s # {} => More(g)[s] = w[AnyOf(s)] + g[s \ {AnyOf(s)}]
  BY DEF base, More
<1>9. {} \in Sets
  BY DEF Sets
<1> DEFINE Stable(i) == \A s \in Sets : Cardinality(s) <= i - 1 => f[i][s] = f[i - 1][s]
<1>10. ASSUME NEW s \in Sets, s # {}
       PROVE  Cardinality(s \ {AnyOf(s)}) = Cardinality(s) - 1 /\ Cardinality(s) \in Nat \ {0}
  <2>1. Cardinality(s) # 0 /\ Cardinality(s) \in Nat
    BY <1>1, <1>10, FS_EmptySet
  <2> QED
    BY <1>1, <1>2, <1>10, <2>1, FS_RemoveElement
<1>11. ASSUME NEW i \in 1 .. N, \A j \in 1 .. N : j < i => Stable(j)
       PROVE  Stable(i)
  <2> SUFFICES ASSUME NEW s \in Sets, Cardinality(s) <= i - 1
               PROVE  f[i][s] = f[i - 1][s]
    OBVIOUS
  <2>1. f[i] = More(f[i - 1])
    BY <1>7
  <2>2. CASE s = {}
    <3>1. f[i][s] = 0
      BY <1>8, <1>9, <2>1, <2>2
    <3>2. f[i - 1][s] = 0
      <4>1. CASE i = 1
        BY <1>7, <1>8, <4>1
      <4>2. CASE i # 1
        <5>1. i - 1 \in 1 .. N
          BY <1>1, <4>2
        <5>2. f[i - 1] = More(f[(i - 1) - 1])
          BY <1>7, <5>1
        <5> QED
          BY <1>8, <1>9, <2>2, <5>2
      <4> QED
        BY <4>1, <4>2
    <3> QED
      BY <3>1, <3>2
  <2>3. CASE s # {}
    <3> DEFINE x == AnyOf(s)
               t == s \ {x}
    <3>1. t \in Sets /\ Cardinality(t) = Cardinality(s) - 1 /\ Cardinality(s) \in Nat \ {0}
      BY <1>2, <1>10, <2>3
    <3>2. f[i][s] = w[x] + f[i - 1][t]
      BY <1>8, <2>1, <2>3
    <3>3. i - 1 \in 1 .. N
      BY <1>1, <3>1
    <3>4. f[i - 1] = More(f[(i - 1) - 1])
      BY <1>7, <3>3
    <3>5. f[i - 1][s] = w[x] + f[(i - 1) - 1][t]
      BY <1>8, <2>3, <3>4
    <3>6. f[i - 1][t] = f[(i - 1) - 1][t]
      <4>1. Stable(i - 1)
        BY <1>11, <3>3
      <4>2. Cardinality(t) <= (i - 1) - 1
        <5> HIDE DEF t
        <5> QED
          BY <3>1
      <4> HIDE DEF t
      <4> QED
        BY <3>1, <4>1, <4>2
    <3> QED
      BY <3>2, <3>5, <3>6
  <2> QED
    BY <2>2, <2>3
<1>12. ASSUME NEW i \in 1 .. N
       PROVE  Stable(i)
  <2> DEFINE T == {j \in 1 .. N : ~Stable(j)}
  <2> HIDE DEF Stable
  <2>1. SUFFICES ASSUME T # {}
                 PROVE  FALSE
    OBVIOUS
  <2>2. PICK j \in T : \A m \in T : j <= m
    <3>1. T \in SUBSET Nat
      BY <1>1
    <3> HIDE DEF T
    <3> QED
      BY <2>1, <3>1, LeastNumber
  <2>3. \A m \in 1 .. N : m < j => Stable(m)
    BY <1>1, <2>2
  <2> QED
    BY <1>11, <2>2, <2>3
<1> DEFINE g == f[N]
<1>13. g \in Values
  BY <1>1, <1>6
<1>14. g[{}] = 0
  <2>1. CASE N = 0
    BY <1>7, <1>8, <1>9, <2>1
  <2>2. CASE N # 0
    <3>1. g = More(f[N - 1])
      BY <1>1, <1>7, <2>2
    <3> QED
      BY <1>8, <1>9, <3>1
  <2> QED
    BY <2>1, <2>2
<1>15. ASSUME NEW s \in Sets, s # {}
       PROVE  g[s] = w[AnyOf(s)] + g[s \ {AnyOf(s)}]
  <2> DEFINE t == s \ {AnyOf(s)}
  <2>1. t \in Sets /\ Cardinality(t) = Cardinality(s) - 1 /\ Cardinality(s) \in Nat \ {0}
    BY <1>2, <1>10, <1>15
  <2>2. Cardinality(s) <= N /\ N \in 1 .. N
    BY <1>1, <2>1
  <2>3. g[s] = w[AnyOf(s)] + f[N - 1][t]
    BY <1>7, <1>8, <1>15, <2>2
  <2>4. Cardinality(t) <= N - 1
    <3> HIDE DEF t
    <3> QED
      BY <1>1, <2>1, <2>2
  <2>5. f[N][t] = f[N - 1][t]
    <3> HIDE DEF t
    <3> QED
      BY <1>12, <2>1, <2>2, <2>4
  <2> QED
    BY <2>3, <2>5
<1>16. g = [s \in Sets |-> g[s]]
  <2> HIDE DEF g
  <2> QED
    BY <1>13 DEF Values
<1> HIDE DEF g
<1>17. Adds(g, w, S)
  BY <1>14, <1>15, <1>16 DEF Adds, Sets
<1> QED
  BY <1>17

-----------------------------------------------------------------------------
(* Orderings of known length. *)

\* x runs through S, upwards in R, in n places.
Orders(x, n, S, R) ==
    /\ n \in Nat
    /\ x \in [1 .. n -> S]
    /\ \A q, r \in 1 .. n : q < r => <<x[q], x[r]>> \in R
    /\ \A e \in S : \E r \in 1 .. n : x[r] = e

LEMMA OrdersLists ==
    ASSUME NEW S, IsFiniteSet(S), NEW R, IsOrder(R, S), NEW x, NEW n, Orders(x, n, S, R)
    PROVE  n = Cardinality(S) /\ Lists(x, S, R)
<1>1. Leads(x, n, S, R) /\ n \in Nat
  BY DEF Orders, Leads
<1>2. \A q, r \in 1 .. n : x[q] = x[r] => q = r
  BY <1>1, LeadersInPlace
<1>3. x \in Bijection(1 .. n, S)
  BY <1>2 DEF Orders, Bijection, Injection, Surjection, IsInjective
<1>4. Cardinality(S) = n
  <2>1. ExistsBijection(1 .. n, S)
    BY <1>3 DEF ExistsBijection
  <2> QED
    BY <1>1, <2>1, FS_CountingElements
<1> QED
  BY <1>4 DEF Orders, Lists

LEMMA ListsOrders ==
    ASSUME NEW S, IsFiniteSet(S), NEW R, IsOrder(R, S), NEW x, Lists(x, S, R)
    PROVE  Orders(x, Cardinality(S), S, R)
<1>1. \A e \in S : \E r \in 1 .. Cardinality(S) : x[r] = e
  BY ListedInPlace
<1> QED
  BY <1>1, FS_CardinalityType DEF Orders, Lists

LEMMA OrdersAgree ==
    ASSUME NEW S, IsFiniteSet(S), NEW R, IsOrder(R, S),
           NEW x, NEW m, Orders(x, m, S, R), NEW y, NEW n, Orders(y, n, S, R)
    PROVE  m = n /\ x = y
<1>1. m = n /\ Lists(x, S, R) /\ Lists(y, S, R)
  BY OrdersLists
<1> QED
  BY <1>1, OneListing

\* x runs through S without repeating itself, never upwards in its keys.
Descends(x, n, S, keys) ==
    /\ n \in Nat
    /\ x \in [1 .. n -> S]
    /\ \A q, r \in 1 .. n : x[q] = x[r] => q = r
    /\ \A q, r \in 1 .. n : q < r => keys[x[q]] >= keys[x[r]]
    /\ \A e \in S : \E r \in 1 .. n : x[r] = e

LEMMA DescentIsAsLong ==
    ASSUME NEW S, IsFiniteSet(S), NEW keys, NEW x, NEW n, Descends(x, n, S, keys)
    PROVE  Cardinality(S) = n
<1>1. x \in Bijection(1 .. n, S)
  BY DEF Descends, Bijection, Injection, Surjection, IsInjective
<1>2. ExistsBijection(1 .. n, S) /\ n \in Nat
  BY <1>1 DEF ExistsBijection, Descends
<1> QED
  BY <1>2, FS_CountingElements

LEMMA DescentIsNoHigher ==
    ASSUME NEW S, NEW keys, \A e \in S : keys[e] \in Int,
           NEW n, NEW x, Descends(x, n, S, keys), NEW y, Descends(y, n, S, keys),
           NEW r \in 1 .. n
    PROVE  keys[x[r]] <= keys[y[r]]
<1> DEFINE k == r - 1
<1>1. n \in Nat /\ x \in [1 .. n -> S] /\ y \in [1 .. n -> S] /\ k \in Nat /\ r = k + 1
  BY DEF Descends
<1>2. keys[x[r]] \in Int /\ keys[y[r]] \in Int
  BY <1>1
<1>3. SUFFICES ASSUME keys[x[r]] > keys[y[r]]
               PROVE  FALSE
  BY <1>2
<1>4. ASSUME NEW q \in 1 .. r
      PROVE  \E p \in 1 .. k : y[p] = x[q]
  <2>1. q \in 1 .. n
    BY <1>1
  <2>2. PICK p \in 1 .. n : y[p] = x[q]
    BY <1>1, <2>1 DEF Descends
  <2>3. keys[x[q]] >= keys[x[r]] /\ keys[x[q]] \in Int
    <3>1. CASE q = r
      BY <1>2, <3>1
    <3>2. CASE q < r
      BY <1>1, <2>1, <3>2 DEF Descends
    <3> QED
      BY <2>1, <3>1, <3>2
  <2>4. ASSUME r <= p
        PROVE  FALSE
    <3>1. keys[y[p]] <= keys[y[r]] /\ keys[y[p]] \in Int
      <4>1. CASE p = r
        BY <1>2, <4>1
      <4>2. CASE r < p
        <5>1. keys[y[r]] >= keys[y[p]]
          BY <4>2 DEF Descends
        <5>2. keys[y[p]] \in Int
          BY <1>1
        <5> QED
          BY <1>2, <5>1, <5>2
      <4> QED
        BY <2>4, <4>1, <4>2
    <3> QED
      BY <1>2, <1>3, <2>2, <2>3, <3>1
  <2>5. p \in 1 .. k
    BY <1>1, <2>4
  <2> QED
    BY <2>2, <2>5
<1> DEFINE f == [q \in 1 .. r |-> CHOOSE p \in 1 .. k : y[p] = x[q]]
<1>5. \A q \in 1 .. r : f[q] \in 1 .. k /\ y[f[q]] = x[q]
  BY <1>4
<1>6. \A p, q \in 1 .. r : f[p] = f[q] => p = q
  <2> SUFFICES ASSUME NEW p \in 1 .. r, NEW q \in 1 .. r, f[p] = f[q]
               PROVE  p = q
    OBVIOUS
  <2>1. x[p] = x[q]
    <3> HIDE DEF f
    <3> QED
      BY <1>5
  <2>2. p \in 1 .. n /\ q \in 1 .. n
    BY <1>1
  <2> QED
    BY <2>1, <2>2 DEF Descends
<1>7. f \in [1 .. r -> 1 .. k]
  BY <1>5
<1> HIDE DEF f
<1>8. f \in Injection(1 .. r, 1 .. k)
  BY <1>6, <1>7 DEF Injection, IsInjective
<1>9. Cardinality(1 .. r) <= Cardinality(1 .. k) /\ Cardinality(1 .. r) = r /\ Cardinality(1 .. k) = k
  <2>1. IsFiniteSet(1 .. k) /\ Cardinality(1 .. k) = k /\ Cardinality(1 .. r) = r
    BY <1>1, FS_Interval
  <2> HIDE DEF k
  <2> QED
    BY <1>8, <2>1, FS_Injection
<1> QED
  BY <1>1, <1>9

\* Two descents of a set meet the same keys in the same places.
LEMMA DescentsAgree ==
    ASSUME NEW S, IsFiniteSet(S), NEW keys, \A e \in S : keys[e] \in Int,
           NEW m, NEW x, Descends(x, m, S, keys), NEW n, NEW y, Descends(y, n, S, keys)
    PROVE  m = n /\ \A r \in 1 .. n : keys[x[r]] = keys[y[r]]
<1>1. m = n
  BY DescentIsAsLong
<1>2. ASSUME NEW r \in 1 .. n
      PROVE  keys[x[r]] = keys[y[r]]
  <2>1. keys[x[r]] <= keys[y[r]] /\ keys[y[r]] <= keys[x[r]]
    BY <1>1, DescentIsNoHigher
  <2>2. keys[x[r]] \in Int /\ keys[y[r]] \in Int
    BY <1>1 DEF Descends
  <2> QED
    BY <2>1, <2>2
<1> QED
  BY <1>1, <1>2

-----------------------------------------------------------------------------
(* What a shortlist is answered as. *)

LEMMA TruncatedVisits ==
    ASSUME NEW n \in Nat, NEW k \in Nat, NEW s, NEW t, NEW u, Visits(u, s, t, n)
    PROVE  Visits(Truncated(u, k), s, t, AtMost(n, k))
<1>1. u = [r \in 1 .. n |-> s[t[r]]]
  BY DEF Visits
<1>2. Len(u) = n
  BY <1>1
<1>3. CASE n > k
  <2>1. Truncated(u, k) = SubSeq(u, 1, k) /\ AtMost(n, k) = k
    BY <1>2, <1>3 DEF Truncated, AtMost
  <2>2. SubSeq(u, 1, k) = [r \in 1 .. k |-> u[r]]
    <3> DEFINE E == {u[r] : r \in 1 .. n}
    <3>1. u \in [1 .. n -> E]
      BY <1>1
    <3>2. u \in Seq(E)
      <4> HIDE DEF E
      <4> QED
        BY <3>1, FunctionIsSequence
    <3> HIDE DEF E
    <3> QED
      BY <1>2, <1>3, <3>2
  <2>3. \A r \in 1 .. k : u[r] = s[t[r]]
    BY <1>1, <1>3
  <2>4. SubSeq(u, 1, k) = [r \in 1 .. k |-> s[t[r]]]
    BY <2>2, <2>3, Zenon
  <2> QED
    BY <2>1, <2>4 DEF Visits
<1>4. CASE ~(n > k)
  BY <1>1, <1>2, <1>4 DEF Truncated, AtMost, Visits
<1> QED
  BY <1>3, <1>4

LEMMA VisitsCompose ==
    ASSUME NEW s, NEW t, NEW m, NEW u, Visits(u, s, t, m),
           NEW p, NEW n, NEW v, Visits(v, u, p, n),
           NEW x, \A r \in 1 .. n : p[r] \in 1 .. m /\ x[r] = t[p[r]]
    PROVE  Visits(v, s, x, n)
<1>1. \A r \in 1 .. n : u[p[r]] = s[x[r]]
  BY DEF Visits
<1>2. v = [r \in 1 .. n |-> u[p[r]]]
  BY DEF Visits
<1>3. v = [r \in 1 .. n |-> s[x[r]]]
  BY <1>1, <1>2, Zenon
<1> QED
  BY <1>3 DEF Visits

\* x runs through the places a that t visits and the filter lets pass, by
\* falling scores, equals in the order in which t visits them.
Ranking(x, c, scored, t, m, sources) ==
    /\ c \in Nat
    /\ \A r \in 1 .. c : \E a \in 1 .. m : x[r] = t[a] /\ Eligible(scored[t[a]], sources)
    /\ \A a \in 1 .. m : Eligible(scored[t[a]], sources) => \E r \in 1 .. c : x[r] = t[a]
    /\ \A q, r \in 1 .. c : q < r =>
          \/ Score(scored[x[q]], sources) > Score(scored[x[r]], sources)
          \/ /\ Score(scored[x[q]], sources) = Score(scored[x[r]], sources)
             /\ \E a, b \in 1 .. m : a < b /\ x[q] = t[a] /\ x[r] = t[b]

LEMMA RankedRanks ==
    ASSUME NEW scored, NEW m \in Nat, NEW t, NEW best, Visits(best, scored, t, m),
           NEW sources,
           \A a \in 1 .. m : Eligible(scored[t[a]], sources)
                                => Score(scored[t[a]], sources) \in Int,
           NEW k \in Nat
    PROVE  \E c, x : /\ Ranking(x, c, scored, t, m, sources)
                     /\ Visits(Ranked(best, sources, k), scored, x, AtMost(c, k))
<1> DEFINE P == {i \in DOMAIN best : Eligible(best[i], sources)}
           close == Picked(best, P)
           scores == [i \in DOMAIN close |-> Score(close[i], sources)]
           c == Cardinality(P)
           sorted == StableDescending(close, scores)
<1>1. DOMAIN best = 1 .. m /\ \A a \in 1 .. m : best[a] = scored[t[a]]
  BY DEF Visits
<1>2. IsFiniteSet(P) /\ \A i \in P : i \in Int
  <2>1. IsFiniteSet(1 .. m)
    BY FS_Interval
  <2> QED
    BY <1>1, <2>1, FS_Subset
<1>3. Ranked(best, sources, k) = Truncated(sorted, k)
  BY DEF Ranked
<1>4. \A a \in 1 .. m : Eligible(scored[t[a]], sources) <=> a \in P
  BY <1>1
<1>5. P \subseteq 1 .. m
  BY <1>1
<1> HIDE DEF P
<1>6. PICK p : Lists(p, P, Less(P)) /\ Visits(close, best, p, c)
  BY <1>2, PickedLists
<1>7. c \in Nat /\ p \in [1 .. c -> P] /\ \A q, r \in 1 .. c : q < r => p[q] < p[r]
  BY <1>2, <1>6, FS_CardinalityType DEF Lists, Less
<1>8. \A a \in P : \E r \in 1 .. c : p[r] = a
  <2>1. P \in SUBSET Int
    BY <1>2
  <2>2. IsOrder(Less(P), P)
    BY <2>1, LessOrders
  <2> QED
    BY <1>2, <1>6, <2>2, ListedInPlace
<1> HIDE DEF close, c
<1>9. DOMAIN close = 1 .. c /\ \A r \in 1 .. c : close[r] = scored[t[p[r]]]
  <2>1. close = [r \in 1 .. c |-> best[p[r]]]
    BY <1>6 DEF Visits
  <2>2. \A r \in 1 .. c : p[r] \in 1 .. m
    BY <1>5, <1>7
  <2> QED
    BY <1>1, <2>1, <2>2
<1>10. \A i \in 1 .. c : scores[i] = Score(scored[t[p[i]]], sources) /\ scores[i] \in Int
  BY <1>4, <1>5, <1>7, <1>9
<1> HIDE DEF scores
<1>11. PICK o : Lists(o, 1 .. c, KeyOrder(scores, 1 .. c)) /\ Visits(sorted, close, o, c)
  BY <1>7, <1>9, <1>10, StableLists
<1> DEFINE x == [r \in 1 .. c |-> t[p[o[r]]]]
<1>12. IsFiniteSet(1 .. c) /\ Cardinality(1 .. c) = c /\ IsOrder(KeyOrder(scores, 1 .. c), 1 .. c)
  <2>1. 1 .. c \in SUBSET Int
    BY <1>7
  <2>2. IsOrder(KeyOrder(scores, 1 .. c), 1 .. c)
    BY <1>10, <2>1, KeysOrder
  <2> QED
    BY <1>7, <2>2, FS_Interval
<1>13. /\ o \in [1 .. c -> 1 .. c]
       /\ \A q, r \in 1 .. c : q < r => <<o[q], o[r]>> \in KeyOrder(scores, 1 .. c)
  BY <1>11, <1>12 DEF Lists
<1>14. \A i \in 1 .. c : \E r \in 1 .. c : o[r] = i
  <2> DEFINE D == 1 .. c
             R == KeyOrder(scores, 1 .. c)
  <2>1. IsFiniteSet(D) /\ IsOrder(R, D) /\ Lists(o, D, R)
    BY <1>11, <1>12
  <2> HIDE DEF D, R
  <2>2. \A i \in D : \E r \in 1 .. Cardinality(D) : o[r] = i
    BY <2>1, ListedInPlace
  <2> QED
    BY <1>12, <2>2 DEF D
<1>15. \A r \in 1 .. c : x[r] = t[p[o[r]]] /\ o[r] \in 1 .. c /\ p[o[r]] \in P /\ p[o[r]] \in 1 .. m
  BY <1>5, <1>7, <1>13
<1> HIDE DEF x
<1>16. Visits(sorted, scored, x, c)
  <2> DEFINE y == [r \in 1 .. c |-> t[p[r]]]
  <2>1. \A r \in 1 .. c : p[r] \in 1 .. m /\ y[r] = t[p[r]]
    BY <1>5, <1>7
  <2> HIDE DEF y
  <2>2. Visits(close, scored, y, c)
    BY <1>6, <2>1, VisitsCompose
  <2>3. \A r \in 1 .. c : o[r] \in 1 .. c /\ x[r] = y[o[r]]
    BY <1>15, <2>1
  <2> QED
    BY <1>11, <2>2, <2>3, VisitsCompose
<1>17. Visits(Truncated(sorted, k), scored, x, AtMost(c, k))
  <2> HIDE DEF sorted
  <2> QED
    BY <1>7, <1>16, TruncatedVisits
<1>18. ASSUME NEW a \in 1 .. m, Eligible(scored[t[a]], sources)
       PROVE  \E r \in 1 .. c : x[r] = t[a]
  <2>1. PICK i \in 1 .. c : p[i] = a
    BY <1>4, <1>8, <1>18
  <2>2. PICK r \in 1 .. c : o[r] = i
    BY <1>14
  <2> QED
    BY <1>15, <2>1, <2>2
<1>19. ASSUME NEW q \in 1 .. c, NEW r \in 1 .. c, q < r
       PROVE  \/ Score(scored[x[q]], sources) > Score(scored[x[r]], sources)
              \/ /\ Score(scored[x[q]], sources) = Score(scored[x[r]], sources)
                 /\ \E a, b \in 1 .. m : a < b /\ x[q] = t[a] /\ x[r] = t[b]
  <2>1. \/ scores[o[q]] > scores[o[r]]
        \/ scores[o[q]] = scores[o[r]] /\ o[q] < o[r]
    BY <1>13, <1>19 DEF KeyOrder
  <2>2. /\ scores[o[q]] = Score(scored[x[q]], sources)
        /\ scores[o[r]] = Score(scored[x[r]], sources)
    BY <1>10, <1>15
  <2>3. o[q] < o[r] => p[o[q]] < p[o[r]]
    BY <1>7, <1>15
  <2> QED
    BY <1>15, <2>1, <2>2, <2>3
<1>20. Ranking(x, c, scored, t, m, sources)
  BY <1>4, <1>7, <1>15, <1>18, <1>19 DEF Ranking
<1> QED
  BY <1>3, <1>17, <1>20

-----------------------------------------------------------------------------
(* Scores are cosines in hundredths. *)

LEMMA SquareIsNat ==
    ASSUME NEW x \in Int
    PROVE  x * x \in Nat
<1>1. CASE x >= 0 BY <1>1
<1>2. CASE x < 0
  <2>1. x * x = (-x) * (-x) /\ -x \in Nat
    BY <1>2
  <2> QED
    BY <2>1
<1> QED
  BY <1>1, <1>2

Terms(a, b) == [i \in DOMAIN a |-> a[i] * b[i]]

\* A dot product is the sum of its terms.
LEMMA DotAdds ==
    ASSUME NEW a \in Seq(Int), NEW b \in Seq(Int), Len(a) = Len(b)
    PROVE  \E g : Adds(g, Terms(a, b), DOMAIN a) /\ Dot(a, b) = g[DOMAIN a]
<1> DEFINE S == DOMAIN a
           w == Terms(a, b)
           iter == CHOOSE iter : iter = [s \in SUBSET S |->
                       IF s = {} THEN 0
                       ELSE a[AnyOf(s)] * b[AnyOf(s)] + iter[s \ {AnyOf(s)}]]
<1>1. Dot(a, b) = iter[S]
  BY DEF Dot, MapThenSumSet, MapThenFoldSet, AnyOf
<1>2. \A s \in SUBSET S : s # {} => AnyOf(s) \in S
  BY DEF AnyOf
<1>3. IsFiniteSet(S)
  <2>1. S = 1 .. Len(a) /\ Len(a) \in Nat
    OBVIOUS
  <2> QED
    BY <2>1, FS_Interval
<1>4. \A i \in S : w[i] = a[i] * b[i] /\ w[i] \in Int
  BY DEF Terms
<1> HIDE DEF S, w
<1>5. PICK g : Adds(g, w, S)
  BY <1>3, <1>4, SumsExist
<1>6. g = [s \in SUBSET S |->
              IF s = {} THEN 0 ELSE a[AnyOf(s)] * b[AnyOf(s)] + g[s \ {AnyOf(s)}]]
  <2>1. ASSUME NEW s \in SUBSET S
        PROVE  g[s] = IF s = {} THEN 0 ELSE a[AnyOf(s)] * b[AnyOf(s)] + g[s \ {AnyOf(s)}]
    BY <1>2, <1>4, <1>5 DEF Adds
  <2>2. g = [s \in SUBSET S |-> g[s]]
    BY <1>5 DEF Adds
  <2> QED
    BY <2>1, <2>2, Zenon
<1>7. iter = [s \in SUBSET S |->
                 IF s = {} THEN 0 ELSE a[AnyOf(s)] * b[AnyOf(s)] + iter[s \ {AnyOf(s)}]]
  BY <1>6, Zenon
<1> HIDE DEF iter
<1>8. Adds(iter, w, S)
  <2>1. ASSUME NEW s \in SUBSET S
        PROVE  iter[s] = IF s = {} THEN 0 ELSE w[AnyOf(s)] + iter[s \ {AnyOf(s)}]
    <3>1. iter[s] = IF s = {} THEN 0 ELSE a[AnyOf(s)] * b[AnyOf(s)] + iter[s \ {AnyOf(s)}]
      BY <1>7, Zenon
    <3> QED
      BY <1>2, <1>4, <3>1
  <2>2. iter = [s \in SUBSET S |-> iter[s]]
    <3> DEFINE e(s) == IF s = {} THEN 0
                       ELSE a[AnyOf(s)] * b[AnyOf(s)] + iter[s \ {AnyOf(s)}]
    <3>1. iter = [s \in SUBSET S |-> e(s)]
      BY <1>7, Zenon
    <3> HIDE DEF e
    <3> QED
      BY <3>1
  <2> QED
    BY <2>1, <2>2 DEF Adds
<1> QED
  BY <1>1, <1>8 DEF S, w

LEMMA DotIsNumber ==
    ASSUME NEW a \in Seq(Int), NEW b \in Seq(Int), Len(a) = Len(b)
    PROVE  Dot(a, b) \in Int
<1> DEFINE S == DOMAIN a
           w == Terms(a, b)
<1>1. PICK g : Adds(g, w, S) /\ Dot(a, b) = g[S]
  BY DotAdds
<1>2. IsFiniteSet(S) /\ \A i \in S : w[i] \in Int
  <2>1. S = 1 .. Len(a) /\ Len(a) \in Nat
    OBVIOUS
  <2>2. \A i \in S : a[i] \in Int /\ b[i] \in Int
    OBVIOUS
  <2>3. \A i \in S : w[i] = a[i] * b[i]
    BY DEF Terms
  <2> HIDE DEF S, w
  <2>4. ASSUME NEW i \in S
        PROVE  w[i] \in Int
    <3> DEFINE x == a[i]
               y == b[i]
    <3>1. x \in Int /\ y \in Int /\ w[i] = x * y
      BY <2>2, <2>3
    <3> HIDE DEF x, y
    <3> QED
      BY <3>1
  <2> QED
    BY <2>1, <2>4, FS_Interval
<1> HIDE DEF S, w
<1>3. g[S] \in Int
  BY <1>1, <1>2, SumsAreNumbers
<1> QED
  BY <1>1, <1>3

\* size is dot / sqrt(norms) in hundredths, cut, without its sign.
SizeOf(size, dot, norms) ==
    /\ size \in 0 .. 100
    /\ size * size * norms <= 10000 * dot * dot
    /\ size < 100 => (size + 1) * (size + 1) * norms > 10000 * dot * dot

LEMMA HundredthsAre ==
    ASSUME NEW dot \in Int, NEW norms \in Int
    PROVE  \E size : /\ SizeOf(size, dot, norms)
                     /\ Hundredths(dot, norms) = IF dot < 0 THEN -size ELSE size
<1> DEFINE fits(s) == s * s * norms <= 10000 * dot * dot
           T == {s \in 0 .. 100 : fits(s)}
           size == Max(T)
<1>1. 0 \in T
  <2>1. dot * dot \in Nat
    BY SquareIsNat
  <2>2. 10000 * dot * dot = 10000 * (dot * dot)
    OBVIOUS
  <2>3. 0 * 0 * norms = 0
    OBVIOUS
  <2>4. 0 * 0 * norms <= 10000 * dot * dot
    BY <2>1, <2>2, <2>3
  <2> QED
    BY <2>4
<1>2. T \in SUBSET Int /\ T # {} /\ \A s \in T : 0 <= s /\ s <= 100
  <2> HIDE DEF fits
  <2>1. T \subseteq 0 .. 100
    OBVIOUS
  <2> HIDE DEF T
  <2> QED
    BY <1>1, <2>1
<1> HIDE DEF T
<1>3. PICK top \in T : \A s \in T : s <= top
  <2>1. 100 \in Int
    OBVIOUS
  <2> QED
    BY <1>2, <2>1, GreatestInteger
<1>4. size \in T /\ \A s \in T : s <= size
  <2>1. \A s \in T : top >= s
    BY <1>2, <1>3
  <2>2. size \in T /\ \A s \in T : size >= s
    BY <2>1 DEF Max
  <2> QED
    BY <1>2, <2>2
<1>5. Hundredths(dot, norms) = IF dot < 0 THEN -size ELSE size
  BY DEF Hundredths, T
<1> HIDE DEF size
<1>6. size \in 0 .. 100 /\ fits(size)
  BY <1>4 DEF T
<1>7. size < 100 => ~fits(size + 1)
  <2>1. SUFFICES ASSUME size < 100, fits(size + 1)
                 PROVE  FALSE
    OBVIOUS
  <2>2. size + 1 \in 0 .. 100
    BY <1>6, <2>1
  <2>3. size + 1 \in T
    BY <2>1, <2>2 DEF T
  <2> QED
    BY <1>4, <1>6, <2>3
<1>8. size < 100 => (size + 1) * (size + 1) * norms > 10000 * dot * dot
  <2> DEFINE l == (size + 1) * (size + 1) * norms
             r == 10000 * dot * dot
  <2>1. l \in Int /\ r \in Int
    BY <1>6
  <2>2. size < 100 => ~(l <= r)
    BY <1>7
  <2> HIDE DEF l, r
  <2>3. size < 100 => l > r
    BY <2>1, <2>2
  <2> QED
    BY <2>3 DEF l, r
<1>9. SizeOf(size, dot, norms)
  BY <1>6, <1>8 DEF SizeOf
<1> QED
  BY <1>5, <1>9

LEMMA HundredthsBounded ==
    ASSUME NEW dot \in Int, NEW norms \in Int
    PROVE  Hundredths(dot, norms) \in -100 .. 100
<1>1. PICK size : /\ SizeOf(size, dot, norms)
                  /\ Hundredths(dot, norms) = IF dot < 0 THEN -size ELSE size
  BY HundredthsAre
<1>2. size \in 0 .. 100
  BY <1>1 DEF SizeOf
<1> QED
  BY <1>1, <1>2

\* A cosine is NaN, or lies between -1 and 1; and is no NaN without one.
LEMMA CosineBounded ==
    ASSUME NEW a \in Seq(Int), NEW b \in Seq(Int)
    PROVE  /\ CosineSimilarity(a, b) \in -100 .. 100 \cup {NaN}
           /\ ~HasNaN(a) /\ ~HasNaN(b) => CosineSimilarity(a, b) \in -100 .. 100
<1>1. CASE Len(a) # Len(b) \/ a = << >> \/ IsZero(a) \/ IsZero(b)
  BY <1>1 DEF CosineSimilarity
<1>2. CASE ~(Len(a) # Len(b) \/ a = << >> \/ IsZero(a) \/ IsZero(b))
  <2>1. Dot(a, b) \in Int /\ Dot(a, a) \in Int /\ Dot(b, b) \in Int
    BY <1>2, DotIsNumber
  <2>2. Dot(a, a) * Dot(b, b) \in Int
    BY <2>1
  <2>3. Hundredths(Dot(a, b), Dot(a, a) * Dot(b, b)) \in -100 .. 100
    BY <2>1, <2>2, HundredthsBounded
  <2> QED
    BY <1>2, <2>3 DEF CosineSimilarity
<1> QED
  BY <1>1, <1>2

LEMMA FiniteHasGreatest ==
    ASSUME NEW S, IsFiniteSet(S), NEW w, \A x \in S : w[x] \in Nat
    PROVE  \E bound \in Nat : \A x \in S : w[x] <= bound
<1> DEFINE Good == {s \in SUBSET S : \E bound \in Nat : \A x \in s : w[x] <= bound}
<1>1. {} \in Good
  OBVIOUS
<1>2. ASSUME NEW s \in SUBSET S, s # {}, s \ {AnyOf(s)} \in Good
      PROVE  s \in Good
  <2>1. AnyOf(s) \in S
    BY <1>2 DEF AnyOf
  <2>2. PICK bound \in Nat : \A x \in s \ {AnyOf(s)} : w[x] <= bound
    BY <1>2
  <2>3. w[AnyOf(s)] + bound \in Nat /\ \A x \in s : w[x] <= w[AnyOf(s)] + bound
    BY <2>1, <2>2
  <2> QED
    BY <2>3
<1>3. S \in Good
  <2> HIDE DEF Good
  <2> QED
    BY <1>1, <1>2, SubsetInduction
<1> QED
  BY <1>3

LEMMA PeakIsNat ==
    ASSUME NEW vector \in Seq(Int)
    PROVE  Peak(vector) \in Nat
<1> DEFINE D == {j \in DOMAIN vector : vector[j] # NaN}
           w == [j \in D |-> Magnitude(vector[j])]
           T == {0} \cup {Magnitude(vector[i]) : i \in D}
<1>1. \A j \in D : w[j] = Magnitude(vector[j]) /\ w[j] \in Nat
  BY DEF Magnitude
<1>2. IsFiniteSet(D)
  <2>1. DOMAIN vector = 1 .. Len(vector) /\ Len(vector) \in Nat
    OBVIOUS
  <2>2. IsFiniteSet(DOMAIN vector)
    BY <2>1, FS_Interval
  <2> QED
    BY <2>2, FS_Subset
<1>3. Peak(vector) = Max(T)
  BY DEF Peak
<1> HIDE DEF D, w
<1>4. PICK bound \in Nat : \A j \in D : w[j] <= bound
  BY <1>1, <1>2, FiniteHasGreatest
<1>5. T \in SUBSET Nat /\ T # {} /\ \A n \in T : n <= bound
  BY <1>1, <1>4
<1> HIDE DEF T
<1>6. PICK top \in T : \A n \in T : n <= top
  <2>1. T \in SUBSET Int /\ bound \in Int
    BY <1>5
  <2> QED
    BY <1>5, <2>1, GreatestInteger
<1>7. \A n \in T : top >= n
  BY <1>5, <1>6
<1>8. Max(T) \in T
  BY <1>6, <1>7 DEF Max
<1> QED
  BY <1>3, <1>5, <1>8

\* Codes are numbers, whatever was coded.
LEMMA QuantisedIsClean ==
    ASSUME NEW vector \in Seq(Int)
    PROVE  /\ Quantised(vector) \in Seq(Int)
           /\ ~HasNaN(Quantised(vector))
<1> DEFINE peak == Peak(vector)
<1>1. peak \in Nat
  BY PeakIsNat
<1> HIDE DEF peak
<1>2. ASSUME NEW x \in Int
      PROVE  Code(x, peak) \in -127 .. 127
  <2>1. CASE x = NaN \/ peak = 0
    BY <2>1 DEF Code
  <2>2. CASE ~(x = NaN \/ peak = 0)
    <3> DEFINE quotient == (254 * Magnitude(x) + peak) \div (2 * peak)
               size == AtMost(quotient, 127)
    <3>1. 254 * Magnitude(x) + peak \in Nat /\ 2 * peak \in Nat /\ 2 * peak # 0
      BY <1>1, <2>2 DEF Magnitude
    <3>2. quotient \in Nat
      <4> DEFINE upper == 254 * Magnitude(x) + peak
                 lower == 2 * peak
      <4>1. upper \in Nat /\ lower \in Nat \ {0}
        BY <3>1
      <4> HIDE DEF upper, lower
      <4>2. upper \div lower \in Nat
        BY <4>1
      <4> QED
        BY <4>2 DEF upper, lower
    <3>3. size \in 0 .. 127
      <4> HIDE DEF quotient
      <4> QED
        BY <3>2 DEF AtMost
    <3>4. Code(x, peak) = IF x < 0 THEN -size ELSE size
      BY <2>2 DEF Code
    <3> HIDE DEF size
    <3> QED
      BY <3>3, <3>4
  <2> QED
    BY <2>1, <2>2
<1>3. Quantised(vector) = [i \in 1 .. Len(vector) |-> Code(vector[i], peak)]
  BY DEF Quantised, peak
<1>4. \A i \in 1 .. Len(vector) : Code(vector[i], peak) \in Int /\ Code(vector[i], peak) # NaN
  <2>1. \A i \in 1 .. Len(vector) : vector[i] \in Int
    OBVIOUS
  <2>2. \A y \in -127 .. 127 : y \in Int /\ y # NaN
    BY DEF NaN
  <2> QED
    BY <1>2, <2>1, <2>2
<1>5. Quantised(vector) \in [1 .. Len(vector) -> Int]
  BY <1>3, <1>4
<1>6. Quantised(vector) \in Seq(Int)
  <2>1. Len(vector) \in Nat
    OBVIOUS
  <2> QED
    BY <1>5, <2>1, FunctionIsSequence
<1>7. ~HasNaN(Quantised(vector))
  BY <1>3, <1>4 DEF HasNaN
<1> QED
  BY <1>6, <1>7

\* A score is NaN only where the query holds one, or in the f32 build the
\* vector.
LEMMA ScoresBounded ==
    ASSUME NEW build \in Builds, NEW query \in Seq(Int), NEW vector \in Seq(Int)
    PROVE  /\ ScoreUnder(build, query, vector) \in -100 .. 100 \cup {NaN}
           /\ build = "int8" /\ ~HasNaN(query)
                 => ScoreUnder(build, query, vector) \in -100 .. 100
<1>1. CASE build = "int8"
  <2>1. ScoreUnder(build, query, vector) = CosineSimilarity(query, Quantised(vector))
    BY <1>1 DEF ScoreUnder
  <2> QED
    BY <2>1, QuantisedIsClean, CosineBounded
<1>2. CASE build # "int8"
  <2>1. ScoreUnder(build, query, vector) = CosineSimilarity(query, vector)
    BY <1>2 DEF ScoreUnder
  <2> QED
    BY <1>2, <2>1, CosineBounded
<1> QED
  BY <1>1, <1>2

-----------------------------------------------------------------------------
(* Picking and sorting as orderings of known length. *)

LEMMA PickedRuns ==
    ASSUME NEW n \in Nat, NEW s, NEW P, \A i \in P : i \in 1 .. n
    PROVE  \E c, p : Orders(p, c, P, Less(P)) /\ Visits(Picked(s, P), s, p, c)
<1>1. IsFiniteSet(P) /\ \A i \in P : i \in Int
  <2>1. IsFiniteSet(1 .. n)
    BY FS_Interval
  <2>2. P \subseteq 1 .. n
    OBVIOUS
  <2>3. IsFiniteSet(P)
    BY <2>1, <2>2, FS_Subset
  <2> QED
    BY <2>3
<1>2. IsOrder(Less(P), P)
  <2>1. P \in SUBSET Int
    BY <1>1
  <2> QED
    BY <2>1, LessOrders
<1> DEFINE c == Cardinality(P)
<1>3. PICK p : Lists(p, P, Less(P)) /\ Visits(Picked(s, P), s, p, c)
  BY <1>1, PickedLists
<1>4. Orders(p, c, P, Less(P))
  BY <1>1, <1>2, <1>3, ListsOrders
<1> QED
  BY <1>3, <1>4

LEMMA StableRuns ==
    ASSUME NEW n \in Nat, NEW s, DOMAIN s = 1 .. n,
           NEW keys, \A i \in 1 .. n : keys[i] \in Int
    PROVE  \E o : /\ Orders(o, n, 1 .. n, KeyOrder(keys, 1 .. n))
                  /\ Visits(StableDescending(s, keys), s, o, n)
<1> DEFINE D == 1 .. n
           R == KeyOrder(keys, D)
<1>1. PICK o : Lists(o, D, R) /\ Visits(StableDescending(s, keys), s, o, n)
  BY StableLists
<1>2. IsFiniteSet(D) /\ IsOrder(R, D)
  <2>1. D \in SUBSET Int
    OBVIOUS
  <2>2. IsOrder(R, D)
    BY <2>1, KeysOrder
  <2> QED
    BY <2>2, FS_Interval
<1>3. Cardinality(D) = n
  BY FS_Interval
<1> HIDE DEF D, R
<1>4. Orders(o, Cardinality(D), D, R)
  BY <1>1, <1>2, ListsOrders
<1>5. Orders(o, n, D, R)
  BY <1>3, <1>4
<1> QED
  BY <1>1, <1>5 DEF D, R

\* By falling keys, equals by falling other keys, equals in their own order:
\* what two stable sorts one after the other sort by.
BothKeys(first, second, S) ==
    {p \in S \X S :
        \/ first[p[1]] > first[p[2]]
        \/ /\ first[p[1]] = first[p[2]]
           /\ \/ second[p[1]] > second[p[2]]
              \/ second[p[1]] = second[p[2]] /\ p[1] < p[2]}

LEMMA BothKeysOrder ==
    ASSUME NEW S, \A i \in S : i \in Int, NEW first, NEW second,
           \A i \in S : first[i] \in Int /\ second[i] \in Int
    PROVE  IsOrder(BothKeys(first, second, S), S)
<1> DEFINE R == BothKeys(first, second, S)
<1>1. \A x, y \in S : <<x, y>> \in R <=>
         \/ first[x] > first[y]
         \/ /\ first[x] = first[y]
            /\ \/ second[x] > second[y]
               \/ second[x] = second[y] /\ x < y
  BY DEF BothKeys
<1> HIDE DEF R
<1>2. \A x \in S : <<x, x>> \notin R
  BY <1>1
<1>3. \A x, y \in S : x # y => <<x, y>> \in R \/ <<y, x>> \in R
  BY <1>1
<1>4. ASSUME NEW x \in S, NEW y \in S, NEW z \in S, <<x, y>> \in R, <<y, z>> \in R
      PROVE  <<x, z>> \in R
  BY <1>1, <1>4
<1>5. IsOrder(R, S)
  BY <1>2, <1>3, <1>4 DEF IsOrder
<1> QED
  BY <1>5 DEF R
-----------------------------------------------------------------------------
(* How far from a vector its codes point, and what that costs a score.      *)
(*                                                                         *)
(* Scaled so that both are whole, y = 127 x and z = peak * codes are less   *)
(* than K hundredths of either's length apart.  Where two scores agree in   *)
(* sign, Cauchy and Schwarz in the plane of y and z bounds their distance   *)
(* by K; where they differ, the same for q and z - y does.                  *)

Combines(w, k, u, m, v, S) == \A x \in S : w[x] = k * u[x] + m * v[x]

\* Sums are linear in their terms.
LEMMA SumsCombine ==
    ASSUME NEW S, IsFiniteSet(S),
           NEW u, \A x \in S : u[x] \in Int, NEW v, \A x \in S : v[x] \in Int,
           NEW k \in Int, NEW m \in Int,
           NEW w, Combines(w, k, u, m, v, S),
           NEW e, Adds(e, u, S), NEW f, Adds(f, v, S), NEW g, Adds(g, w, S)
    PROVE  Combines(g, k, e, m, f, {S})
<1> DEFINE Good == {s \in SUBSET S : g[s] = k * e[s] + m * f[s]}
<1>1. {} \in Good
  BY DEF Adds
<1>2. ASSUME NEW s \in SUBSET S, s # {}, s \ {AnyOf(s)} \in Good
      PROVE  s \in Good
  <2> DEFINE x == AnyOf(s)
             r == s \ {x}
  <2>1. x \in S /\ r \in SUBSET S
    BY <1>2 DEF AnyOf
  <2>2. g[s] = w[x] + g[r] /\ e[s] = u[x] + e[r] /\ f[s] = v[x] + f[r]
    BY <1>2 DEF Adds
  <2>3. e[r] \in Int /\ f[r] \in Int
    <3> HIDE DEF r
    <3> QED
      BY <2>1, SumsAreNumbers
  <2>4. g[r] = k * e[r] + m * f[r] /\ w[x] = k * u[x] + m * v[x]
    BY <1>2, <2>1 DEF Combines
  <2>5. u[x] \in Int /\ v[x] \in Int
    BY <2>1
  <2> DEFINE p1 == u[x]
             p2 == e[r]
             q1 == v[x]
             q2 == f[r]
  <2> HIDE DEF x, r
  <2>6. k * (p1 + p2) = k * p1 + k * p2 /\ m * (q1 + q2) = m * q1 + m * q2
    <3>1. p1 \in Int /\ p2 \in Int /\ q1 \in Int /\ q2 \in Int
      BY <2>3, <2>5
    <3> HIDE DEF p1, p2, q1, q2
    <3> QED
      BY <3>1
  <2>7. g[s] = k * (p1 + p2) + m * (q1 + q2)
    <3>1. k * p1 \in Int /\ k * p2 \in Int /\ m * q1 \in Int /\ m * q2 \in Int
      BY <2>3, <2>5
    <3> QED
      BY <2>2, <2>4, <2>6, <3>1
  <2> QED
    BY <2>2, <2>7
<1>3. \A s \in SUBSET S : s \in Good
  <2> HIDE DEF Good
  <2> QED
    BY <1>1, <1>2, SubsetInduction
<1> QED
  BY <1>3 DEF Combines

\* No term of a sum of naturals exceeds it.
LEMMA SumsHold ==
    ASSUME NEW S, IsFiniteSet(S), NEW w, \A x \in S : w[x] \in Nat,
           NEW g, Adds(g, w, S), NEW t \in S
    PROVE  w[t] <= g[S]
<1> DEFINE Good == {s \in SUBSET S : g[s] \in Nat /\ (t \in s => w[t] <= g[s])}
<1>1. {} \in Good
  BY DEF Adds
<1>2. ASSUME NEW s \in SUBSET S, s # {}, s \ {AnyOf(s)} \in Good
      PROVE  s \in Good
  <2> DEFINE x == AnyOf(s)
             r == s \ {x}
  <2>1. x \in s /\ x \in S /\ r \in SUBSET S
    BY <1>2 DEF AnyOf
  <2>2. g[s] = w[x] + g[r]
    BY <1>2 DEF Adds
  <2>3. w[x] \in Nat /\ g[r] \in Nat /\ (t \in r => w[t] <= g[r])
    BY <1>2, <2>1
  <2>4. t \in s => t = x \/ t \in r
    OBVIOUS
  <2> HIDE DEF x, r
  <2> QED
    BY <2>2, <2>3, <2>4
<1>3. \A s \in SUBSET S : s \in Good
  <2> HIDE DEF Good
  <2> QED
    BY <1>1, <1>2, SubsetInduction
<1> QED
  BY <1>3

\* A sum is at most as many times its greatest term.
LEMMA SumsBounded ==
    ASSUME NEW S, IsFiniteSet(S), NEW w, \A x \in S : w[x] \in Int,
           NEW m \in Int, NEW k \in Int, \A x \in S : k * w[x] <= m, NEW g, Adds(g, w, S)
    PROVE  k * g[S] <= Cardinality(S) * m
<1> DEFINE Good == {s \in SUBSET S : k * g[s] <= Cardinality(s) * m}
<1>1. {} \in Good
  BY FS_EmptySet DEF Adds
<1>2. ASSUME NEW s \in SUBSET S, s # {}, s \ {AnyOf(s)} \in Good
      PROVE  s \in Good
  <2> DEFINE x == AnyOf(s)
             r == s \ {x}
             c == Cardinality(r)
  <2>1. x \in s /\ x \in S /\ r \in SUBSET S
    BY <1>2 DEF AnyOf
  <2>2. g[s] = w[x] + g[r]
    BY <1>2 DEF Adds
  <2>3. w[x] \in Int /\ g[r] \in Int /\ k * w[x] <= m /\ k * g[r] <= c * m
    <3>1. g[r] \in Int
      <4> HIDE DEF r
      <4> QED
        BY <2>1, SumsAreNumbers
    <3> QED
      BY <1>2, <2>1, <3>1
  <2>4. IsFiniteSet(s) /\ IsFiniteSet(r)
    BY <2>1, FS_Subset
  <2>5. Cardinality(s) = c + 1 /\ c \in Nat
    <3>1. c = Cardinality(s) - 1 /\ Cardinality(s) \in Nat /\ c \in Nat
      BY <2>1, <2>4, FS_RemoveElement, FS_CardinalityType
    <3> QED
      BY <3>1
  <2> DEFINE a == w[x]
             b == g[r]
  <2>6. k * (a + b) = k * a + k * b /\ (c + 1) * m = c * m + m
    <3>1. a \in Int /\ b \in Int /\ c \in Int
      BY <2>3, <2>5
    <3> HIDE DEF a, b, c
    <3> QED
      BY <3>1
  <2>7. k * (a + b) <= (c + 1) * m
    <3>1. k * a \in Int /\ k * b \in Int /\ c * m \in Int
      BY <2>3, <2>5
    <3> HIDE DEF c
    <3> QED
      BY <2>3, <2>6, <3>1
  <2> HIDE DEF x, r, c
  <2> QED
    BY <2>2, <2>5, <2>7
<1>3. \A s \in SUBSET S : s \in Good
  <2> HIDE DEF Good
  <2> QED
    BY <1>1, <1>2, SubsetInduction
<1> QED
  BY <1>3

\* The terms of a dot product, and that there is one for each coordinate.
LEMMA TermsAre ==
    ASSUME NEW a \in Seq(Int), NEW b \in Seq(Int), Len(a) = Len(b)
    PROVE  /\ IsFiniteSet(DOMAIN a) /\ DOMAIN a = DOMAIN b
           /\ \A i \in DOMAIN a : /\ a[i] \in Int /\ b[i] \in Int
                                  /\ Terms(a, b)[i] = a[i] * b[i]
                                  /\ Terms(a, b)[i] \in Int
<1>1. DOMAIN a = 1 .. Len(a) /\ DOMAIN b = 1 .. Len(b) /\ Len(a) \in Nat
  OBVIOUS
<1>2. \A i \in DOMAIN a : a[i] \in Int /\ b[i] \in Int
  OBVIOUS
<1>3. \A i \in DOMAIN a : Terms(a, b)[i] = a[i] * b[i]
  BY DEF Terms
<1>4. ASSUME NEW i \in DOMAIN a
      PROVE  Terms(a, b)[i] \in Int
  <2> DEFINE x == a[i]
             y == b[i]
  <2>1. x \in Int /\ y \in Int /\ Terms(a, b)[i] = x * y
    BY <1>2, <1>3
  <2> HIDE DEF x, y
  <2> QED
    BY <2>1
<1> QED
  BY <1>1, <1>2, <1>3, <1>4, FS_Interval

Termwise(a, b, c, d, e, f, k, m) ==
    \A i \in DOMAIN a : e[i] * f[i] = k * (a[i] * b[i]) + m * (c[i] * d[i])

\* k times the product of a and b, plus m times that of c and d, if it is so
\* term by term.
LEMMA DotCombines ==
    ASSUME NEW a \in Seq(Int), NEW b \in Seq(Int), Len(a) = Len(b),
           NEW c \in Seq(Int), NEW d \in Seq(Int), Len(c) = Len(d), Len(c) = Len(a),
           NEW y \in Seq(Int), NEW z \in Seq(Int), Len(y) = Len(z), Len(y) = Len(a),
           NEW k \in Int, NEW m \in Int,
           Termwise(a, b, c, d, y, z, k, m)
    PROVE  Dot(y, z) = k * Dot(a, b) + m * Dot(c, d)
<1> DEFINE S == DOMAIN a
           u == Terms(a, b)
           v == Terms(c, d)
           w == Terms(y, z)
<1>1. DOMAIN c = S /\ DOMAIN y = S
  OBVIOUS
<1>2. /\ IsFiniteSet(S)
      /\ \A i \in S : u[i] = a[i] * b[i] /\ u[i] \in Int
      /\ \A i \in S : v[i] = c[i] * d[i] /\ v[i] \in Int
      /\ \A i \in S : w[i] = y[i] * z[i]
  <2>1. \A i \in DOMAIN a : u[i] = a[i] * b[i] /\ u[i] \in Int
    BY TermsAre
  <2>2. \A i \in DOMAIN c : v[i] = c[i] * d[i] /\ v[i] \in Int
    BY TermsAre
  <2>3. \A i \in DOMAIN y : w[i] = y[i] * z[i]
    BY TermsAre
  <2>4. IsFiniteSet(DOMAIN a)
    BY TermsAre
  <2> HIDE DEF u, v, w
  <2> QED
    BY <1>1, <2>1, <2>2, <2>3, <2>4
<1>3. Combines(w, k, u, m, v, S)
  <2>1. \A i \in S : y[i] * z[i] = k * (a[i] * b[i]) + m * (c[i] * d[i])
    BY DEF Termwise
  <2> HIDE DEF S, u, v, w
  <2> QED
    BY <1>2, <2>1 DEF Combines
<1>4. PICK g1 : Adds(g1, u, S) /\ Dot(a, b) = g1[S]
  BY DotAdds
<1>5. PICK g2 : Adds(g2, v, S) /\ Dot(c, d) = g2[S]
  BY <1>1, DotAdds
<1>6. PICK g3 : Adds(g3, w, S) /\ Dot(y, z) = g3[S]
  BY <1>1, DotAdds
<1> HIDE DEF S, u, v, w
<1>7. Combines(g3, k, g1, m, g2, {S})
  <2>1. \A x \in S : u[x] \in Int
    BY <1>2
  <2>2. \A x \in S : v[x] \in Int
    BY <1>2
  <2> QED
    BY <1>2, <1>3, <1>4, <1>5, <1>6, <2>1, <2>2, SumsCombine
<1>8. g3[S] = k * g1[S] + m * g2[S]
  BY <1>7 DEF Combines
<1> QED
  BY <1>4, <1>5, <1>6, <1>8

LEMMA DotCommutes ==
    ASSUME NEW a \in Seq(Int), NEW b \in Seq(Int), Len(a) = Len(b)
    PROVE  Dot(b, a) = Dot(a, b)
<1>1. \A i \in DOMAIN a : a[i] \in Int /\ b[i] \in Int
  BY TermsAre
<1>2. Termwise(a, b, a, b, b, a, 1, 0)
  BY <1>1 DEF Termwise
<1>3. Dot(b, a) = 1 * Dot(a, b) + 0 * Dot(a, b)
  <2>1. 1 \in Int /\ 0 \in Int
    OBVIOUS
  <2> QED
    BY <1>2, <2>1, DotCombines
<1>4. Dot(a, b) \in Int
  BY DotIsNumber
<1> QED
  BY <1>3, <1>4

\* k a + m b.
Mix(k, a, m, b) == [i \in 1 .. Len(a) |-> k * a[i] + m * b[i]]

LEMMA MixIsVector ==
    ASSUME NEW a \in Seq(Int), NEW b \in Seq(Int), Len(a) = Len(b),
           NEW k \in Int, NEW m \in Int
    PROVE  /\ Mix(k, a, m, b) \in Seq(Int) /\ Len(Mix(k, a, m, b)) = Len(a)
           /\ \A i \in DOMAIN a : Mix(k, a, m, b)[i] = k * a[i] + m * b[i]
<1> DEFINE n == Len(a)
           w == Mix(k, a, m, b)
<1>1. n \in Nat /\ DOMAIN a = 1 .. n /\ \A i \in 1 .. n : a[i] \in Int /\ b[i] \in Int
  OBVIOUS
<1>2. \A i \in 1 .. n : k * a[i] + m * b[i] \in Int
  BY <1>1
<1>3. w = [i \in 1 .. n |-> k * a[i] + m * b[i]]
  BY DEF Mix
<1>4. w \in [1 .. n -> Int] /\ \A i \in 1 .. n : w[i] = k * a[i] + m * b[i]
  BY <1>2, <1>3
<1>5. w \in Seq(Int) /\ Len(w) = n
  <2> HIDE DEF n, w
  <2>1. w \in Seq(Int)
    BY <1>1, <1>4, FunctionIsSequence
  <2>2. DOMAIN w = 1 .. n
    BY <1>4
  <2> QED
    BY <1>1, <2>1, <2>2
<1> QED
  BY <1>1, <1>4, <1>5

LEMMA DotOfMix ==
    ASSUME NEW a \in Seq(Int), NEW b \in Seq(Int), Len(a) = Len(b),
           NEW c \in Seq(Int), Len(c) = Len(a), NEW k \in Int, NEW m \in Int
    PROVE  /\ Dot(Mix(k, a, m, b), c) = k * Dot(a, c) + m * Dot(b, c)
           /\ Dot(c, Mix(k, a, m, b)) = k * Dot(c, a) + m * Dot(c, b)
<1> DEFINE w == Mix(k, a, m, b)
<1>1. w \in Seq(Int) /\ Len(w) = Len(a) /\ \A i \in DOMAIN a : w[i] = k * a[i] + m * b[i]
  BY MixIsVector
<1> HIDE DEF w
<1>2. \A i \in DOMAIN a : a[i] \in Int /\ b[i] \in Int /\ c[i] \in Int
  OBVIOUS
<1>3. ASSUME NEW x \in Int, NEW y \in Int, NEW z \in Int
      PROVE  (k * x + m * y) * z = k * (x * z) + m * (y * z)
  <2>1. (k * x + m * y) * z = (k * x) * z + (m * y) * z
    <3>1. k * x \in Int /\ m * y \in Int
      OBVIOUS
    <3> DEFINE s == k * x
               t == m * y
    <3> HIDE DEF s, t
    <3>2. s \in Int /\ t \in Int => (s + t) * z = s * z + t * z
      OBVIOUS
    <3> QED
      BY <3>1, <3>2 DEF s, t
  <2> QED
    BY <2>1
<1>4. Termwise(a, c, b, c, w, c, k, m)
  <2>1. \A i \in DOMAIN a : w[i] * c[i] = (k * a[i] + m * b[i]) * c[i]
    BY <1>1
  <2>2. ASSUME NEW i \in DOMAIN a
        PROVE  (k * a[i] + m * b[i]) * c[i] = k * (a[i] * c[i]) + m * (b[i] * c[i])
    <3> DEFINE x == a[i]
               y == b[i]
               z == c[i]
    <3>1. x \in Int /\ y \in Int /\ z \in Int
      BY <1>2
    <3> HIDE DEF x, y, z
    <3>2. (k * x + m * y) * z = k * (x * z) + m * (y * z)
      BY <1>3, <3>1
    <3> QED
      BY <3>2 DEF x, y, z
  <2> QED
    BY <2>1, <2>2 DEF Termwise
<1>5. Dot(w, c) = k * Dot(a, c) + m * Dot(b, c)
  BY <1>1, <1>4, DotCombines
<1>6. Dot(w, c) = Dot(c, w) /\ Dot(a, c) = Dot(c, a) /\ Dot(b, c) = Dot(c, b)
  BY <1>1, DotCommutes
<1> QED
  BY <1>5, <1>6 DEF w

\* k times the square of each coordinate is at most m.
Below(a, k, m) == \A i \in DOMAIN a : k * (a[i] * a[i]) <= m

LEMMA NormIsNat ==
    ASSUME NEW a \in Seq(Int)
    PROVE  /\ Dot(a, a) \in Nat
           /\ \A i \in DOMAIN a : a[i] * a[i] <= Dot(a, a)
           /\ \A k, m \in Int : Below(a, k, m) => k * Dot(a, a) <= Len(a) * m
<1> DEFINE S == DOMAIN a
           w == Terms(a, a)
<1>1. PICK g : Adds(g, w, S) /\ Dot(a, a) = g[S]
  BY DotAdds
<1>2. IsFiniteSet(S) /\ \A i \in S : a[i] \in Int /\ w[i] = a[i] * a[i]
  BY TermsAre
<1>3. Cardinality(S) = Len(a)
  <2>1. S = 1 .. Len(a) /\ Len(a) \in Nat
    OBVIOUS
  <2>2. Cardinality(1 .. Len(a)) = Len(a)
    BY <2>1, FS_Interval
  <2> QED
    BY <2>1, <2>2
<1>4. \A i \in S : w[i] \in Nat /\ w[i] \in Int
  BY <1>2, SquareIsNat
<1> HIDE DEF S, w
<1>5. g[S] \in Int
  BY <1>1, <1>2, <1>4, SumsAreNumbers
<1>6. \A i \in S : w[i] <= g[S]
  BY <1>1, <1>2, <1>4, SumsHold
<1>7. g[S] >= 0
  <2>1. CASE S = {}
    BY <1>1, <2>1 DEF Adds
  <2>2. CASE S # {}
    BY <1>4, <1>5, <1>6, <2>2
  <2> QED
    BY <2>1, <2>2
<1>8. ASSUME NEW k \in Int, NEW m \in Int, \A i \in S : k * w[i] <= m
      PROVE  k * g[S] <= Cardinality(S) * m
  BY <1>1, <1>2, <1>4, <1>8, SumsBounded
<1>9. \A k, m \in Int : Below(a, k, m) => k * Dot(a, a) <= Len(a) * m
  BY <1>1, <1>2, <1>3, <1>8 DEF Below, S
<1>10. Dot(a, a) \in Nat
  BY <1>1, <1>5, <1>7
<1>11. \A i \in S : a[i] * a[i] <= Dot(a, a)
  BY <1>1, <1>2, <1>6
<1> QED
  BY <1>9, <1>10, <1>11 DEF S

\* Vectors whose coordinates agree in sign.
LEMMA DotIsNat ==
    ASSUME NEW a \in Seq(Int), NEW b \in Seq(Int), Len(a) = Len(b),
           \A i \in DOMAIN a : a[i] * b[i] >= 0
    PROVE  Dot(a, b) \in Nat
<1> DEFINE S == DOMAIN a
           w == Terms(a, b)
<1>1. PICK g : Adds(g, w, S) /\ Dot(a, b) = g[S]
  BY DotAdds
<1>2. IsFiniteSet(S) /\ \A i \in S : w[i] \in Int /\ 0 * w[i] <= 1 * w[i]
  <2>1. IsFiniteSet(S) /\ \A i \in S : w[i] = a[i] * b[i] /\ w[i] \in Int
    BY TermsAre
  <2>2. \A i \in S : w[i] >= 0
    BY <2>1
  <2> QED
    BY <2>1, <2>2
<1> HIDE DEF S, w
<1>3. g[S] \in Int
  BY <1>1, <1>2, SumsAreNumbers
<1>4. 0 * g[S] <= 1 * g[S]
  <2>1. 0 \in Int /\ 1 \in Int /\ S \in SUBSET S
    OBVIOUS
  <2> QED
    BY <1>1, <1>2, <2>1, SumsCompare
<1> QED
  BY <1>1, <1>3, <1>4

LEMMA SquareOfMix ==
    ASSUME NEW a \in Seq(Int), NEW b \in Seq(Int), Len(a) = Len(b),
           NEW k \in Int, NEW m \in Int,
           NEW w, w = Mix(k, a, m, b)
    PROVE  /\ Dot(w, w) \in Nat
           /\ Dot(w, w) = k * k * Dot(a, a) + 2 * (k * m) * Dot(a, b) + m * m * Dot(b, b)
<1> DEFINE A == Dot(a, a)
           B == Dot(b, b)
           C == Dot(a, b)
<1>1. A \in Int /\ B \in Int /\ C \in Int /\ Dot(b, a) = C
  BY DotIsNumber, DotCommutes
<1>2. w \in Seq(Int) /\ Len(w) = Len(a)
  BY MixIsVector
<1>3. Dot(w, w) = k * Dot(w, a) + m * Dot(w, b)
  BY <1>2, DotOfMix
<1>4. Dot(w, a) = k * A + m * C
  BY <1>1, DotOfMix
<1>5. Dot(w, b) = k * C + m * B
  BY DotOfMix
<1> HIDE DEF A, B, C
<1>6. k * (k * A + m * C) + m * (k * C + m * B) = k * k * A + 2 * (k * m) * C + m * m * B
  BY <1>1
<1>7. Dot(w, w) \in Nat
  BY <1>2, NormIsNat
<1> QED
  BY <1>3, <1>4, <1>5, <1>6, <1>7 DEF A, B, C

\* Cauchy and Schwarz: no product exceeds that of the lengths.
LEMMA CauchySchwarz ==
    ASSUME NEW a \in Seq(Int), NEW b \in Seq(Int), Len(a) = Len(b), Dot(a, a) > 0
    PROVE  Dot(a, b) * Dot(a, b) <= Dot(a, a) * Dot(b, b)
<1> DEFINE A == Dot(a, a)
           B == Dot(b, b)
           C == Dot(a, b)
           w == Mix(-C, a, A, b)
<1>1. A \in Int /\ A > 0 /\ B \in Int /\ C \in Int /\ -C \in Int
  BY DotIsNumber
<1> HIDE DEF A, B, C
<1>2. /\ Dot(w, w) \in Nat
      /\ Dot(w, w) = (-C) * (-C) * A + 2 * ((-C) * A) * C + A * A * B
  <2> HIDE DEF w
  <2>1. w = Mix(-C, a, A, b)
    BY DEF w
  <2> QED
    BY <1>1, <2>1, SquareOfMix DEF A, B, C
<1>3. (-C) * (-C) * A + 2 * ((-C) * A) * C + A * A * B = A * (A * B - C * C)
  BY <1>1
<1> DEFINE d == A * B - C * C
<1>4. d \in Int /\ A * d >= 0
  BY <1>1, <1>2, <1>3
<1> HIDE DEF d
<1>5. d >= 0
  BY <1>1, <1>4
<1> QED
  BY <1>1, <1>5 DEF A, B, C, d

LEMMA SquareOrder ==
    ASSUME NEW x \in Int, NEW y \in Nat, x * x <= y * y
    PROVE  x <= y
<1>1. SUFFICES ASSUME x > y
               PROVE  FALSE
  OBVIOUS
<1>2. x >= y + 1
  BY <1>1
<1>3. x * x >= x * (y + 1)
  BY <1>1, <1>2
<1>4. x * (y + 1) >= (y + 1) * (y + 1)
  BY <1>1, <1>2
<1>5. (y + 1) * (y + 1) > y * y
  OBVIOUS
<1> QED
  BY <1>3, <1>4, <1>5

LEMMA SquareGrows ==
    ASSUME NEW x \in Nat, NEW y \in Nat, x <= y
    PROVE  x * x <= y * y
<1>1. x * x <= x * y /\ x * y <= y * y
  OBVIOUS
<1>2. x * x \in Int /\ x * y \in Int /\ y * y \in Int
  OBVIOUS
<1> QED
  BY <1>1, <1>2

LEMMA ProductsGrow ==
    ASSUME NEW x \in Int, NEW y \in Int, x <= y, NEW z \in Nat
    PROVE  x * z <= y * z
<1>1. (y - x) * z >= 0
  OBVIOUS
<1>2. (y - x) * z = y * z - x * z
  OBVIOUS
<1> QED
  BY <1>1, <1>2

\* Numbers of one sign, one at least A + K units, the other less than A: they
\* are more than K units apart.
LEMMA FarOnOneSide ==
    ASSUME NEW a \in Nat, NEW b \in Nat, NEW A \in Nat, NEW K \in Nat, NEW N \in Nat,
           a * a >= (A + K) * (A + K) * N, b * b < A * A * N,
           (a - b) * (a - b) <= K * K * N
    PROVE  FALSE
<1> DEFINE d == a - b
           bb == b * b
           dd == d * d
           bd == b * d
           AK == A * K * N
           AA == A * A * N
           KK == K * K * N
<1>1. d \in Int
  OBVIOUS
<1>2. a * a = bb + 2 * bd + dd
  <2>1. a = b + d
    BY <1>1
  <2> HIDE DEF d
  <2>2. (b + d) * (b + d) = b * b + 2 * (b * d) + d * d
    BY <1>1
  <2> QED
    BY <2>1, <2>2
<1>3. (A + K) * (A + K) * N = AA + 2 * AK + KK
  OBVIOUS
<1>4. AA \in Nat /\ AK \in Nat /\ KK \in Nat /\ bb \in Nat /\ bd \in Int
  BY <1>1
<1>5. dd \in Nat
  BY <1>1, SquareIsNat
<1>6. bd * bd = bb * dd
  <2> HIDE DEF d
  <2> QED
    BY <1>1
<1>7. AK * AK = AA * KK
  OBVIOUS
<1>8. bb * dd <= AA * KK
  <2>1. bb <= AA /\ dd <= KK
    BY <1>1, <1>4, <1>5
  <2> HIDE DEF bb, dd, AA, KK
  <2>2. bb * dd <= AA * dd
    BY <1>4, <1>5, <2>1, ProductsGrow
  <2>3. dd * AA <= KK * AA
    BY <1>4, <1>5, <2>1, ProductsGrow
  <2>4. dd * AA = AA * dd /\ KK * AA = AA * KK
    BY <1>4, <1>5
  <2>5. bb * dd \in Int /\ AA * dd \in Int /\ AA * KK \in Int
    BY <1>4, <1>5
  <2> QED
    BY <2>2, <2>3, <2>4, <2>5
<1> HIDE DEF bd, AK, AA, KK, bb, dd
<1>9. bd <= AK
  BY <1>4, <1>6, <1>7, <1>8, SquareOrder
<1>10. bb < AA /\ dd <= KK
  BY DEF bb, AA, dd, KK, d
<1> DEFINE aa == a * a
           tot == (A + K) * (A + K) * N
<1>11. aa >= tot
  OBVIOUS
<1> HIDE DEF aa, tot
<1>12. aa = bb + 2 * bd + dd /\ tot = AA + 2 * AK + KK
  BY <1>2, <1>3 DEF aa, tot
<1> QED
  BY <1>4, <1>5, <1>9, <1>10, <1>11, <1>12

\* Numbers of two signs, at least A and B units: no less than A + B apart.
LEMMA FarOnTwoSides ==
    ASSUME NEW a \in Int, NEW b \in Int, a * b <= 0,
           NEW A \in Nat, NEW B \in Nat, NEW K \in Nat, NEW N \in Nat \ {0},
           a * a >= A * A * N, b * b >= B * B * N,
           (a - b) * (a - b) <= K * K * N
    PROVE  A + B <= K
<1> DEFINE aa == a * a
           bb == b * b
           ab == a * b
           AA == A * A * N
           BB == B * B * N
           AB == A * B * N
           m == -ab
<1>1. aa \in Nat /\ bb \in Nat
  BY SquareIsNat
<1>2. AA \in Nat /\ BB \in Nat /\ AB \in Nat /\ m \in Nat
  OBVIOUS
<1>3. m * m = aa * bb /\ AB * AB = AA * BB
  OBVIOUS
<1>4. AA * BB <= aa * bb
  <2>1. AA <= aa /\ BB <= bb
    OBVIOUS
  <2> HIDE DEF AA, BB, aa, bb
  <2>2. AA * BB <= aa * BB
    BY <1>1, <1>2, <2>1, ProductsGrow
  <2>3. BB * aa <= bb * aa
    BY <1>1, <1>2, <2>1, ProductsGrow
  <2>4. BB * aa = aa * BB /\ bb * aa = aa * bb
    BY <1>1, <1>2
  <2>5. AA * BB \in Int /\ aa * BB \in Int /\ aa * bb \in Int
    BY <1>1, <1>2
  <2> QED
    BY <2>2, <2>3, <2>4, <2>5
<1>5. AB <= m
  <2> HIDE DEF AA, BB, aa, bb, AB, m
  <2> QED
    BY <1>2, <1>3, <1>4, SquareOrder
<1>6. (a - b) * (a - b) = aa + 2 * m + bb
  OBVIOUS
<1>7. (A + B) * (A + B) * N = AA + 2 * AB + BB
  OBVIOUS
<1>8. AA <= aa /\ BB <= bb
  OBVIOUS
<1> DEFINE dd == (a - b) * (a - b)
           tt == (A + B) * (A + B) * N
           kk == K * K * N
<1>9. dd <= kk /\ kk \in Int /\ dd = aa + 2 * m + bb /\ tt = AA + 2 * AB + BB
  BY <1>6, <1>7
<1>10. tt <= kk
  <2> HIDE DEF AA, BB, aa, bb, AB, m, dd, tt, kk
  <2> QED
    BY <1>1, <1>2, <1>5, <1>8, <1>9
<1> DEFINE s == A + B
<1>11. s \in Nat /\ s * s * N <= K * K * N
  BY <1>10
<1> HIDE DEF s
<1>12. s * s <= K * K
  <2> DEFINE ss == s * s
             k2 == K * K
  <2>1. ss \in Int /\ k2 \in Int
    BY <1>11
  <2> HIDE DEF ss, k2
  <2>2. SUFFICES ASSUME ss > k2
                 PROVE  FALSE
    BY <2>1 DEF ss, k2
  <2>3. (k2 + 1) * N <= ss * N
    BY <2>1, <2>2, ProductsGrow
  <2>4. (k2 + 1) * N = k2 * N + N /\ k2 * N \in Int /\ ss * N \in Int
    BY <2>1
  <2>5. ss * N <= k2 * N
    BY <1>11 DEF ss, k2
  <2> QED
    BY <2>3, <2>4, <2>5
<1> QED
  BY <1>11, <1>12, SquareOrder DEF s

\* Sizes depend on the ratio alone.
LEMMA SizeIsOne ==
    ASSUME NEW dot \in Int, NEW norms \in Nat, NEW k \in Nat \ {0},
           NEW d, d = k * dot, NEW n, n = k * k * norms,
           NEW s, SizeOf(s, dot, norms), NEW r, SizeOf(r, d, n)
    PROVE  r = s
<1> DEFINE D == 10000 * dot * dot
           kk == k * k
<1>1. D \in Int /\ kk \in Nat /\ kk > 0
  OBVIOUS
<1>2. 10000 * (k * dot) * (k * dot) = kk * D
  OBVIOUS
<1>3. s \in 0 .. 100 /\ r \in 0 .. 100
  BY DEF SizeOf
<1>4. r * r * (kk * norms) = kk * (r * r * norms) /\ r * r * norms \in Int
  BY <1>1, <1>3
<1>5. (r + 1) * (r + 1) * (kk * norms) = kk * ((r + 1) * (r + 1) * norms) /\ (r + 1) * (r + 1) * norms \in Int
  BY <1>1, <1>3
<1>6. kk * (r * r * norms) <= kk * D
  BY <1>2, <1>4 DEF SizeOf
<1>7. r < 100 => kk * ((r + 1) * (r + 1) * norms) > kk * D
  BY <1>2, <1>5 DEF SizeOf
<1>8. s * s * norms <= D /\ (s < 100 => (s + 1) * (s + 1) * norms > D)
  BY DEF SizeOf
<1> HIDE DEF D, kk
<1>9. ASSUME NEW x \in Int, kk * x <= kk * D
      PROVE  x <= D
  BY <1>1, <1>9
<1>10. ASSUME NEW x \in Int, kk * x > kk * D
       PROVE  x > D
  BY <1>1, <1>10
<1>11. r * r * norms <= D /\ (r < 100 => (r + 1) * (r + 1) * norms > D)
  BY <1>4, <1>5, <1>6, <1>7, <1>9, <1>10
<1>12. ASSUME NEW x \in 0 .. 100, NEW y \in 0 .. 100, x < y,
              y * y * norms <= D, x < 100 => (x + 1) * (x + 1) * norms > D
       PROVE  FALSE
  <2> DEFINE l == (x + 1) * (x + 1)
             g == y * y
  <2>1. l <= g /\ l \in Int /\ g \in Int
    BY <1>12, SquareGrows
  <2>2. l * norms <= g * norms
    <3> HIDE DEF l, g
    <3> QED
      BY <2>1, ProductsGrow
  <2>3. l * norms > D /\ g * norms <= D /\ l * norms \in Int /\ g * norms \in Int
    BY <1>12
  <2> QED
    BY <1>1, <2>2, <2>3
<1>13. ~(s < r)
  <2>1. SUFFICES ASSUME s < r
                 PROVE  FALSE
    OBVIOUS
  <2> QED
    BY <1>3, <1>8, <1>11, <1>12, <2>1
<1>14. ~(r < s)
  <2>1. SUFFICES ASSUME r < s
                 PROVE  FALSE
    OBVIOUS
  <2> QED
    BY <1>3, <1>8, <1>11, <1>12, <2>1
<1> QED
  BY <1>3, <1>13, <1>14

LEMMA HundredthsScale ==
    ASSUME NEW dot \in Int, NEW norms \in Nat, NEW k \in Nat \ {0}
    PROVE  Hundredths(k * dot, k * k * norms) = Hundredths(dot, norms)
<1>1. PICK s : /\ SizeOf(s, dot, norms)
               /\ Hundredths(dot, norms) = IF dot < 0 THEN -s ELSE s
  BY HundredthsAre
<1> DEFINE d == k * dot
           n == k * k * norms
<1>2. d \in Int /\ n \in Int /\ (d < 0 <=> dot < 0) /\ d = k * dot /\ n = k * k * norms
  OBVIOUS
<1> HIDE DEF d, n
<1>3. PICK r : SizeOf(r, d, n) /\ Hundredths(d, n) = IF d < 0 THEN -r ELSE r
  BY <1>2, HundredthsAre
<1>4. r = s
  BY <1>1, <1>2, <1>3, SizeIsOne
<1>5. Hundredths(d, n) = Hundredths(dot, norms)
  BY <1>1, <1>2, <1>3, <1>4
<1> QED
  BY <1>5 DEF d, n

\* What the plane of y and z says of a product with q: with y of length Y, z
\* of Z, their product h, and theirs with q p and r.
InPlane(Q, Y, h, Z, p, r, K) ==
    /\ h * h <= Y * Z
    /\ 10000 * (Y * Z - h * h) <= K * K * (Y * Z)
    /\ (Y * r - h * p) * (Y * r - h * p) <= Q * (Y * (Y * Z - h * h))

\* Less than `size` hundredths.
Under(x, norms, size) == 10000 * x * x < size * size * norms

LEMMA OneSide ==
    ASSUME NEW Q \in Nat \ {0}, NEW Y \in Nat \ {0}, NEW Z \in Nat \ {0}, NEW h \in Nat,
           NEW p \in Nat, NEW r \in Nat, NEW K \in Nat, NEW A \in Nat,
           InPlane(Q, Y, h, Z, p, r, K), Under(p, Q * Y, A)
    PROVE  Under(r, Q * Z, A + K)
<1> DEFINE P == 10000 * p * p
           R == 10000 * r * r
           U == A * A * (Q * Y)
           V == (A + K) * (A + K) * (Q * Z)
           a == 100 * Y * r
           b == 100 * h * p
           N == Q * Y * Y * Z
           F == Y * Z
           H == h * h
           G == F - H
           x == Y * r - h * p
<1>1. /\ P \in Nat /\ R \in Nat /\ U \in Nat /\ V \in Nat /\ a \in Nat /\ b \in Nat
      /\ N \in Nat /\ F \in Nat /\ H \in Nat /\ G \in Int /\ x \in Int /\ F > 0
  OBVIOUS
<1>2. H <= F /\ 10000 * G <= K * K * F /\ x * x <= Q * (Y * G) /\ P < U
  BY DEF InPlane, Under
<1>3. SUFFICES ASSUME R >= V
               PROVE  FALSE
  <2> HIDE DEF R, V
  <2>1. R < V
    BY <1>1, <1>3
  <2> QED
    BY <2>1 DEF R, V, Under
<1>4. a * a >= (A + K) * (A + K) * N
  <2> DEFINE YY == Y * Y
  <2>1. a * a = R * YY /\ (A + K) * (A + K) * N = V * YY /\ YY \in Nat
    OBVIOUS
  <2> HIDE DEF a, R, V, YY, N
  <2>2. V * YY <= R * YY
    BY <1>1, <1>3, <2>1, ProductsGrow
  <2> QED
    BY <1>1, <2>1, <2>2
<1>5. b * b < A * A * N
  <2>1. b * b = H * P /\ A * A * N = U * F
    OBVIOUS
  <2> HIDE DEF b, H, P, U, F, N
  <2>2. H * P <= F * P
    BY <1>1, <1>2, ProductsGrow
  <2>3. F * P < U * F
    <3>1. (P + 1) * F <= U * F
      BY <1>1, <1>2, ProductsGrow
    <3>2. (P + 1) * F = P * F + F /\ P * F = F * P /\ P * F \in Int /\ U * F \in Int
      BY <1>1
    <3> QED
      BY <1>1, <3>1, <3>2
  <2>4. H * P \in Int /\ F * P \in Int /\ U * F \in Int
    BY <1>1
  <2>5. H * P < U * F
    BY <2>2, <2>3, <2>4
  <2> QED
    BY <2>1, <2>5
<1>6. (a - b) * (a - b) <= K * K * N
  <2> DEFINE W == Q * Y
             KF == K * K * F
             G4 == 10000 * G
  <2>1. a - b = 100 * x
    OBVIOUS
  <2>2. (100 * x) * (100 * x) = 10000 * (x * x)
    <3> HIDE DEF x
    <3> QED
      BY <1>1
  <2>3. 10000 * (Q * (Y * G)) = G4 * W
    <3> HIDE DEF G
    <3> QED
      BY <1>1
  <2>4. K * K * N = KF * W
    OBVIOUS
  <2>5. W \in Nat /\ KF \in Nat /\ G4 \in Int
    OBVIOUS
  <2>6. x * x \in Int /\ Q * (Y * G) \in Int /\ G4 * W \in Int /\ KF * W \in Int
    <3> HIDE DEF x, G, F
    <3> QED
      BY <1>1
  <2> HIDE DEF W, KF, G4, x, G, a, b, N, F
  <2>7. G4 * W <= KF * W
    BY <1>2, <2>5, ProductsGrow DEF G4, KF
  <2>8. 10000 * (x * x) <= 10000 * (Q * (Y * G))
    BY <1>2, <2>6
  <2> QED
    BY <2>1, <2>2, <2>3, <2>4, <2>6, <2>7, <2>8
<1> HIDE DEF a, b, N
<1> QED
  BY <1>1, <1>4, <1>5, <1>6, FarOnOneSide

\* ... and of the sizes it comes to.
LEMMA SizesOnOneSide ==
    ASSUME NEW Q \in Nat \ {0}, NEW Y \in Nat \ {0}, NEW Z \in Nat \ {0}, NEW h \in Nat,
           NEW p \in Nat, NEW r \in Nat, NEW K \in Nat, InPlane(Q, Y, h, Z, p, r, K),
           NEW s, SizeOf(s, p, Q * Y), NEW t, SizeOf(t, r, Q * Z)
    PROVE  t <= s + K
<1>1. s \in 0 .. 100 /\ t \in 0 .. 100
  BY DEF SizeOf
<1>2. SUFFICES ASSUME t > s + K
               PROVE  FALSE
  BY <1>1
<1> DEFINE A == s + 1
<1>3. A \in Nat /\ s < 100 /\ A + K <= t /\ A + K \in Nat /\ t \in Nat
  BY <1>1, <1>2
<1>4. Under(p, Q * Y, A)
  <2>1. A * A * (Q * Y) > 10000 * p * p
    BY <1>3 DEF SizeOf
  <2>2. A * A * (Q * Y) \in Int /\ 10000 * p * p \in Int
    BY <1>3
  <2> HIDE DEF A
  <2> QED
    BY <2>1, <2>2 DEF Under
<1> HIDE DEF A
<1>5. Under(r, Q * Z, A + K)
  BY <1>3, <1>4, OneSide
<1> DEFINE l == (A + K) * (A + K)
           g == t * t
           n == Q * Z
           R == 10000 * r * r
<1>6. l <= g /\ l \in Int /\ g \in Int /\ n \in Nat /\ R \in Int
  <2>1. l <= g
    BY <1>3, SquareGrows
  <2> QED
    BY <1>3, <2>1
<1>7. R < l * n /\ g * n <= R
  BY <1>5 DEF SizeOf, Under
<1> HIDE DEF l, g, n, R
<1>8. l * n <= g * n
  BY <1>6, ProductsGrow
<1>9. l * n \in Int /\ g * n \in Int
  BY <1>6
<1> QED
  BY <1>6, <1>7, <1>8, <1>9

\* Two vectors as far apart as K hundredths of the second.
Apart(y, z, K) == 10000 * Dot(Mix(1, z, -1, y), Mix(1, z, -1, y)) <= K * K * Dot(z, z)

LEMMA Difference ==
    ASSUME NEW y \in Seq(Int), NEW z \in Seq(Int), Len(y) = Len(z)
    PROVE  /\ Dot(Mix(1, z, -1, y), Mix(1, z, -1, y)) \in Nat
           /\ Dot(Mix(1, z, -1, y), Mix(1, z, -1, y)) = Dot(y, y) + Dot(z, z) - 2 * Dot(y, z)
<1> DEFINE e == Mix(1, z, -1, y)
<1>1. 1 \in Int /\ -1 \in Int
  OBVIOUS
<1>2. /\ Dot(e, e) \in Nat
      /\ Dot(e, e) = 1 * 1 * Dot(z, z) + 2 * (1 * (-1)) * Dot(z, y) + (-1) * (-1) * Dot(y, y)
  <2> HIDE DEF e
  <2>1. e = Mix(1, z, -1, y)
    BY DEF e
  <2> QED
    BY <1>1, <2>1, SquareOfMix
<1>3. Dot(z, y) = Dot(y, z) /\ Dot(y, z) \in Int /\ Dot(y, y) \in Int /\ Dot(z, z) \in Int
  BY DotCommutes, DotIsNumber
<1> HIDE DEF e
<1>4. Dot(e, e) = Dot(y, y) + Dot(z, z) - 2 * Dot(y, z)
  BY <1>2, <1>3
<1> QED
  BY <1>2, <1>4 DEF e

LEMMA ApartInPlane ==
    ASSUME NEW q \in Seq(Int), NEW y \in Seq(Int), NEW z \in Seq(Int),
           Len(y) = Len(q), Len(z) = Len(q), NEW K \in Nat,
           Dot(q, q) > 0, Dot(y, y) > 0, Apart(y, z, K)
    PROVE  InPlane(Dot(q, q), Dot(y, y), Dot(y, z), Dot(z, z), Dot(q, y), Dot(q, z), K)
<1> DEFINE Q == Dot(q, q)
           Y == Dot(y, y)
           Z == Dot(z, z)
           h == Dot(y, z)
           p == Dot(q, y)
           r == Dot(q, z)
           E == Dot(Mix(1, z, -1, y), Mix(1, z, -1, y))
           w == Mix(Y, z, -h, y)
<1>1. Q \in Nat /\ Y \in Nat /\ Z \in Nat /\ h \in Int /\ p \in Int /\ r \in Int /\ -h \in Int
  BY NormIsNat, DotIsNumber
<1>2. E \in Nat /\ E = Y + Z - 2 * h /\ 10000 * E <= K * K * Z
  BY Difference DEF Apart
<1>3. h * h <= Y * Z
  BY CauchySchwarz
<1>4. w \in Seq(Int) /\ Len(w) = Len(q)
  <2> HIDE DEF Y, h
  <2> QED
    BY <1>1, MixIsVector
<1>5. Dot(q, w) = Y * r - h * p
  <2> HIDE DEF Y, h
  <2>1. Dot(q, w) = Y * Dot(q, z) + (-h) * Dot(q, y)
    BY <1>1, DotOfMix
  <2> HIDE DEF w, p, r
  <2> QED
    BY <1>1, <2>1 DEF p, r
<1>6. Dot(w, w) = Y * (Y * Z - h * h)
  <2> HIDE DEF Y, h, w
  <2>1. w = Mix(Y, z, -h, y)
    BY DEF w
  <2>2. Dot(w, w) = Y * Y * Dot(z, z) + 2 * (Y * (-h)) * Dot(z, y) + (-h) * (-h) * Dot(y, y)
    BY <1>1, <2>1, SquareOfMix
  <2>3. Dot(z, y) = h
    BY DotCommutes DEF h
  <2>4. Dot(w, w) = Y * Y * Z + 2 * (Y * (-h)) * h + (-h) * (-h) * Y
    BY <2>2, <2>3 DEF Y
  <2> HIDE DEF Z
  <2>5. Y * Y * Z + 2 * (Y * (-h)) * h + (-h) * (-h) * Y = Y * (Y * Z - h * h)
    BY <1>1
  <2> QED
    BY <2>4, <2>5
<1>7. (Y * r - h * p) * (Y * r - h * p) <= Q * (Y * (Y * Z - h * h))
  <2>1. Dot(q, w) * Dot(q, w) <= Q * Dot(w, w)
    <3> HIDE DEF w
    <3> QED
      BY <1>4, CauchySchwarz
  <2> QED
    BY <1>5, <1>6, <2>1
<1> HIDE DEF Q, Y, Z, h, p, r, E, w
<1>8. 10000 * (Y * Z - h * h) <= K * K * (Y * Z)
  <2> DEFINE G == Y * Z - h * h
             D == (Y - h) * (Y - h)
             KZ == K * K * Z
  <2>1. G = E * Y - D
    BY <1>1, <1>2
  <2>2. D \in Nat /\ KZ \in Int
    <3>1. Y - h \in Int /\ KZ \in Int
      BY <1>1
    <3> HIDE DEF KZ
    <3> QED
      BY <3>1, SquareIsNat
  <2>3. (10000 * E) * Y <= KZ * Y
    <3> HIDE DEF KZ
    <3>1. 10000 * E \in Int /\ 10000 * E <= KZ
      BY <1>2 DEF KZ
    <3> QED
      BY <1>1, <2>2, <3>1, ProductsGrow
  <2>4. KZ * Y = K * K * (Y * Z) /\ (10000 * E) * Y = 10000 * (E * Y)
    BY <1>1, <1>2
  <2>5. E * Y \in Int /\ KZ * Y \in Int /\ 10000 * G = 10000 * (E * Y) - 10000 * D
    BY <1>1, <1>2, <2>1, <2>2
  <2> HIDE DEF G, D, KZ
  <2>6. 10000 * G <= KZ * Y
    BY <2>2, <2>3, <2>4, <2>5
  <2> QED
    BY <2>4, <2>6 DEF G
<1>9. InPlane(Q, Y, h, Z, p, r, K)
  BY <1>3, <1>7, <1>8 DEF InPlane
<1> QED
  BY <1>9 DEF Q, Y, Z, h, p, r

LEMMA InPlaneNegates ==
    ASSUME NEW Q \in Int, NEW Y \in Int, NEW Z \in Int, NEW h \in Int,
           NEW p \in Int, NEW r \in Int, NEW K \in Int, InPlane(Q, Y, h, Z, p, r, K)
    PROVE  InPlane(Q, Y, h, Z, -p, -r, K)
<1>1. (Y * (-r) - h * (-p)) * (Y * (-r) - h * (-p)) = (Y * r - h * p) * (Y * r - h * p)
  OBVIOUS
<1> QED
  BY <1>1 DEF InPlane

LEMMA SizeNegates ==
    ASSUME NEW x \in Int, NEW norms, NEW size, SizeOf(size, x, norms)
    PROVE  SizeOf(size, -x, norms)
<1>1. 10000 * (-x) * (-x) = 10000 * x * x
  OBVIOUS
<1> QED
  BY <1>1 DEF SizeOf

Near(x, y, K) == x <= y + K /\ y <= x + K

SplitsWithin(Q, Y, Z, p, r, E, K) ==
    /\ (r - p) * (r - p) <= Q * E
    /\ 10000 * E <= K * K * Y /\ 10000 * E <= K * K * Z

LEMMA SizesOnTwoSides ==
    ASSUME NEW Q \in Nat \ {0}, NEW Y \in Nat \ {0}, NEW Z \in Nat \ {0},
           NEW p \in Int, NEW r \in Int, p * r <= 0, NEW K \in Nat, NEW E \in Nat,
           SplitsWithin(Q, Y, Z, p, r, E, K),
           NEW s, SizeOf(s, p, Q * Y), NEW t, SizeOf(t, r, Q * Z)
    PROVE  s + t <= K
<1> DEFINE M == IF Y <= Z THEN Y ELSE Z
           N == Q * M
           a == 100 * p
           b == 100 * r
<1>1. s \in Nat /\ t \in Nat /\ s * s \in Nat /\ t * t \in Nat
  BY DEF SizeOf
<1>2. M \in Nat \ {0} /\ M <= Y /\ M <= Z /\ 10000 * E <= K * K * M
  BY DEF SplitsWithin
<1> HIDE DEF M
<1>3. N \in Nat \ {0} /\ N <= Q * Y /\ N <= Q * Z
  <2>1. M * Q <= Y * Q /\ M * Q <= Z * Q
    BY <1>2, ProductsGrow
  <2>2. M * Q = Q * M /\ Y * Q = Q * Y /\ Z * Q = Q * Z /\ Q * M \in Nat \ {0}
    BY <1>2
  <2> QED
    BY <2>1, <2>2
<1>4. a \in Int /\ b \in Int /\ a * b <= 0
  <2>1. a * b = 10000 * (p * r) /\ p * r \in Int
    OBVIOUS
  <2> QED
    BY <2>1
<1>5. a * a >= s * s * N
  <2> DEFINE ss == s * s
             n == Q * Y
  <2>1. ss * n <= 10000 * p * p /\ ss \in Nat /\ n \in Nat
    BY <1>1 DEF SizeOf
  <2> HIDE DEF ss, n, N
  <2>2. N * ss <= n * ss
    BY <1>3, <2>1, ProductsGrow DEF n
  <2>3. N * ss = ss * N /\ n * ss = ss * n /\ ss * N \in Int /\ ss * n \in Int
    BY <1>3, <2>1
  <2>4. a * a = 10000 * p * p /\ a * a \in Int
    OBVIOUS
  <2> HIDE DEF a
  <2>5. ss * N <= a * a
    BY <2>1, <2>2, <2>3, <2>4
  <2> QED
    BY <2>3, <2>4, <2>5 DEF ss
<1>6. b * b >= t * t * N
  <2> DEFINE ss == t * t
             n == Q * Z
  <2>1. ss * n <= 10000 * r * r /\ ss \in Nat /\ n \in Nat
    BY <1>1 DEF SizeOf
  <2> HIDE DEF ss, n, N
  <2>2. N * ss <= n * ss
    BY <1>3, <2>1, ProductsGrow DEF n
  <2>3. N * ss = ss * N /\ n * ss = ss * n /\ ss * N \in Int /\ ss * n \in Int
    BY <1>3, <2>1
  <2>4. b * b = 10000 * r * r /\ b * b \in Int
    OBVIOUS
  <2> HIDE DEF b
  <2>5. ss * N <= b * b
    BY <2>1, <2>2, <2>3, <2>4
  <2> QED
    BY <2>3, <2>4, <2>5 DEF ss
<1>7. (a - b) * (a - b) <= K * K * N
  <2> DEFINE d == r - p
             KM == K * K * M
             QE == Q * E
  <2>1. (a - b) * (a - b) = 10000 * (d * d)
    OBVIOUS
  <2>2. d * d <= QE /\ d * d \in Int /\ QE \in Int
    BY DEF SplitsWithin
  <2>3. (10000 * E) * Q <= KM * Q
    <3>1. 10000 * E \in Int /\ KM \in Int /\ 10000 * E <= KM
      BY <1>2
    <3> HIDE DEF KM
    <3> QED
      BY <3>1, ProductsGrow
  <2>4. (10000 * E) * Q = 10000 * QE /\ KM * Q = K * K * N /\ KM * Q \in Int
    BY <1>2
  <2> HIDE DEF KM, QE, d, a, b, N
  <2> QED
    BY <2>1, <2>2, <2>3, <2>4
<1> HIDE DEF a, b, N
<1>8. s + t <= K
  BY <1>1, <1>3, <1>4, <1>5, <1>6, <1>7, FarOnTwoSides
<1> QED
  BY <1>8

LEMMA CloseScores ==
    ASSUME NEW q \in Seq(Int), NEW y \in Seq(Int), NEW z \in Seq(Int),
           Len(y) = Len(q), Len(z) = Len(q), NEW K \in Nat,
           Dot(q, q) > 0, Dot(y, y) > 0, Dot(z, z) > 0, Dot(y, z) >= 0,
           Apart(y, z, K), Apart(z, y, K)
    PROVE  Near(Hundredths(Dot(q, z), Dot(q, q) * Dot(z, z)),
                Hundredths(Dot(q, y), Dot(q, q) * Dot(y, y)), K)
<1> DEFINE Q == Dot(q, q)
           Y == Dot(y, y)
           Z == Dot(z, z)
           h == Dot(y, z)
           p == Dot(q, y)
           r == Dot(q, z)
<1>1. /\ Q \in Nat \ {0} /\ Y \in Nat \ {0} /\ Z \in Nat \ {0}
      /\ h \in Nat /\ p \in Int /\ r \in Int
  BY NormIsNat, DotIsNumber
<1>2. InPlane(Q, Y, h, Z, p, r, K)
  BY ApartInPlane
<1>3. InPlane(Q, Z, h, Y, r, p, K)
  <2>1. InPlane(Q, Z, Dot(z, y), Y, r, p, K)
    BY ApartInPlane
  <2>2. Dot(z, y) = h
    BY DotCommutes
  <2> QED
    BY <2>1, <2>2
<1> DEFINE E == Dot(Mix(1, z, -1, y), Mix(1, z, -1, y))
<1>4. E \in Nat /\ SplitsWithin(Q, Y, Z, p, r, E, K)
  <2> DEFINE e == Mix(1, z, -1, y)
             d == Mix(1, y, -1, z)
  <2>1. 1 \in Int /\ -1 \in Int
    OBVIOUS
  <2>2. e \in Seq(Int) /\ Len(e) = Len(q)
    BY <2>1, MixIsVector
  <2>3. Dot(q, e) = r - p
    <3>1. Dot(q, e) = 1 * Dot(q, z) + (-1) * Dot(q, y)
      BY <2>1, DotOfMix
    <3> HIDE DEF e, p, r
    <3> QED
      BY <1>1, <3>1 DEF p, r
  <2>4. Dot(q, e) * Dot(q, e) <= Q * Dot(e, e)
    <3> HIDE DEF e
    <3> QED
      BY <2>2, CauchySchwarz
  <2>5. Dot(e, e) \in Nat /\ Dot(e, e) = Y + Z - 2 * Dot(y, z)
    BY Difference
  <2>6. Dot(d, d) = Z + Y - 2 * Dot(z, y)
    BY Difference
  <2>7. Dot(z, y) = Dot(y, z)
    BY DotCommutes
  <2>8. 10000 * Dot(e, e) <= K * K * Z /\ 10000 * Dot(d, d) <= K * K * Y
    BY DEF Apart
  <2> HIDE DEF e, d, Q, Y, Z, r, p
  <2>9. Dot(d, d) = Dot(e, e)
    BY <1>1, <2>5, <2>6, <2>7 DEF h
  <2> QED
    BY <2>3, <2>4, <2>5, <2>8, <2>9 DEF e, SplitsWithin
<1> HIDE DEF Q, Y, Z, h, p, r, E
<1> DEFINE n == Q * Y
           m == Q * Z
<1>5. n \in Int /\ m \in Int
  BY <1>1
<1>6. PICK s : SizeOf(s, p, n) /\ Hundredths(p, n) = IF p < 0 THEN -s ELSE s
  <2> HIDE DEF n
  <2> QED
    BY <1>1, <1>5, HundredthsAre
<1>7. PICK t : SizeOf(t, r, m) /\ Hundredths(r, m) = IF r < 0 THEN -t ELSE t
  <2> HIDE DEF m
  <2> QED
    BY <1>1, <1>5, HundredthsAre
<1>8. s \in Nat /\ t \in Nat
  BY <1>6, <1>7 DEF SizeOf
<1>9. CASE p >= 0 /\ r >= 0
  <2>1. p \in Nat /\ r \in Nat
    BY <1>1, <1>9
  <2>2. t <= s + K
    BY <1>1, <1>2, <1>6, <1>7, <2>1, SizesOnOneSide
  <2>3. s <= t + K
    BY <1>1, <1>3, <1>6, <1>7, <2>1, SizesOnOneSide
  <2> HIDE DEF n, m
  <2>4. Near(t, s, K)
    BY <2>2, <2>3 DEF Near
  <2>5. Hundredths(p, n) = s /\ Hundredths(r, m) = t
    BY <1>1, <1>6, <1>7, <1>9
  <2>6. Near(Hundredths(r, m), Hundredths(p, n), K)
    BY <2>4, <2>5
  <2> QED
    BY <2>6 DEF p, r, n, m, Q, Y, Z
<1>10. CASE p < 0 /\ r < 0
  <2> DEFINE i == -p
             j == -r
  <2>1. i \in Nat /\ j \in Nat
    BY <1>1, <1>10
  <2>2. InPlane(Q, Y, h, Z, i, j, K) /\ InPlane(Q, Z, h, Y, j, i, K)
    <3>1. Q \in Int /\ Y \in Int /\ Z \in Int /\ h \in Int /\ K \in Int
      BY <1>1
    <3>2. InPlane(Q, Y, h, Z, i, j, K)
      BY <1>1, <1>2, <3>1, InPlaneNegates
    <3>3. InPlane(Q, Z, h, Y, j, i, K)
      BY <1>1, <1>3, <3>1, InPlaneNegates
    <3> QED
      BY <3>2, <3>3
  <2>3. SizeOf(s, i, n) /\ SizeOf(t, j, m)
    BY <1>1, <1>6, <1>7, SizeNegates
  <2> HIDE DEF i, j
  <2>4. t <= s + K
    BY <1>1, <2>1, <2>2, <2>3, SizesOnOneSide
  <2>5. s <= t + K
    BY <1>1, <2>1, <2>2, <2>3, SizesOnOneSide
  <2> HIDE DEF n, m
  <2>6. Near(-t, -s, K)
    BY <1>8, <2>4, <2>5 DEF Near
  <2>7. Hundredths(p, n) = -s /\ Hundredths(r, m) = -t
    BY <1>1, <1>6, <1>7, <1>10
  <2>8. Near(Hundredths(r, m), Hundredths(p, n), K)
    BY <2>6, <2>7
  <2> QED
    BY <2>8 DEF p, r, n, m, Q, Y, Z
<1>11. CASE (p >= 0 /\ r < 0) \/ (p < 0 /\ r >= 0)
  <2>1. p * r <= 0
    BY <1>1, <1>11
  <2>2. s + t <= K
    BY <1>1, <1>4, <1>6, <1>7, <2>1, SizesOnTwoSides
  <2> DEFINE S == IF p < 0 THEN -s ELSE s
             T == IF r < 0 THEN -t ELSE t
  <2>3. Near(T, S, K)
    BY <1>8, <2>2 DEF Near
  <2> HIDE DEF n, m
  <2> QED
    BY <1>6, <1>7, <2>3 DEF p, r, n, m, Q, Y, Z
<1> HIDE DEF n, m
<1>12. p < 0 \/ p >= 0
  BY <1>1
<1>13. r < 0 \/ r >= 0
  BY <1>1
<1> QED
  BY <1>9, <1>10, <1>11, <1>12, <1>13

\* The peak of a vector of numbers is the greatest magnitude in it, and somewhere
\* attained.
LEMMA PeakIsReached ==
    ASSUME NEW x \in Seq(Int), ~HasNaN(x)
    PROVE  /\ Peak(x) \in Nat
           /\ \A i \in DOMAIN x : Magnitude(x[i]) <= Peak(x)
           /\ ~IsZero(x) => Peak(x) > 0 /\ \E i \in DOMAIN x : Magnitude(x[i]) = Peak(x)
           /\ IsZero(x) => Peak(x) = 0
<1> DEFINE D == DOMAIN x
           w == [j \in D |-> Magnitude(x[j])]
           T == {0} \cup {Magnitude(x[i]) : i \in D}
<1>1. \A j \in D : x[j] \in Int /\ w[j] = Magnitude(x[j]) /\ w[j] \in Nat
  BY DEF Magnitude
<1>2. IsFiniteSet(D)
  <2>1. D = 1 .. Len(x) /\ Len(x) \in Nat
    OBVIOUS
  <2> QED
    BY <2>1, FS_Interval
<1>3. Peak(x) = Max(T)
  <2>1. {j \in DOMAIN x : x[j] # NaN} = D
    BY DEF HasNaN
  <2> QED
    BY <2>1 DEF Peak
<1> HIDE DEF w
<1>4. PICK bound \in Nat : \A j \in D : w[j] <= bound
  <2> HIDE DEF D
  <2> QED
    BY <1>1, <1>2, FiniteHasGreatest
<1>5. T \in SUBSET Nat /\ T # {} /\ \A n \in T : n <= bound
  BY <1>1, <1>4
<1>6. PICK top \in T : \A n \in T : n <= top
  <2>1. T \in SUBSET Int /\ bound \in Int
    BY <1>5
  <2> HIDE DEF T
  <2> QED
    BY <1>5, <2>1, GreatestInteger
<1>7. Max(T) \in T /\ \A n \in T : Max(T) >= n
  <2>1. \A n \in T : top >= n
    BY <1>5, <1>6
  <2> HIDE DEF T
  <2> QED
    BY <1>6, <2>1 DEF Max
<1> DEFINE peak == Max(T)
<1>8. peak \in T /\ \A n \in T : n <= peak
  <2> HIDE DEF T
  <2> QED
    BY <1>5, <1>7
<1> HIDE DEF peak
<1>9. peak \in Nat /\ (\A i \in D : Magnitude(x[i]) <= peak)
  BY <1>5, <1>8
<1>10. ~IsZero(x) => peak > 0 /\ \E i \in D : Magnitude(x[i]) = peak
  <2>1. SUFFICES ASSUME ~IsZero(x)
                 PROVE  peak > 0 /\ \E i \in D : Magnitude(x[i]) = peak
    OBVIOUS
  <2>2. PICK i \in D : x[i] # 0
    BY <2>1 DEF IsZero
  <2>3. Magnitude(x[i]) > 0
    BY <1>1, <2>2 DEF Magnitude
  <2>4. peak > 0
    BY <1>1, <1>9, <2>3
  <2> QED
    BY <1>8, <2>4
<1>11. IsZero(x) => peak = 0
  BY <1>8 DEF IsZero, Magnitude
<1> QED
  BY <1>3, <1>9, <1>10, <1>11 DEF peak

\* c is a code for x where the peak is p: within half a code, on the same
\* side, and the peak's is the last one.
IsCode(c, x, p) ==
    /\ c \in -127 .. 127
    /\ x * c >= 0
    /\ 2 * (p * c - 127 * x) \in -p .. p
    /\ Magnitude(x) = p => Magnitude(c) = 127

\* Half a code of error, in units that make both whole.
LEMMA CodeIsClose ==
    ASSUME NEW p \in Nat \ {0}, NEW x \in Int, x # NaN, Magnitude(x) <= p
    PROVE  IsCode(Code(x, p), x, p)
<1> DEFINE m == Magnitude(x)
           upper == 254 * m + p
           lower == 2 * p
           size == upper \div lower
<1>1. m \in Nat /\ m <= p /\ (x = m \/ x = -m) /\ (x < 0 => x = -m /\ m > 0) /\ (x >= 0 => x = m)
  BY DEF Magnitude
<1> HIDE DEF m
<1>2. upper \in Nat /\ lower \in Nat \ {0}
  BY <1>1
<1>3. size \in Nat /\ upper = lower * size + (upper % lower) /\ upper % lower \in 0 .. lower - 1
  <2> HIDE DEF upper, lower
  <2> QED
    BY <1>2
<1> DEFINE rest == upper % lower
<1> HIDE DEF size, rest
<1>4. 254 * m + p = 2 * (p * size) + rest /\ rest \in 0 .. 2 * p - 1
  BY <1>3 DEF rest
<1> DEFINE ps == p * size
<1>5. ps \in Int /\ 2 * ps <= 255 * p
  BY <1>1, <1>3, <1>4
<1>6. size <= 127
  <2>1. SUFFICES ASSUME size >= 128
                 PROVE  FALSE
    BY <1>3
  <2>2. 128 * p <= size * p /\ size * p = ps
    BY <1>3, <2>1, ProductsGrow
  <2> HIDE DEF ps
  <2> QED
    BY <1>5, <2>2
<1>7. Code(x, p) = IF x < 0 THEN -size ELSE size
  <2>1. AtMost(size, 127) = size
    BY <1>3, <1>6 DEF AtMost
  <2> QED
    BY <2>1 DEF Code, size, upper, lower, m
<1>8. m = p => size = 127
  <2>1. SUFFICES ASSUME m = p, size <= 126
                 PROVE  FALSE
    BY <1>3, <1>6
  <2>2. size * p <= 126 * p /\ size * p = ps
    BY <1>3, <2>1, ProductsGrow
  <2> HIDE DEF ps
  <2> QED
    BY <1>4, <1>5, <2>1, <2>2 DEF ps
<1>9. 2 * (ps - 127 * m) \in -p .. p /\ 2 * (127 * m - ps) \in -p .. p
  <2> HIDE DEF ps
  <2> QED
    BY <1>1, <1>4, <1>5 DEF ps
<1> DEFINE c == Code(x, p)
<1> HIDE DEF c
<1>10. c = IF x < 0 THEN -size ELSE size
  BY <1>7 DEF c
<1>11. CASE x < 0
  <2>1. c = -size /\ x = -m
    BY <1>1, <1>10, <1>11
  <2>2. x * c = m * size /\ m * size >= 0 /\ p * c = -ps
    BY <1>1, <1>3, <2>1
  <2>3. 2 * (p * c - 127 * x) = 2 * (127 * m - ps)
    <3> HIDE DEF ps
    <3> QED
      BY <1>1, <1>5, <2>1, <2>2
  <2>4. c \in -127 .. 127 /\ (m = p => Magnitude(c) = 127)
    BY <1>3, <1>6, <1>8, <2>1 DEF Magnitude
  <2> QED
    BY <1>9, <1>11, <2>2, <2>3, <2>4 DEF c, m, IsCode
<1>12. CASE ~(x < 0)
  <2>1. c = size /\ x = m
    BY <1>1, <1>10, <1>12
  <2>2. x * c >= 0 /\ p * c = ps
    BY <1>1, <1>3, <2>1
  <2>3. 2 * (p * c - 127 * x) = 2 * (ps - 127 * m)
    <3> HIDE DEF ps
    <3> QED
      BY <1>1, <1>5, <2>1, <2>2
  <2>4. c \in -127 .. 127 /\ (m = p => Magnitude(c) = 127)
    BY <1>3, <1>6, <1>8, <2>1 DEF Magnitude
  <2> QED
    BY <1>9, <2>2, <2>3, <2>4 DEF c, m, IsCode
<1> QED
  BY <1>11, <1>12

\* z is within half a p of y at every coordinate, and long enough.
Codes(y, z, p) ==
    /\ \A i \in DOMAIN y : 2 * (z[i] - y[i]) \in -p .. p
    /\ 16129 * (p * p) <= Dot(z, z)

\* K hundredths are what half a code in 127 may cost in n dimensions.
Covers(K, n) == 2500 * n <= 16129 * (K * K)

LEMMA ApartIfClose ==
    ASSUME NEW y \in Seq(Int), NEW z \in Seq(Int), Len(y) = Len(z), NEW p \in Nat, NEW K \in Nat,
           Codes(y, z, p), Covers(K, Len(y))
    PROVE  Apart(y, z, K)
<1> DEFINE e == Mix(1, z, -1, y)
           n == Len(y)
           pp == p * p
           KK == K * K
           Z == Dot(z, z)
           E == Dot(e, e)
<1>1. DOMAIN y = DOMAIN z /\ \A i \in DOMAIN y : y[i] \in Int /\ z[i] \in Int
  BY TermsAre
<1>2. /\ e \in Seq(Int) /\ Len(e) = n /\ DOMAIN e = DOMAIN y
      /\ \A i \in DOMAIN y : e[i] = 1 * z[i] + (-1) * y[i]
  <2>1. 1 \in Int /\ -1 \in Int
    OBVIOUS
  <2>2. e \in Seq(Int) /\ Len(e) = n /\ \A i \in DOMAIN z : e[i] = 1 * z[i] + (-1) * y[i]
    BY <2>1, MixIsVector
  <2>3. DOMAIN e = 1 .. Len(e) /\ DOMAIN y = 1 .. Len(y)
    BY <2>2
  <2> HIDE DEF e
  <2> QED
    BY <1>1, <2>2, <2>3
<1> HIDE DEF e
<1>3. ASSUME NEW i \in DOMAIN y
      PROVE  4 * (e[i] * e[i]) <= pp
  <2> DEFINE d == e[i]
             m == IF d < 0 THEN -(2 * d) ELSE 2 * d
  <2>1. d \in Int /\ 2 * d \in -p .. p
    BY <1>1, <1>2 DEF Codes
  <2> HIDE DEF d
  <2>2. m \in Nat /\ m <= p /\ m * m = 4 * (d * d)
    BY <2>1
  <2> HIDE DEF m
  <2>3. m * m <= p * p
    BY <2>2, SquareGrows
  <2> QED
    BY <2>2, <2>3 DEF d
<1>4. 4 * E <= n * pp
  <2>1. pp \in Int /\ 4 \in Int
    OBVIOUS
  <2> HIDE DEF pp
  <2>2. Below(e, 4, pp)
    BY <1>2, <1>3 DEF Below
  <2> QED
    BY <1>2, <2>1, <2>2, NormIsNat
<1>5. pp \in Nat /\ KK \in Nat /\ n \in Nat /\ Z \in Nat /\ E \in Nat
  <2>1. Z \in Nat /\ E \in Nat
    BY <1>2, NormIsNat
  <2> QED
    BY <2>1
<1> HIDE DEF pp, KK, n, Z, E
<1>6. 16129 * pp <= Z /\ 2500 * n <= 16129 * KK
  BY DEF pp, KK, n, Z, Codes, Covers
<1>7. 10000 * E <= 2500 * (n * pp) /\ n * pp \in Int
  BY <1>4, <1>5
<1>8. (2500 * n) * pp <= (16129 * KK) * pp
  <2>1. 2500 * n \in Int /\ 16129 * KK \in Int
    BY <1>5
  <2> QED
    BY <1>5, <1>6, <2>1, ProductsGrow
<1>9. (16129 * pp) * KK <= Z * KK
  <2>1. 16129 * pp \in Int
    BY <1>5
  <2> QED
    BY <1>5, <1>6, <2>1, ProductsGrow
<1>10. /\ (2500 * n) * pp = 2500 * (n * pp) /\ (16129 * KK) * pp = (16129 * pp) * KK
       /\ (16129 * pp) * KK \in Int /\ Z * KK \in Int /\ Z * KK = KK * Z
  BY <1>5
<1>11. 10000 * E <= KK * Z
  BY <1>5, <1>7, <1>8, <1>9, <1>10
<1> QED
  BY <1>11 DEF Apart, KK, Z, E, e

\* ... the code of a vector points as near to it as half a code in 127 of its
\* peak, at every coordinate, can leave it.
LEMMA CodesAreNear ==
    ASSUME NEW q \in Seq(Int), NEW x \in Seq(Int), Len(x) = Len(q),
           NEW K \in Nat, Covers(K, Len(q)),
           ~HasNaN(x), ~IsZero(x), Dot(q, q) > 0
    PROVE  /\ ~IsZero(Quantised(x))
           /\ Near(Hundredths(Dot(q, Quantised(x)), Dot(q, q) * Dot(Quantised(x), Quantised(x))),
                   Hundredths(Dot(q, x), Dot(q, q) * Dot(x, x)), K)
<1> DEFINE p == Peak(x)
           c == Quantised(x)
           D == DOMAIN x
           y == Mix(127, x, 0, x)
           z == Mix(p, c, 0, c)
<1>1. p \in Nat \ {0} /\ \A i \in D : Magnitude(x[i]) <= p
  BY PeakIsReached
<1>2. PICK j \in D : Magnitude(x[j]) = p
  BY PeakIsReached
<1>3. c \in Seq(Int) /\ Len(c) = Len(x) /\ \A i \in D : c[i] = Code(x[i], p)
  <2>1. c = [i \in D |-> Code(x[i], p)]
    BY DEF Quantised
  <2>2. DOMAIN c = D /\ c \in Seq(Int)
    BY QuantisedIsClean DEF Quantised
  <2>3. Len(c) = Len(x)
    <3> HIDE DEF c
    <3> QED
      BY <2>2
  <2> QED
    BY <2>1, <2>2, <2>3
<1> HIDE DEF p, c
<1>4. \A i \in D : x[i] \in Int /\ x[i] # NaN
  BY DEF HasNaN
<1>5. ASSUME NEW i \in D
      PROVE  /\ c[i] \in Int /\ x[i] * c[i] >= 0
             /\ 2 * (p * c[i] - 127 * x[i]) \in -p .. p
             /\ Magnitude(x[i]) = p => Magnitude(c[i]) = 127
  <2> DEFINE v == x[i]
             d == c[i]
  <2>1. v \in Int /\ v # NaN /\ Magnitude(v) <= p /\ d = Code(v, p)
    BY <1>1, <1>3, <1>4
  <2> HIDE DEF v, d
  <2>2. IsCode(d, v, p)
    BY <1>1, <2>1, CodeIsClose
  <2>3. /\ d \in Int /\ v * d >= 0 /\ 2 * (p * d - 127 * v) \in -p .. p
        /\ Magnitude(v) = p => Magnitude(d) = 127
    BY <2>2 DEF IsCode
  <2> QED
    BY <2>3 DEF v, d
<1>6. y \in Seq(Int) /\ Len(y) = Len(x) /\ \A i \in D : y[i] = 127 * x[i]
  <2>1. 127 \in Int /\ 0 \in Int
    OBVIOUS
  <2>2. y \in Seq(Int) /\ Len(y) = Len(x) /\ \A i \in D : y[i] = 127 * x[i] + 0 * x[i]
    BY <2>1, MixIsVector
  <2> HIDE DEF y
  <2> QED
    BY <1>4, <2>2
<1>7. z \in Seq(Int) /\ Len(z) = Len(x) /\ \A i \in D : z[i] = p * c[i]
  <2>1. p \in Int /\ 0 \in Int /\ DOMAIN c = D
    BY <1>1, <1>3
  <2>2. z \in Seq(Int) /\ Len(z) = Len(c) /\ \A i \in DOMAIN c : z[i] = p * c[i] + 0 * c[i]
    BY <1>3, <2>1, MixIsVector
  <2> HIDE DEF z, D
  <2> QED
    BY <1>1, <1>3, <1>5, <2>1, <2>2
<1>8. Dot(q, y) = 127 * Dot(q, x) /\ Dot(y, y) = 127 * 127 * Dot(x, x)
  <2>1. 127 \in Int /\ 0 \in Int /\ y = Mix(127, x, 0, x)
    OBVIOUS
  <2>2. Dot(q, y) = 127 * Dot(q, x) + 0 * Dot(q, x)
    BY <2>1, DotOfMix
  <2> HIDE DEF y
  <2>3. Dot(y, y) = 127 * 127 * Dot(x, x) + 2 * (127 * 0) * Dot(x, x) + 0 * 0 * Dot(x, x)
    BY <2>1, SquareOfMix
  <2>4. Dot(q, x) \in Int /\ Dot(x, x) \in Int
    BY DotIsNumber
  <2> QED
    BY <2>2, <2>3, <2>4
<1>9. Dot(q, z) = p * Dot(q, c) /\ Dot(z, z) = p * p * Dot(c, c)
  <2>1. p \in Int /\ 0 \in Int /\ z = Mix(p, c, 0, c)
    BY <1>1
  <2>2. Dot(q, z) = p * Dot(q, c) + 0 * Dot(q, c)
    BY <1>3, <2>1, DotOfMix
  <2> HIDE DEF z
  <2>3. Dot(z, z) = p * p * Dot(c, c) + 2 * (p * 0) * Dot(c, c) + 0 * 0 * Dot(c, c)
    BY <1>3, <2>1, SquareOfMix
  <2>4. Dot(q, c) \in Int /\ Dot(c, c) \in Int
    BY <1>3, DotIsNumber
  <2> QED
    BY <1>1, <2>2, <2>3, <2>4
<1> HIDE DEF y, z
<1>10. DOMAIN y = D /\ DOMAIN z = D
  BY <1>6, <1>7
<1>11. 16129 * (p * p) <= Dot(y, y) /\ 16129 * (p * p) <= Dot(z, z)
  <2>1. y[j] * y[j] <= Dot(y, y) /\ z[j] * z[j] <= Dot(z, z)
    BY <1>6, <1>7, <1>10, NormIsNat
  <2>2. x[j] = p \/ x[j] = -p
    BY <1>1, <1>2, <1>4 DEF Magnitude
  <2>3. c[j] = 127 \/ c[j] = -127
    <3>1. c[j] \in Int /\ Magnitude(c[j]) = 127
      BY <1>2, <1>5
    <3> QED
      BY <3>1 DEF Magnitude
  <2>4. y[j] * y[j] = 16129 * (p * p)
    <3>1. y[j] = 127 * p \/ y[j] = 127 * (-p)
      BY <1>6, <2>2
    <3> QED
      BY <1>1, <3>1
  <2>5. z[j] * z[j] = 16129 * (p * p)
    <3>1. z[j] = p * 127 \/ z[j] = p * (-127)
      BY <1>7, <2>3
    <3> QED
      BY <1>1, <3>1
  <2> QED
    BY <2>1, <2>4, <2>5
<1>12. Apart(y, z, K) /\ Apart(z, y, K)
  <2>1. \A i \in D : 2 * (z[i] - y[i]) \in -p .. p
    BY <1>5, <1>6, <1>7
  <2>2. \A i \in D : 2 * (y[i] - z[i]) \in -p .. p
    <3>1. \A i \in D : y[i] \in Int /\ z[i] \in Int
      BY <1>6, <1>7, <1>10
    <3> HIDE DEF D
    <3> QED
      BY <1>1, <2>1, <3>1
  <2>3. Codes(y, z, p) /\ Codes(z, y, p)
    BY <1>10, <1>11, <2>1, <2>2 DEF Codes
  <2>4. Covers(K, Len(y)) /\ Covers(K, Len(z)) /\ p \in Nat
    BY <1>1, <1>6, <1>7
  <2>5. Apart(y, z, K)
    BY <1>6, <1>7, <2>3, <2>4, ApartIfClose
  <2>6. Apart(z, y, K)
    BY <1>6, <1>7, <2>3, <2>4, ApartIfClose
  <2> QED
    BY <2>5, <2>6
<1>13. Dot(y, y) > 0 /\ Dot(z, z) > 0
  <2>1. p * p > 0
    BY <1>1
  <2>2. Dot(y, y) \in Int /\ Dot(z, z) \in Int /\ p * p \in Int
    BY <1>1, <1>6, <1>7, DotIsNumber
  <2> QED
    BY <1>11, <2>1, <2>2
<1>14. Dot(y, z) >= 0
  <2>1. ASSUME NEW i \in D
        PROVE  y[i] * z[i] >= 0
    <3> DEFINE v == x[i]
               d == c[i]
               s == v * d
    <3>1. v * d >= 0 /\ v \in Int /\ d \in Int
      BY <1>4, <1>5
    <3>2. y[i] = 127 * v /\ z[i] = p * d
      BY <1>6, <1>7
    <3> HIDE DEF v, d
    <3>3. y[i] * z[i] = 127 * (p * s) /\ s >= 0 /\ s \in Int
      BY <1>1, <3>1, <3>2
    <3> HIDE DEF s
    <3>4. p * s >= 0 /\ p * s \in Int
      BY <1>1, <3>3
    <3> QED
      BY <3>3, <3>4
  <2>2. Dot(y, z) \in Nat
    BY <1>6, <1>7, <1>10, <2>1, DotIsNat
  <2> QED
    BY <2>2
<1>15. Near(Hundredths(Dot(q, z), Dot(q, q) * Dot(z, z)),
            Hundredths(Dot(q, y), Dot(q, q) * Dot(y, y)), K)
  BY <1>6, <1>7, <1>12, <1>13, <1>14, CloseScores
<1>16. Hundredths(Dot(q, y), Dot(q, q) * Dot(y, y)) = Hundredths(Dot(q, x), Dot(q, q) * Dot(x, x))
  <2> DEFINE d == Dot(q, x)
             n == Dot(q, q) * Dot(x, x)
  <2>1. d \in Int /\ Dot(q, q) \in Nat /\ Dot(x, x) \in Nat
    BY DotIsNumber, NormIsNat
  <2>2. n \in Nat /\ Dot(q, q) * (127 * 127 * Dot(x, x)) = 127 * 127 * n
    BY <2>1
  <2> HIDE DEF n, d
  <2>3. Hundredths(127 * d, 127 * 127 * n) = Hundredths(d, n)
    BY <2>1, <2>2, HundredthsScale
  <2> QED
    BY <1>8, <2>2, <2>3 DEF n, d
<1>17. Hundredths(Dot(q, z), Dot(q, q) * Dot(z, z)) = Hundredths(Dot(q, c), Dot(q, q) * Dot(c, c))
  <2> DEFINE d == Dot(q, c)
             n == Dot(q, q) * Dot(c, c)
  <2>1. d \in Int /\ Dot(q, q) \in Nat /\ Dot(c, c) \in Nat
    BY <1>3, DotIsNumber, NormIsNat
  <2>2. n \in Nat /\ Dot(q, q) * (p * p * Dot(c, c)) = p * p * n
    BY <1>1, <2>1
  <2> HIDE DEF n, d
  <2>3. Hundredths(p * d, p * p * n) = Hundredths(d, n)
    BY <1>1, <2>1, <2>2, HundredthsScale
  <2> QED
    BY <1>9, <2>2, <2>3 DEF n, d
<1>18. ~IsZero(c)
  <2>1. j \in DOMAIN c /\ c[j] # 0
    BY <1>2, <1>3, <1>5 DEF Magnitude
  <2> QED
    BY <2>1 DEF IsZero
<1> QED
  BY <1>15, <1>16, <1>17, <1>18 DEF c

LEMMA ZeroIsQuantised ==
    ASSUME NEW x \in Seq(Int), IsZero(x)
    PROVE  IsZero(Quantised(x))
<1>1. \A i \in DOMAIN x : x[i] = 0
  BY DEF IsZero
<1>2. ~HasNaN(x)
  BY <1>1 DEF HasNaN, NaN
<1>3. Peak(x) = 0
  BY <1>2, PeakIsReached
<1>4. Quantised(x) = [i \in DOMAIN x |-> 0]
  BY <1>3 DEF Quantised, Code
<1> QED
  BY <1>4 DEF IsZero

\* What the int8 index makes of a number's score is a number, and near it.
LEMMA QuantisedIsNear ==
    ASSUME NEW q \in Seq(Int), NEW x \in Seq(Int),
           NEW K \in Nat, Covers(K, Len(q)), ScoreUnder("f32", q, x) # NaN
    PROVE  /\ ScoreUnder("int8", q, x) # NaN
           /\ Near(ScoreUnder("int8", q, x), ScoreUnder("f32", q, x), K)
<1> DEFINE c == Quantised(x)
<1>1. ScoreUnder("f32", q, x) = CosineSimilarity(q, x) /\ ScoreUnder("int8", q, x) = CosineSimilarity(q, c)
  BY DEF ScoreUnder
<1>2. c \in Seq(Int) /\ Len(c) = Len(x) /\ ~HasNaN(c)
  <2>1. DOMAIN c = DOMAIN x /\ c \in Seq(Int) /\ ~HasNaN(c)
    BY QuantisedIsClean DEF Quantised
  <2> HIDE DEF c
  <2> QED
    BY <2>1
<1>3. CASE Len(x) # Len(q) \/ q = << >> \/ IsZero(q) \/ IsZero(x)
  <2>1. CosineSimilarity(q, x) = 0
    BY <1>3 DEF CosineSimilarity
  <2>2. CosineSimilarity(q, c) = 0
    <3>1. Len(c) # Len(q) \/ q = << >> \/ IsZero(q) \/ IsZero(c)
      BY <1>2, <1>3, ZeroIsQuantised
    <3> HIDE DEF c
    <3> QED
      BY <3>1 DEF CosineSimilarity
  <2>3. Near(0, 0, K) /\ 0 # NaN
    BY DEF Near, NaN
  <2> QED
    BY <1>1, <2>1, <2>2, <2>3
<1>4. CASE ~(Len(x) # Len(q) \/ q = << >> \/ IsZero(q) \/ IsZero(x))
  <2>1. ~HasNaN(q) /\ ~HasNaN(x)
    BY <1>1, <1>4 DEF CosineSimilarity
  <2>2. Dot(q, q) > 0
    <3>1. PICK i \in DOMAIN q : q[i] # 0
      BY <1>4 DEF IsZero
    <3>2. q[i] \in Int /\ q[i] * q[i] > 0
      <4>1. q[i] \in Int
        OBVIOUS
      <4> QED
        BY <3>1, <4>1
    <3>3. q[i] * q[i] <= Dot(q, q) /\ Dot(q, q) \in Nat
      BY NormIsNat
    <3> QED
      BY <3>2, <3>3
  <2>3. /\ ~IsZero(c)
        /\ Near(Hundredths(Dot(q, c), Dot(q, q) * Dot(c, c)),
                Hundredths(Dot(q, x), Dot(q, q) * Dot(x, x)), K)
    BY <1>4, <2>1, <2>2, CodesAreNear
  <2> HIDE DEF c
  <2>4. CosineSimilarity(q, x) = Hundredths(Dot(q, x), Dot(q, q) * Dot(x, x))
    BY <1>4, <2>1 DEF CosineSimilarity
  <2>5. CosineSimilarity(q, c) = Hundredths(Dot(q, c), Dot(q, q) * Dot(c, c))
    BY <1>2, <1>4, <2>1, <2>3 DEF CosineSimilarity
  <2>6. CosineSimilarity(q, c) \in -100 .. 100
    BY <1>2, <2>1, CosineBounded
  <2>7. CosineSimilarity(q, c) # NaN
    <3>1. \A score \in -100 .. 100 : score # NaN
      BY DEF NaN
    <3> QED
      BY <2>6, <3>1
  <2> QED
    BY <1>1, <2>3, <2>4, <2>5, <2>7
<1> QED
  BY <1>3, <1>4
=============================================================================
