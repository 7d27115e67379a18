-------------------------- MODULE AllocationProofs --------------------------
(***************************************************************************)
(* Proofs about the numbers shown, for any quantities, any unit and any    *)
(* pods: what rounding may do to a percentage, and what the passes over a  *)
(* pod's containers keep.                                                  *)
(***************************************************************************)
EXTENDS Allocation, FiniteSetTheorems, TLAPS

-----------------------------------------------------------------------------
(* Rounding.                                                               *)

LEMMA Cancel ==
  ASSUME NEW a \in Int, NEW b \in Int, NEW s \in Nat \ {0}, s * a < s * b
  PROVE  a < b
  OBVIOUS

LEMMA Monotone ==
  ASSUME NEW a \in Int, NEW b \in Int, NEW s \in Nat, a <= b
  PROVE  s * a <= s * b
  OBVIOUS

\* The quotient and what is left of it.
LEMMA Division ==
  ASSUME NEW a \in Nat, NEW b \in Nat \ {0}
  PROVE  /\ a \div b \in Nat /\ a % b \in Nat
         /\ b * (a \div b) <= a /\ a < b * (a \div b) + b
         /\ a = b * (a \div b) + (a % b)
  OBVIOUS

LEMMA UnitsRound ==
  ASSUME NEW q \in Nat
  PROVE  /\ Units(q) \in Nat
         /\ q <= Scale * Units(q) /\ Scale * Units(q) < q + Scale
  BY QuantitiesAssumption, Division DEF Units

\* Rounding up keeps the order, and keeps what is more than nothing.
LEMMA UnitsKeepOrder ==
  ASSUME NEW q \in Nat, NEW p \in Nat, q <= p
  PROVE  Units(q) <= Units(p)
  <1>1. Units(q) \in Nat /\ Units(p) \in Nat /\ Scale \in Nat \ {0}
    BY UnitsRound, QuantitiesAssumption
  <1>2. Scale * Units(q) < Scale * Units(p) + Scale
    <2>1. Scale * Units(q) < q + Scale /\ p <= Scale * Units(p)
      BY UnitsRound
    <2>2. Scale * Units(q) \in Nat /\ Scale * Units(p) \in Nat
      BY <1>1
    <2> QED
      BY <1>1, <2>1, <2>2
  <1>3. Scale * Units(q) < Scale * (Units(p) + 1)
    BY <1>1, <1>2
  <1>4. Units(q) < Units(p) + 1
    BY <1>1, <1>3, Cancel
  <1> QED
    BY <1>1, <1>4

LEMMA UnitsOfSome ==
  ASSUME NEW q \in Nat, 0 < q
  PROVE  0 < Units(q)
  BY UnitsRound, QuantitiesAssumption

\* Whole units are shown as they are.
LEMMA UnitsExact ==
  ASSUME NEW k \in Nat
  PROVE  Scale * k \in Nat /\ Units(Scale * k) = k
  <1> DEFINE u == Units(Scale * k)
  <1>1. Scale * k \in Nat /\ Scale \in Nat \ {0}
    BY QuantitiesAssumption
  <1>2. u \in Nat /\ Scale * k <= Scale * u /\ Scale * u < Scale * k + Scale
    BY <1>1, UnitsRound
  <1> HIDE DEF u
  <1>3. Scale * u < Scale * (k + 1)
    BY <1>1, <1>2
  <1>4. u < k + 1
    BY <1>1, <1>2, <1>3, Cancel
  <1>5. Scale * k < Scale * (u + 1)
    BY <1>1, <1>2
  <1>6. k < u + 1
    BY <1>1, <1>2, <1>5, Cancel
  <1> QED
    BY <1>1, <1>2, <1>4, <1>6 DEF u

\* A percentage is within a hundredth of what it stands for.
LEMMA PercentageNear ==
  ASSUME NEW x \in Nat, NEW d \in Nat \ {0}, NEW pct \in calcPercentage(x, d)
  PROVE  /\ pct \in Nat
         /\ (2 * d) * pct <= 20000 * x + d
         /\ 20000 * x + d <= (2 * d) * (pct + 1)
  <1> DEFINE doubled == 20000 * x + d
             nearest == doubled \div (2 * d)
             rest == doubled % (2 * d)
  <1>1. doubled \in Nat /\ 2 * d \in Nat \ {0} /\ d <= doubled
    OBVIOUS
  <1>2. pct = nearest \/ (rest = 0 /\ pct = nearest - 1)
    BY DEF calcPercentage
  <1> HIDE DEF doubled
  <1>3. /\ nearest \in Nat /\ rest \in Nat
        /\ (2 * d) * nearest <= doubled /\ doubled < (2 * d) * nearest + 2 * d
        /\ doubled = (2 * d) * nearest + rest
    BY <1>1, Division
  <1> HIDE DEF nearest, rest
  <1>4. CASE pct = nearest
    <2>1. (2 * d) * (nearest + 1) = (2 * d) * nearest + 2 * d
      BY <1>3
    <2> QED
      BY <1>1, <1>3, <1>4, <2>1 DEF doubled
  <1>5. CASE rest = 0 /\ pct = nearest - 1
    <2>1. nearest # 0
      <3>1. nearest = 0 => (2 * d) * nearest = 0
        OBVIOUS
      <3> QED
        BY <1>1, <1>3, <1>5, <3>1
    <2>2. pct \in Nat /\ pct + 1 = nearest
      BY <1>3, <1>5, <2>1
    <2>3. (2 * d) * nearest = (2 * d) * pct + 2 * d
      BY <2>2
    <2>4. doubled = (2 * d) * nearest /\ (2 * d) * pct \in Nat
      BY <1>1, <1>3, <1>5, <2>2
    <2> QED
      BY <1>1, <2>2, <2>3, <2>4 DEF doubled
  <1> QED
    BY <1>2, <1>4, <1>5

LEMMA PercentageNat ==
  ASSUME NEW x \in Nat, NEW d \in Nat, NEW pct \in calcPercentage(x, d)
  PROVE  pct \in Nat
  <1>1. CASE d = 0
    BY <1>1 DEF calcPercentage
  <1>2. CASE d # 0
    BY <1>2, PercentageNear
  <1> QED
    BY <1>1, <1>2

\* As much as there is, or more, is marked red.
LEMMA FullIsRed ==
  ASSUME NEW x \in Nat, NEW d \in Nat \ {0}, d <= x, NEW pct \in calcPercentage(x, d)
  PROVE  ExceedsCompare(pct) = "red"
  <1>1. pct \in Nat /\ 20000 * x + d <= (2 * d) * (pct + 1)
    BY PercentageNear
  <1>2. d * 20001 <= d * (2 * (pct + 1))
    BY <1>1
  <1>3. ~(pct <= 9500)
    <2> SUFFICES ASSUME pct <= 9500 PROVE FALSE
      OBVIOUS
    <2>1. 2 * (pct + 1) < 20001
      BY <1>1
    <2>2. d * (2 * (pct + 1)) <= d * 20000
      BY <1>1, <2>1, Monotone
    <2> QED
      BY <1>1, <1>2, <2>2
  <1> QED
    BY <1>1, <1>3 DEF ExceedsCompare, critical_threshold

\* A mark above a threshold t (in hundredths) is of more than that.
LEMMA AboveIsAbove ==
  ASSUME NEW x \in Nat, NEW d \in Nat, NEW pct \in calcPercentage(x, d),
         NEW t \in Nat, pct > 100 * t
  PROVE  100 * x > t * d
  <1>1. d # 0
    BY DEF calcPercentage
  <1>2. pct \in Nat /\ (2 * d) * pct <= 20000 * x + d
    BY <1>1, PercentageNear
  <1>3. (2 * d) * (100 * t + 1) <= (2 * d) * pct
    BY <1>2, Monotone
  <1>4. (2 * d) * (100 * t + 1) = 200 * (t * d) + 2 * d /\ t * d \in Nat /\ (2 * d) * pct \in Nat
    BY <1>2
  <1> QED
    BY <1>1, <1>2, <1>3, <1>4

-----------------------------------------------------------------------------
(* Lists of quantities.                                                    *)

LEMMA ListsCombine ==
  ASSUME NEW x, NEW y, IsResourceList(x), IsResourceList(y)
  PROVE  /\ IsResourceList(addResourceList(x, y))
         /\ IsResourceList(maxResourceList(x, y))
         /\ IsResourceList(addToNonZero(x, y))
         /\ \A r : Amount(x, r) \in Nat /\ Amount(y, r) \in Nat
         /\ \A r : Amount(addResourceList(x, y), r) = Amount(x, r) + Amount(y, r)
         /\ \A r : Amount(maxResourceList(x, y), r) = Larger(Amount(x, r), Amount(y, r))
         /\ \A r : Amount(addToNonZero(x, y), r) =
                     IF Amount(x, r) = 0 THEN 0 ELSE Amount(x, r) + Amount(y, r)
  <1>1. \A r : Amount(x, r) \in Nat /\ Amount(y, r) \in Nat
    BY DEF IsResourceList, Amount
  <1>2. DOMAIN x \subseteq Resource /\ DOMAIN y \subseteq Resource
    BY DEF IsResourceList
  <1>3. /\ IsResourceList(addResourceList(x, y))
        /\ \A r : Amount(addResourceList(x, y), r) = Amount(x, r) + Amount(y, r)
    BY <1>1, <1>2 DEF IsResourceList, addResourceList, Amount
  <1>4. /\ IsResourceList(maxResourceList(x, y))
        /\ \A r : Amount(maxResourceList(x, y), r) = Larger(Amount(x, r), Amount(y, r))
    BY <1>1, <1>2 DEF IsResourceList, maxResourceList, Larger, Amount
  <1>5. /\ IsResourceList(addToNonZero(x, y))
        /\ \A r : Amount(addToNonZero(x, y), r) =
                    IF Amount(x, r) = 0 THEN 0 ELSE Amount(x, r) + Amount(y, r)
    BY <1>1, <1>2 DEF IsResourceList, addToNonZero, Amount
  <1> QED
    BY <1>1, <1>3, <1>4, <1>5

LEMMA EmptyIsList == IsResourceList(EmptyList) /\ \A r : Amount(EmptyList, r) = 0
  BY DEF IsResourceList, EmptyList, Amount

LEMMA AmountNat ==
  ASSUME NEW x, IsResourceList(x)
  PROVE  \A r : Amount(x, r) \in Nat
  BY DEF IsResourceList, Amount

\* The element that a pass has come to.
LEMMA NextElement ==
  ASSUME NEW s, s \in Seq(Range(s)), NEW k \in 0..Len(s), k < Len(s)
  PROVE  s[k + 1] \in Range(s) /\ k + 1 \in 0..Len(s)
  BY DEF Range

LEMMA ContainerLists ==
  ASSUME NEW x, IsContainer(x)
  PROVE  /\ IsResourceList(x.requests) /\ IsResourceList(x.limits)
         /\ \A r : (r \in DOMAIN x.requests => r \in DOMAIN x.limits)
              => Amount(x.requests, r) <= Amount(x.limits, r)
  BY DEF IsContainer, IsResourceList, Amount

-----------------------------------------------------------------------------
(* Sums and maxima over positions: what the recursion of Total computes,   *)
(* by an induction that is a theorem about finite sets.                    *)

\* A set of positions has a last one: otherwise the positions up to some member
\* could be moved one up without leaving them.
LEMMA LastPosition ==
  ASSUME NEW m \in Nat, NEW S, S \subseteq 1..m, S # {}
  PROVE  \E x \in S : \A y \in S : x >= y
  <1> DEFINE U == {z \in 1..m : \E x \in S : z <= x}
  <1>1. SUFFICES ASSUME \A x \in S : \E y \in S : ~(x >= y) PROVE FALSE
    OBVIOUS
  <1>2. \A z \in U : z \in Nat /\ z + 1 \in U \ {1}
    <2> SUFFICES ASSUME NEW z \in U PROVE z \in Nat /\ z + 1 \in U \ {1}
      OBVIOUS
    <2>1. PICK x \in S : z <= x
      OBVIOUS
    <2>2. PICK y \in S : ~(x >= y)
      BY <1>1
    <2> QED
      BY <2>1, <2>2
  <1>3. 1 \in U
    <2>1. PICK x \in S : x \in 1..m
      OBVIOUS
    <2>2. 1 \in 1..m /\ 1 <= x
      BY <2>1
    <2> QED
      BY <2>1, <2>2
  <1>4. IsFiniteSet(1..m)
    BY FS_Interval
  <1>5. IsFiniteSet(U) /\ Cardinality(U) \in Nat
    BY <1>4, FS_Subset, FS_CardinalityType
  <1> HIDE DEF U
  <1>6. IsFiniteSet(U \ {1}) /\ Cardinality(U \ {1}) = Cardinality(U) - 1
    BY <1>3, <1>5, FS_RemoveElement
  <1> DEFINE f == [z \in U |-> z + 1]
  <1>7. f \in Injection(U, U \ {1})
    BY <1>2 DEF Injection, IsInjective
  <1>8. Cardinality(U) <= Cardinality(U \ {1})
    BY <1>6, <1>7, FS_Injection
  <1> QED
    BY <1>5, <1>6, <1>8

\* Induction over 0..m, for a set: the positions up to which all are in S have
\* a last one, which can only be m.
LEMMA Induction ==
  ASSUME NEW m \in Nat, NEW S, 0 \in S, \A k \in 0..m - 1 : k \in S => k + 1 \in S
  PROVE  \A k \in 0..m : k \in S
  <1> DEFINE P == {k \in 1..m + 1 : \A j \in 0..k - 1 : j \in S}
  <1>1. 1 \in P
    OBVIOUS
  <1>2. PICK k \in P : \A j \in P : k >= j
    <2>1. P \subseteq 1..m + 1 /\ m + 1 \in Nat
      OBVIOUS
    <2> QED
      BY <1>1, <2>1, LastPosition
  <1>3. CASE k = m + 1
    BY <1>3
  <1>4. CASE k # m + 1
    <2>1. k \in 1..m /\ k - 1 \in 0..m - 1 /\ \A j \in 0..k - 1 : j \in S
      BY <1>4
    <2>2. (k - 1) + 1 \in S
      BY <2>1
    <2>3. k + 1 \in P
      BY <2>1, <2>2
    <2> QED
      BY <1>2, <2>1, <2>3
  <1> QED
    BY <1>3, <1>4

\* s is the function that Total defines by recursion.
IsSums(s, f, m) == s = [k \in 0..m |-> IF k = 0 THEN 0 ELSE s[k - 1] + f[k]]

\* There is exactly one, and it is of naturals.
LEMMA SumsExist ==
  ASSUME NEW m \in Nat, NEW f, \A k \in 1..m : f[k] \in Nat
  PROVE  \E s \in [0..m -> Nat] : IsSums(s, f, m)
  <1> DEFINE S == {k \in 0..m : \E s \in [0..k -> Nat] : IsSums(s, f, k)}
  <1>1. 0 \in S
    <2> DEFINE s == [k \in 0..0 |-> 0]
    <2>1. s \in [0..0 -> Nat] /\ IsSums(s, f, 0)
      BY DEF IsSums
    <2> QED
      BY <2>1
  <1>2. ASSUME NEW k \in 0..m - 1, k \in S PROVE k + 1 \in S
    <2>1. PICK s \in [0..k -> Nat] : IsSums(s, f, k)
      BY <1>2
    <2>2. s[0] = 0 /\ \A j \in 1..k : s[j] = s[j - 1] + f[j]
      BY <2>1 DEF IsSums
    <2> DEFINE t == [j \in 0..k + 1 |-> IF j = k + 1 THEN s[k] + f[k + 1] ELSE s[j]]
    <2>3. t \in [0..k + 1 -> Nat]
      OBVIOUS
    <2>4. \A j \in 0..k + 1 : t[j] = IF j = 0 THEN 0 ELSE t[j - 1] + f[j]
      <3>1. t[0] = 0 /\ \A j \in 1..k : t[j] = t[j - 1] + f[j]
        BY <2>2
      <3>2. t[k + 1] = t[(k + 1) - 1] + f[k + 1]
        BY <2>1
      <3> HIDE DEF t
      <3>3. \A j \in 0..k + 1 : j = 0 \/ j \in 1..k \/ j = k + 1
        OBVIOUS
      <3> QED
        BY <3>1, <3>2, <3>3
    <2>5. IsSums(t, f, k + 1)
      BY <2>3, <2>4 DEF IsSums
    <2> QED
      BY <2>3, <2>5
  <1> HIDE DEF S
  <1>3. \A k \in 0..m - 1 : k \in S => k + 1 \in S
    BY <1>2
  <1>4. \A k \in 0..m : k \in S
    BY <1>1, <1>3, Induction
  <1> QED
    BY <1>4 DEF S

LEMMA SumsUnique ==
  ASSUME NEW m \in Nat, NEW f, NEW s, NEW t, IsSums(s, f, m), IsSums(t, f, m)
  PROVE  s = t
  <1> DEFINE S == {k \in 0..m : s[k] = t[k]}
  <1>1. /\ s[0] = 0 /\ t[0] = 0
        /\ \A k \in 1..m : s[k] = s[k - 1] + f[k] /\ t[k] = t[k - 1] + f[k]
    BY DEF IsSums
  <1>2. 0 \in S /\ \A k \in 0..m - 1 : k \in S => k + 1 \in S
    BY <1>1
  <1> HIDE DEF S
  <1>3. \A k \in 0..m : k \in S
    BY <1>2, Induction
  <1>4. \A k \in 0..m : s[k] = t[k]
    BY <1>3 DEF S
  <1> QED
    BY <1>4 DEF IsSums

LEMMA TotalIs ==
  ASSUME NEW m \in Nat, NEW f, NEW s, IsSums(s, f, m)
  PROVE  Total(f, m) = s[m]
  <1> DEFINE sum[k \in 0..m] == IF k = 0 THEN 0 ELSE sum[k - 1] + f[k]
  <1>1. Total(f, m) = sum[m]
    BY Zenon DEF Total
  <1>2. sum = CHOOSE t : t = [k \in 0..m |-> IF k = 0 THEN 0 ELSE t[k - 1] + f[k]]
    BY Zenon
  <1> HIDE DEF sum
  <1>3. IsSums(sum, f, m)
    BY <1>2 DEF IsSums
  <1> QED
    BY <1>1, <1>3, SumsUnique

\* What a loop that adds one quantity after the other keeps.
LEMMA TotalStep ==
  ASSUME NEW m \in Nat, NEW f, \A k \in 1..m : f[k] \in Nat
  PROVE  /\ Total(f, 0) = 0
         /\ \A k \in 0..m : Total(f, k) \in Nat
         /\ \A k \in 0..m - 1 : Total(f, k + 1) = Total(f, k) + f[k + 1]
  <1>1. PICK s \in [0..m -> Nat] : IsSums(s, f, m)
    BY SumsExist
  <1>2. s[0] = 0 /\ \A k \in 1..m : s[k] = s[k - 1] + f[k]
    BY <1>1 DEF IsSums
  <1>3. ASSUME NEW k \in 0..m PROVE Total(f, k) = s[k]
    <2> DEFINE t == [j \in 0..k |-> s[j]]
    <2>1. IsSums(t, f, k)
      BY <1>2 DEF IsSums
    <2>2. Total(f, k) = t[k]
      BY <2>1, TotalIs
    <2> QED
      BY <2>2
  <1> QED
    BY <1>2, <1>3

LEMMA TotalStarts == \A f : Total(f, 0) = 0
  <1> TAKE f
  <1>1. \A k \in 1..0 : f[k] \in Nat
    OBVIOUS
  <1> QED
    BY <1>1, TotalStep

\* a is the largest of S.
Most(a, S) == a \in S /\ \A x \in S : x <= a

\* a is what j containers together, or the largest of k init containers, need.
Passed(a, f, j, g, k) == Most(a, {Total(f, j)} \cup {g[l] : l \in 1..k})

LEMMA MostIsMax ==
  ASSUME NEW S, S \subseteq Nat, NEW a, Most(a, S)
  PROVE  Max(S) = a
  <1>1. a \in S /\ \A x \in S : a >= x
    BY DEF Most
  <1>2. Max(S) \in S /\ \A x \in S : Max(S) >= x
    BY <1>1 DEF Max
  <1>3. Max(S) >= a /\ a >= Max(S) /\ a \in Nat /\ Max(S) \in Nat
    BY <1>1, <1>2
  <1> QED
    BY <1>3

\* The three ways to go on.
LEMMA PassedStarts ==
  ASSUME NEW f, NEW g
  PROVE  Passed(0, f, 0, g, 0)
  <1>1. Total(f, 0) = 0
    BY TotalStarts
  <1>2. {g[l] : l \in 1..0} = {}
    OBVIOUS
  <1> QED
    BY <1>1, <1>2 DEF Passed, Most

LEMMA PassedAdds ==
  ASSUME NEW m \in Nat, NEW f, \A l \in 1..m : f[l] \in Nat, NEW j \in 0..m - 1,
         NEW g, NEW a, Passed(a, f, j, g, 0)
  PROVE  Passed(a + f[j + 1], f, j + 1, g, 0)
  <1>1. {g[l] : l \in 1..0} = {}
    OBVIOUS
  <1>2. a = Total(f, j)
    BY <1>1 DEF Passed, Most
  <1>3. Total(f, j + 1) = a + f[j + 1] /\ Total(f, j + 1) \in Nat
    BY <1>2, TotalStep
  <1> QED
    BY <1>1, <1>3 DEF Passed, Most

LEMMA PassedTakes ==
  ASSUME NEW f, NEW j, Total(f, j) \in Nat,
         NEW g, NEW k \in Nat, \A l \in 1..k + 1 : g[l] \in Nat,
         NEW a, Passed(a, f, j, g, k)
  PROVE  Passed(Larger(a, g[k + 1]), f, j, g, k + 1)
  <1> DEFINE S == {Total(f, j)} \cup {g[l] : l \in 1..k}
             T == {Total(f, j)} \cup {g[l] : l \in 1..k + 1}
  <1>1. T = S \cup {g[k + 1]} /\ T \subseteq Nat /\ S \subseteq Nat
    OBVIOUS
  <1>2. Most(a, S)
    BY DEF Passed
  <1> HIDE DEF S, T
  <1>3. Most(Larger(a, g[k + 1]), T)
    BY <1>1, <1>2 DEF Most, Larger
  <1> QED
    BY <1>3 DEF Passed, T

LEMMA PassedAll ==
  ASSUME NEW f, NEW j \in Nat, DOMAIN f = 1..j, Len(f) = j, Total(f, j) \in Nat,
         NEW g, NEW k \in Nat, DOMAIN g = 1..k, \A l \in 1..k : g[l] \in Nat,
         NEW a, Passed(a, f, j, g, k)
  PROVE  Needed(f, g) = a
  <1> DEFINE S == {Total(f, j)} \cup {g[l] : l \in 1..k}
  <1>1. Needed(f, g) = Max(S)
    BY DEF Needed, Range
  <1>2. S \subseteq Nat /\ Most(a, S)
    BY DEF Passed
  <1> HIDE DEF S
  <1> QED
    BY <1>1, <1>2, MostIsMax

\* Whatever is listed, something is needed: by induction over the init containers.
LEMMA NeededNat ==
  ASSUME NEW f, NEW j \in Nat, DOMAIN f = 1..j, Len(f) = j, \A l \in 1..j : f[l] \in Nat,
         NEW g, NEW k \in Nat, DOMAIN g = 1..k, \A l \in 1..k : g[l] \in Nat
  PROVE  Needed(f, g) \in Nat
  <1>1. Total(f, j) \in Nat
    <2>1. j \in 0..j
      OBVIOUS
    <2> QED
      BY <2>1, TotalStep
  <1> DEFINE S == {l \in 0..k : \E a \in Nat : Passed(a, f, j, g, l)}
  <1>2. 0 \in S
    <2>1. Passed(Total(f, j), f, j, g, 0)
      <3>1. {g[l] : l \in 1..0} = {}
        OBVIOUS
      <3> QED
        BY <1>1, <3>1 DEF Passed, Most
    <2> QED
      BY <1>1, <2>1
  <1>3. ASSUME NEW l \in 0..k - 1, l \in S PROVE l + 1 \in S
    <2>1. PICK a \in Nat : Passed(a, f, j, g, l)
      BY <1>3
    <2>2. Passed(Larger(a, g[l + 1]), f, j, g, l + 1)
      <3>1. l \in Nat /\ \A x \in 1..l + 1 : g[x] \in Nat
        OBVIOUS
      <3> QED
        BY <1>1, <2>1, <3>1, PassedTakes
    <2>3. Larger(a, g[l + 1]) \in Nat
      BY DEF Larger
    <2> QED
      BY <2>2, <2>3
  <1>4. \A l \in 0..k - 1 : l \in S => l + 1 \in S
    BY <1>3
  <1> HIDE DEF S
  <1>5. \A l \in 0..k : l \in S
    BY <1>2, <1>4, Induction
  <1>6. PICK a \in Nat : Passed(a, f, j, g, k)
    BY <1>5 DEF S
  <1> QED
    BY <1>1, <1>6, PassedAll

\* What is listed of a pod's containers is as many naturals as there are containers.
LEMMA Listed ==
  ASSUME NEW s, IsContainers(s), NEW r
  PROVE  /\ Len(s) \in Nat
         /\ DOMAIN RequestsIn(s, r) = 1..Len(s) /\ Len(RequestsIn(s, r)) = Len(s)
         /\ DOMAIN LimitsIn(s, r) = 1..Len(s) /\ Len(LimitsIn(s, r)) = Len(s)
         /\ \A k \in 1..Len(s) :
              /\ RequestsIn(s, r)[k] = Amount(s[k].requests, r) /\ RequestsIn(s, r)[k] \in Nat
              /\ LimitsIn(s, r)[k] = Amount(s[k].limits, r) /\ LimitsIn(s, r)[k] \in Nat
  <1>1. s \in Seq(Range(s)) /\ \A x \in Range(s) : IsContainer(x)
    BY DEF IsContainers
  <1>2. /\ Len(s) \in Nat /\ DOMAIN s = 1..Len(s)
        /\ Len(RequestsIn(s, r)) = Len(s) /\ Len(LimitsIn(s, r)) = Len(s)
    BY <1>1 DEF RequestsIn, LimitsIn
  <1>3. \A k \in 1..Len(s) : IsContainer(s[k])
    BY <1>1, <1>2 DEF Range
  <1>4. \A k \in 1..Len(s) : Amount(s[k].requests, r) \in Nat /\ Amount(s[k].limits, r) \in Nat
    BY <1>3, ContainerLists, AmountNat
  <1> QED
    BY <1>2, <1>4 DEF RequestsIn, LimitsIn

LEMMA EffectiveNat ==
  ASSUME NEW p, IsPod(p), NEW r
  PROVE  EffectiveRequest(p, r) \in Nat /\ EffectiveLimit(p, r) \in Nat
  <1>1. IsContainers(p.containers) /\ IsContainers(p.initContainers) /\ Amount(p.overhead, r) \in Nat
    BY AmountNat DEF IsPod
  <1>2. Needed(RequestsIn(p.containers, r), RequestsIn(p.initContainers, r)) \in Nat
    <2>1. /\ Len(p.containers) \in Nat
          /\ DOMAIN RequestsIn(p.containers, r) = 1..Len(p.containers)
          /\ Len(RequestsIn(p.containers, r)) = Len(p.containers)
          /\ \A k \in 1..Len(p.containers) : RequestsIn(p.containers, r)[k] \in Nat
      BY <1>1, Listed
    <2>2. /\ Len(p.initContainers) \in Nat
          /\ DOMAIN RequestsIn(p.initContainers, r) = 1..Len(p.initContainers)
          /\ \A k \in 1..Len(p.initContainers) : RequestsIn(p.initContainers, r)[k] \in Nat
      BY <1>1, Listed
    <2> QED
      BY <2>1, <2>2, NeededNat
  <1>3. Needed(LimitsIn(p.containers, r), LimitsIn(p.initContainers, r)) \in Nat
    <2>1. /\ Len(p.containers) \in Nat
          /\ DOMAIN LimitsIn(p.containers, r) = 1..Len(p.containers)
          /\ Len(LimitsIn(p.containers, r)) = Len(p.containers)
          /\ \A k \in 1..Len(p.containers) : LimitsIn(p.containers, r)[k] \in Nat
      BY <1>1, Listed
    <2>2. /\ Len(p.initContainers) \in Nat
          /\ DOMAIN LimitsIn(p.initContainers, r) = 1..Len(p.initContainers)
          /\ \A k \in 1..Len(p.initContainers) : LimitsIn(p.initContainers, r)[k] \in Nat
      BY <1>1, Listed
    <2> QED
      BY <2>1, <2>2, NeededNat
  <1> QED
    BY <1>1, <1>2, <1>3 DEF EffectiveRequest, EffectiveLimit

-----------------------------------------------------------------------------
(* The inductive invariant.                                                *)

\* The init containers come after the containers, the overhead comes last.
Ordered ==
  /\ n # 0 => c = Len(pod.containers)
  /\ returned => c = Len(pod.containers) /\ n = Len(pod.initContainers)

\* Of a pod all of whose containers limit r, what has been added of the requests
\* is at most what has been added of the limits, until the overhead comes.
Bounded ==
  \A r \in Resource : Limited(pod, r) =>
    \/ Amount(reqs, r) <= Amount(limits, r)
    \/ returned /\ Amount(limits, r) = 0

\* Of each resource there is what the containers passed so far need, and what
\* the whole pod needs when the overhead is in.
PassesExact ==
  \A r \in Resource :
    IF returned
    THEN /\ Amount(reqs, r) = EffectiveRequest(pod, r)
         /\ Amount(limits, r) = EffectiveLimit(pod, r)
    ELSE /\ Passed(Amount(reqs, r), RequestsIn(pod.containers, r), c,
                   RequestsIn(pod.initContainers, r), n)
         /\ Passed(Amount(limits, r), LimitsIn(pod.containers, r), c,
                   LimitsIn(pod.initContainers, r), n)

\* The pod is the next one, and the sums are those of the pods before it and of
\* the samples added.
SumsExact ==
  /\ seen < Len(call.podList) => pod = call.podList[seen + 1]
  /\ \A r \in Resource :
       /\ Amount(allReqs, r) = Total(RequestsOfPods(r), seen)
       /\ Amount(allLimits, r) = Total(LimitsOfPods(r), seen)
       /\ Amount(podMetrics, r) = Total(UsageOfSamples(r), added)

\* Pods are counted, not limited.
PodsUnlimited == "pods" \notin DOMAIN limits \cup DOMAIN allLimits

\* Nothing is shown before everything is summed.
Settled ==
  DOMAIN cells # {} => Summed /\ (call.command = "pod" => added = Len(call.samples))

\* A percentage is of the two quantities it compares.
Compares ==
  \A r \in DOMAIN cells :
    /\ cells[r].pct \in calcPercentage(Units(Asked(r)), Units(Room(r)))
    /\ cells[r].mark = ExceedsCompare(cells[r].pct)

Exact == PassesExact /\ SumsExact /\ PodsUnlimited

Inv == TypeOK /\ Ordered /\ Bounded /\ Exact /\ Settled /\ Compares /\ TotalsAreExact

LEMMA InitInv == Init => Inv
  <1> SUFFICES ASSUME Init PROVE Inv
    OBVIOUS
  <1>1. IsCall(call)
    BY AllocationAssumption DEF Init
  <1>2. DOMAIN EmptyList = {}
    BY DEF EmptyList
  <1>3. IsPod(NoPod)
    <2>1. Range(<<>>) = {} /\ <<>> \in Seq(Range(<<>>))
      BY DEF Range
    <2> QED
      BY <2>1, EmptyIsList DEF IsPod, NoPod, IsContainers
  <1>4. IsPod(pod) /\ pod.containers \in Seq(Range(pod.containers))
        /\ pod.initContainers \in Seq(Range(pod.initContainers))
    <2>1. call.podList # <<>> => call.podList[1] \in Range(call.podList)
      BY <1>1 DEF IsCall, Range
    <2>2. IsPod(pod)
      BY <1>1, <1>3, <2>1 DEF Init, PodInit, IsCall
    <2> QED
      BY <2>2 DEF IsPod, IsContainers
  <1>5. TypeOK
    <2>1. Len(call.podList) \in Nat /\ Len(call.samples) \in Nat
      BY <1>1 DEF IsCall
    <2>2. Len(pod.containers) \in Nat /\ Len(pod.initContainers) \in Nat
      BY <1>4
    <2>3. PodTypeOK
      <3>1. c = 0 /\ n = 0 /\ reqs = EmptyList /\ limits = EmptyList /\ returned = FALSE
        BY DEF Init, PodInit
      <3>2. IsResourceList(reqs) /\ IsResourceList(limits)
        BY <3>1, EmptyIsList, Zenon
      <3>3. c \in 0..Len(pod.containers) /\ n \in 0..Len(pod.initContainers)
        BY <2>2, <3>1
      <3> QED
        BY <1>4, <3>1, <3>2, <3>3 DEF PodTypeOK
    <2>4. DOMAIN cells = {} /\ podMetrics \in [Measured -> Nat]
      BY <1>2 DEF Init
    <2>5. seen \in 0..Len(call.podList) /\ added \in 0..Len(call.samples)
      BY <2>1 DEF Init
    <2>6. IsResourceList(allReqs) /\ IsResourceList(allLimits)
      BY EmptyIsList DEF Init
    <2> QED
      BY <1>1, <2>3, <2>4, <2>5, <2>6 DEF TypeOK
  <1>6. Ordered /\ Bounded
    BY EmptyIsList DEF Init, PodInit, Ordered, Bounded
  <1>7. Settled /\ Compares
    BY <1>2 DEF Init, Settled, Compares
  <1>8. TotalsAreExact
    BY <1>2 DEF Init, TotalsAreExact
  <1>9. /\ reqs = EmptyList /\ limits = EmptyList /\ allReqs = EmptyList /\ allLimits = EmptyList
        /\ c = 0 /\ n = 0 /\ seen = 0 /\ added = 0 /\ returned = FALSE
        /\ podMetrics = [r \in Measured |-> 0]
    BY DEF Init, PodInit
  <1>10. PassesExact
    <2>1. \A r \in Resource : Amount(reqs, r) = 0 /\ Amount(limits, r) = 0
      BY <1>9, EmptyIsList, Zenon
    <2> QED
      BY <1>9, <2>1, PassedStarts DEF PassesExact
  <1>11. SumsExact
    <2>1. \A r \in Resource : /\ Amount(allReqs, r) = 0 /\ Amount(allLimits, r) = 0
                             /\ Amount(podMetrics, r) = 0
      <3>1. \A r \in Resource : Amount(allReqs, r) = 0 /\ Amount(allLimits, r) = 0
        BY <1>9, EmptyIsList, Zenon
      <3>2. \A r \in Resource : Amount(podMetrics, r) = 0
        BY <1>9 DEF Amount
      <3> QED
        BY <3>1, <3>2
    <2>2. \A f : Total(f, 0) = 0
      BY TotalStarts
    <2>3. seen < Len(call.podList) => pod = call.podList[seen + 1]
      <3>1. pod = IF call.podList = <<>> THEN NoPod ELSE call.podList[1]
        BY DEF Init, PodInit
      <3>2. call.podList \in Seq(Range(call.podList))
        BY <1>1 DEF IsCall
      <3> QED
        BY <1>9, <3>1, <3>2
    <2> QED
      BY <1>9, <2>1, <2>2, <2>3 DEF SumsExact
  <1>12. PodsUnlimited
    BY <1>2, <1>9 DEF PodsUnlimited
  <1> QED
    BY <1>5, <1>6, <1>7, <1>8, <1>10, <1>11, <1>12 DEF Inv, Exact

\* A pass that adds a list to what there is, or takes the larger.
LEMMA PassKeeps ==
  ASSUME PodTypeOK, Bounded, ~returned, NEW x, IsContainer(x),
         x \in Range(pod.containers) \cup Range(pod.initContainers),
         UNCHANGED <<pod, returned>>,
         \/ /\ reqs' = addResourceList(reqs, x.requests)
            /\ limits' = addResourceList(limits, x.limits)
         \/ /\ reqs' = maxResourceList(reqs, x.requests)
            /\ limits' = maxResourceList(limits, x.limits)
  PROVE  IsResourceList(reqs') /\ IsResourceList(limits') /\ Bounded'
  <1>1. IsResourceList(reqs) /\ IsResourceList(limits)
    BY DEF PodTypeOK
  <1>2. IsResourceList(x.requests) /\ IsResourceList(x.limits)
    BY ContainerLists
  <1>3. IsResourceList(reqs') /\ IsResourceList(limits')
    BY <1>1, <1>2, ListsCombine
  <1>4. ASSUME NEW r \in Resource, Limited(pod, r)
        PROVE  Amount(reqs', r) <= Amount(limits', r)
    <2>1. Amount(x.requests, r) <= Amount(x.limits, r)
      <3>1. CASE r \in DOMAIN x.requests
        BY <1>4, <3>1, ContainerLists DEF Limited
      <3>2. CASE r \notin DOMAIN x.requests
        BY <1>2, <3>2, AmountNat DEF Amount
      <3> QED
        BY <3>1, <3>2
    <2>2. Amount(reqs, r) <= Amount(limits, r)
      BY <1>4 DEF Bounded
    <2>3. /\ Amount(reqs, r) \in Nat /\ Amount(limits, r) \in Nat
          /\ Amount(x.requests, r) \in Nat /\ Amount(x.limits, r) \in Nat
      BY <1>1, <1>2, AmountNat
    <2>4. CASE /\ reqs' = addResourceList(reqs, x.requests)
               /\ limits' = addResourceList(limits, x.limits)
      <3>1. /\ Amount(reqs', r) = Amount(reqs, r) + Amount(x.requests, r)
            /\ Amount(limits', r) = Amount(limits, r) + Amount(x.limits, r)
        BY <1>1, <1>2, <2>4, ListsCombine
      <3> QED
        BY <2>1, <2>2, <2>3, <3>1
    <2>5. CASE /\ reqs' = maxResourceList(reqs, x.requests)
               /\ limits' = maxResourceList(limits, x.limits)
      <3>1. /\ Amount(reqs', r) = Larger(Amount(reqs, r), Amount(x.requests, r))
            /\ Amount(limits', r) = Larger(Amount(limits, r), Amount(x.limits, r))
        BY <1>1, <1>2, <2>5, ListsCombine
      <3> QED
        BY <2>1, <2>2, <2>3, <3>1 DEF Larger
    <2> QED
      BY <2>4, <2>5
  <1> QED
    BY <1>3, <1>4 DEF Bounded

LEMMA PodStepKeeps ==
  ASSUME PodTypeOK, Ordered, Bounded, PodNext
  PROVE  PodTypeOK' /\ Ordered' /\ Bounded'
  <1> USE DEF PodTypeOK
  <1>1. /\ pod.containers \in Seq(Range(pod.containers))
        /\ \A x \in Range(pod.containers) : IsContainer(x)
        /\ pod.initContainers \in Seq(Range(pod.initContainers))
        /\ \A x \in Range(pod.initContainers) : IsContainer(x)
        /\ IsResourceList(pod.overhead)
    BY DEF IsPod, IsContainers
  <1>2. Len(pod.containers) \in Nat /\ Len(pod.initContainers) \in Nat
    BY <1>1
  <1>3. CASE AddContainer
    <2> DEFINE x == pod.containers[c + 1]
    <2>1. x \in Range(pod.containers) /\ c + 1 \in 0..Len(pod.containers) /\ IsContainer(x)
      BY <1>1, <1>3, NextElement DEF AddContainer
    <2>2. /\ reqs' = addResourceList(reqs, x.requests)
          /\ limits' = addResourceList(limits, x.limits)
          /\ c' = c + 1 /\ UNCHANGED <<pod, n, returned>>
      BY <1>3 DEF AddContainer
    <2>3. ~returned
      BY <1>2, <1>3 DEF AddContainer, Ordered
    <2> HIDE DEF x
    <2>4. IsResourceList(reqs') /\ IsResourceList(limits') /\ Bounded'
      BY <2>1, <2>2, <2>3, PassKeeps
    <2>5. n = 0
      BY <1>2, <1>3 DEF AddContainer, Ordered
    <2>6. PodTypeOK'
      BY <2>1, <2>2, <2>4
    <2> QED
      BY <2>2, <2>3, <2>4, <2>5, <2>6 DEF Ordered
  <1>4. CASE MaxInitContainer
    <2> DEFINE x == pod.initContainers[n + 1]
    <2>1. /\ x \in Range(pod.initContainers) /\ n + 1 \in 0..Len(pod.initContainers)
          /\ IsContainer(x)
      BY <1>1, <1>4, NextElement DEF MaxInitContainer
    <2>2. /\ reqs' = maxResourceList(reqs, x.requests)
          /\ limits' = maxResourceList(limits, x.limits)
          /\ n' = n + 1 /\ UNCHANGED <<pod, c, returned>>
      BY <1>4 DEF MaxInitContainer
    <2>3. ~returned
      BY <1>2, <1>4 DEF MaxInitContainer, Ordered
    <2> HIDE DEF x
    <2>4. IsResourceList(reqs') /\ IsResourceList(limits') /\ Bounded'
      BY <2>1, <2>2, <2>3, PassKeeps
    <2>5. c = Len(pod.containers)
      BY <1>4 DEF MaxInitContainer
    <2>6. PodTypeOK'
      BY <2>1, <2>2, <2>4
    <2> QED
      BY <2>2, <2>3, <2>4, <2>5, <2>6 DEF Ordered
  <1>5. CASE AddOverhead
    <2>1. /\ reqs' = addResourceList(reqs, pod.overhead)
          /\ limits' = addToNonZero(limits, pod.overhead)
          /\ c = Len(pod.containers) /\ n = Len(pod.initContainers)
          /\ ~returned /\ returned' = TRUE /\ UNCHANGED <<pod, c, n>>
      BY <1>5 DEF AddOverhead
    <2>2. /\ IsResourceList(reqs') /\ IsResourceList(limits')
          /\ \A r : Amount(reqs', r) = Amount(reqs, r) + Amount(pod.overhead, r)
          /\ \A r : Amount(limits', r) = IF Amount(limits, r) = 0 THEN 0
                                          ELSE Amount(limits, r) + Amount(pod.overhead, r)
      BY <1>1, <2>1, ListsCombine
    <2>3. ASSUME NEW r \in Resource, Limited(pod, r)
          PROVE  Amount(reqs', r) <= Amount(limits', r) \/ Amount(limits', r) = 0
      <3>1. /\ Amount(reqs, r) \in Nat /\ Amount(limits, r) \in Nat
            /\ Amount(pod.overhead, r) \in Nat
        BY <1>1, AmountNat
      <3>2. Amount(reqs, r) <= Amount(limits, r)
        BY <2>1, <2>3 DEF Bounded
      <3> QED
        BY <2>2, <3>1, <3>2
    <2> QED
      BY <2>1, <2>2, <2>3 DEF Bounded, Ordered
  <1> QED
    BY <1>3, <1>4, <1>5 DEF PodNext

\* One container after the other: what is needed is the sum of the containers, or
\* the largest init container; then comes the overhead.
LEMMA PassesStep ==
  ASSUME PodTypeOK, Ordered, PassesExact, PodNext
  PROVE  PassesExact'
  <1> SUFFICES ASSUME NEW r \in Resource
               PROVE  IF returned'
                      THEN /\ Amount(reqs', r) = EffectiveRequest(pod', r)
                           /\ Amount(limits', r) = EffectiveLimit(pod', r)
                      ELSE /\ Passed(Amount(reqs', r), RequestsIn(pod'.containers, r), c',
                                     RequestsIn(pod'.initContainers, r), n')
                           /\ Passed(Amount(limits', r), LimitsIn(pod'.containers, r), c',
                                     LimitsIn(pod'.initContainers, r), n')
    BY DEF PassesExact
  <1> DEFINE cs == pod.containers
             is == pod.initContainers
             fr == RequestsIn(cs, r)
             gr == RequestsIn(is, r)
             fl == LimitsIn(cs, r)
             gl == LimitsIn(is, r)
  <1>1. /\ IsContainers(cs) /\ IsContainers(is) /\ IsResourceList(pod.overhead)
        /\ IsResourceList(reqs) /\ IsResourceList(limits)
        /\ c \in 0..Len(cs) /\ n \in 0..Len(is)
    BY DEF PodTypeOK, IsPod
  <1>2. /\ Len(cs) \in Nat /\ DOMAIN fr = 1..Len(cs) /\ Len(fr) = Len(cs)
        /\ DOMAIN fl = 1..Len(cs) /\ Len(fl) = Len(cs)
        /\ \A k \in 1..Len(cs) : /\ fr[k] = Amount(cs[k].requests, r) /\ fr[k] \in Nat
                                  /\ fl[k] = Amount(cs[k].limits, r) /\ fl[k] \in Nat
    BY <1>1, Listed
  <1>3. /\ Len(is) \in Nat /\ DOMAIN gr = 1..Len(is) /\ DOMAIN gl = 1..Len(is)
        /\ \A k \in 1..Len(is) : /\ gr[k] = Amount(is[k].requests, r) /\ gr[k] \in Nat
                                  /\ gl[k] = Amount(is[k].limits, r) /\ gl[k] \in Nat
    BY <1>1, Listed
  <1>4. /\ cs \in Seq(Range(cs)) /\ is \in Seq(Range(is))
        /\ \A x \in Range(cs) \cup Range(is) : IsContainer(x)
    BY <1>1 DEF IsContainers
  <1>5. Total(fr, c) \in Nat /\ Total(fl, c) \in Nat
    BY <1>1, <1>2, TotalStep
  <1>6. ~returned => /\ Passed(Amount(reqs, r), fr, c, gr, n)
                     /\ Passed(Amount(limits, r), fl, c, gl, n)
    BY DEF PassesExact
  <1>7. ~returned
    BY <1>1, <1>2, <1>3 DEF PodNext, AddContainer, MaxInitContainer, AddOverhead, Ordered
  <1> HIDE DEF cs, is, fr, gr, fl, gl
  <1>8. CASE AddContainer
    <2>1. /\ c < Len(cs) /\ c' = c + 1 /\ UNCHANGED <<pod, n, returned>>
          /\ reqs' = addResourceList(reqs, cs[c + 1].requests)
          /\ limits' = addResourceList(limits, cs[c + 1].limits)
      BY <1>8 DEF AddContainer, cs
    <2>2. n = 0 /\ c \in 0..Len(cs) - 1 /\ c + 1 \in 1..Len(cs)
      BY <1>1, <1>2, <2>1 DEF Ordered, cs
    <2>3. IsContainer(cs[c + 1])
      BY <1>1, <1>4, <2>1, NextElement
    <2>4. /\ Amount(reqs', r) = Amount(reqs, r) + fr[c + 1]
          /\ Amount(limits', r) = Amount(limits, r) + fl[c + 1]
      BY <1>1, <1>2, <2>1, <2>2, <2>3, ContainerLists, ListsCombine
    <2>5. /\ Passed(Amount(reqs', r), fr, c + 1, gr, 0)
          /\ Passed(Amount(limits', r), fl, c + 1, gl, 0)
      BY <1>2, <1>6, <1>7, <2>2, <2>4, PassedAdds
    <2> QED
      BY <1>7, <2>1, <2>2, <2>5 DEF cs, is, fr, gr, fl, gl
  <1>9. CASE MaxInitContainer
    <2>1. /\ n < Len(is) /\ n' = n + 1 /\ UNCHANGED <<pod, c, returned>>
          /\ reqs' = maxResourceList(reqs, is[n + 1].requests)
          /\ limits' = maxResourceList(limits, is[n + 1].limits)
      BY <1>9 DEF MaxInitContainer, is
    <2>2. n \in Nat /\ n + 1 \in 1..Len(is)
      BY <1>1, <1>3, <2>1
    <2>3. IsContainer(is[n + 1])
      BY <1>1, <1>4, <2>1, NextElement
    <2>4. /\ Amount(reqs', r) = Larger(Amount(reqs, r), gr[n + 1])
          /\ Amount(limits', r) = Larger(Amount(limits, r), gl[n + 1])
      BY <1>1, <1>3, <2>1, <2>2, <2>3, ContainerLists, ListsCombine
    <2>5. \A l \in 1..n + 1 : gr[l] \in Nat /\ gl[l] \in Nat
      BY <1>3, <2>2
    <2>6. /\ Passed(Amount(reqs', r), fr, c, gr, n + 1)
          /\ Passed(Amount(limits', r), fl, c, gl, n + 1)
      BY <1>5, <1>6, <1>7, <2>2, <2>4, <2>5, PassedTakes
    <2> QED
      BY <1>7, <2>1, <2>6 DEF cs, is, fr, gr, fl, gl
  <1>10. CASE AddOverhead
    <2>1. /\ c = Len(cs) /\ n = Len(is) /\ returned' = TRUE /\ pod' = pod
          /\ reqs' = addResourceList(reqs, pod.overhead)
          /\ limits' = addToNonZero(limits, pod.overhead)
      BY <1>10 DEF AddOverhead, cs, is
    <2>2. /\ Needed(fr, gr) = Amount(reqs, r)
          /\ Needed(fl, gl) = Amount(limits, r)
      BY <1>2, <1>3, <1>5, <1>6, <1>7, <2>1, PassedAll
    <2>3. /\ Amount(reqs', r) = Amount(reqs, r) + Amount(pod.overhead, r)
          /\ Amount(limits', r) = IF Amount(limits, r) = 0 THEN 0
                                  ELSE Amount(limits, r) + Amount(pod.overhead, r)
      BY <1>1, <2>1, ListsCombine
    <2> QED
      BY <2>1, <2>2, <2>3 DEF EffectiveRequest, EffectiveLimit, cs, is, fr, gr, fl, gl
  <1> QED
    BY <1>8, <1>9, <1>10 DEF PodNext

\* What is defined of the call is the same while the call is.
LEMMA CallSame ==
  ASSUME call' = call
  PROVE  \A r : /\ RequestsOfPods(r)' = RequestsOfPods(r) /\ LimitsOfPods(r)' = LimitsOfPods(r)
               /\ UsageOfSamples(r)' = UsageOfSamples(r) /\ Required(r)' = Required(r)
               /\ Permitted(r)' = Permitted(r) /\ Used(r)' = Used(r)
  BY DEF RequestsOfPods, LimitsOfPods, UsageOfSamples, Required, Permitted, Used

\* No container of the call's pods limits pods.
LEMMA PodStepUnlimited ==
  ASSUME TypeOK, SumsExact, PodsUnlimited, PodStep
  PROVE  "pods" \notin DOMAIN limits'
  <1>1. /\ IsCall(call) /\ pod = call.podList[seen + 1]
        /\ seen \in 0..Len(call.podList) /\ seen < Len(call.podList)
    BY DEF TypeOK, SumsExact, PodStep
  <1>2. call.podList[seen + 1] \in Range(call.podList)
    BY <1>1, NextElement DEF IsCall
  <1>3. /\ IsPod(pod)
        /\ \A k \in Range(pod.containers) \cup Range(pod.initContainers) : "pods" \notin DOMAIN k.limits
    BY <1>1, <1>2 DEF IsCall
  <1>4. /\ pod.containers \in Seq(Range(pod.containers)) /\ c \in 0..Len(pod.containers)
        /\ pod.initContainers \in Seq(Range(pod.initContainers)) /\ n \in 0..Len(pod.initContainers)
    BY <1>3 DEF TypeOK, PodTypeOK, IsPod, IsContainers
  <1>5. "pods" \notin DOMAIN limits
    BY DEF PodsUnlimited
  <1>6. CASE AddContainer
    <2>1. pod.containers[c + 1] \in Range(pod.containers)
      BY <1>4, <1>6, NextElement DEF AddContainer
    <2> QED
      BY <1>3, <1>5, <1>6, <2>1 DEF AddContainer, addResourceList
  <1>7. CASE MaxInitContainer
    <2>1. pod.initContainers[n + 1] \in Range(pod.initContainers)
      BY <1>4, <1>7, NextElement DEF MaxInitContainer
    <2> QED
      BY <1>3, <1>5, <1>7, <2>1 DEF MaxInitContainer, maxResourceList
  <1>8. CASE AddOverhead
    BY <1>5, <1>8 DEF AddOverhead, addToNonZero
  <1> QED
    BY <1>6, <1>7, <1>8 DEF PodStep, PodNext

LEMMA PodStepInv ==
  ASSUME Inv, PodStep
  PROVE  Inv'
  <1>1. PodTypeOK' /\ Ordered' /\ Bounded'
    BY PodStepKeeps DEF Inv, TypeOK, PodStep
  <1>2. UNCHANGED <<call, seen, allReqs, allLimits, added, podMetrics, cells>>
    BY DEF PodStep
  <1>3. TypeOK'
    BY <1>1, <1>2 DEF Inv, TypeOK
  <1>4. Settled' /\ Compares'
    BY <1>2 DEF Inv, Settled, Summed, Compares, Asked, Room
  <1>5. PassesExact'
    BY PassesStep DEF Inv, Exact, TypeOK, PodStep
  <1>6. pod' = pod
    BY DEF PodStep, PodNext, AddContainer, MaxInitContainer, AddOverhead
  <1>7. SumsExact'
    BY <1>2, <1>6, CallSame DEF Inv, Exact, SumsExact
  <1>8. TotalsAreExact'
    BY <1>2, CallSame DEF Inv, TotalsAreExact
  <1>9. PodsUnlimited'
    BY <1>2, PodStepUnlimited DEF Inv, Exact, PodsUnlimited
  <1> QED
    BY <1>1, <1>3, <1>4, <1>5, <1>7, <1>8, <1>9 DEF Inv, Exact

\* What is listed of the call, for a sum over the pods or the samples.
LEMMA CallListed ==
  ASSUME IsCall(call), NEW r
  PROVE  /\ Len(call.podList) \in Nat /\ Len(call.samples) \in Nat
         /\ \A j \in 1..Len(call.podList) :
              /\ RequestsOfPods(r)[j] = EffectiveRequest(call.podList[j], r)
              /\ LimitsOfPods(r)[j] = EffectiveLimit(call.podList[j], r)
              /\ RequestsOfPods(r)[j] \in Nat /\ LimitsOfPods(r)[j] \in Nat
         /\ \A j \in 1..Len(call.samples) :
              /\ UsageOfSamples(r)[j] = Amount(call.samples[j].usage, r)
              /\ UsageOfSamples(r)[j] \in Nat
  <1>1. /\ call.podList \in Seq(Range(call.podList)) /\ \A p \in Range(call.podList) : IsPod(p)
        /\ call.samples \in Seq(Range(call.samples))
        /\ \A s \in Range(call.samples) : IsResourceList(s.usage)
    BY DEF IsCall
  <1>2. /\ Len(call.podList) \in Nat /\ DOMAIN call.podList = 1..Len(call.podList)
        /\ Len(call.samples) \in Nat /\ DOMAIN call.samples = 1..Len(call.samples)
    BY <1>1
  <1>3. /\ \A j \in 1..Len(call.podList) : IsPod(call.podList[j])
        /\ \A j \in 1..Len(call.samples) : IsResourceList(call.samples[j].usage)
    BY <1>1, <1>2 DEF Range
  <1> QED
    BY <1>2, <1>3, EffectiveNat, AmountNat DEF RequestsOfPods, LimitsOfPods, UsageOfSamples

\* A pod is added to the sums, and nothing of it is left for the next one.
LEMMA MergePodExact ==
  ASSUME Inv, MergePod
  PROVE  Exact'
  <1> USE DEF Inv, Exact
  <1>1. /\ IsCall(call) /\ seen \in 0..Len(call.podList) /\ added \in 0..Len(call.samples)
        /\ IsResourceList(allReqs) /\ IsResourceList(allLimits)
        /\ IsResourceList(reqs) /\ IsResourceList(limits)
    BY DEF TypeOK, PodTypeOK
  <1>2. /\ seen < Len(call.podList) /\ returned /\ seen' = seen + 1
        /\ allReqs' = addResourceList(allReqs, reqs)
        /\ allLimits' = addResourceList(allLimits, limits)
        /\ UNCHANGED <<call, added, podMetrics>>
        /\ IF seen' = Len(call.podList) THEN UNCHANGED podVars
                                        ELSE PodCall(call.podList[seen' + 1])
    BY DEF MergePod
  <1>3. Len(call.podList) \in Nat /\ seen \in 0..Len(call.podList) - 1
    BY <1>1, <1>2, CallListed
  <1>4. ASSUME NEW r \in Resource
        PROVE  /\ Amount(allReqs', r) = Total(RequestsOfPods(r), seen + 1)
               /\ Amount(allLimits', r) = Total(LimitsOfPods(r), seen + 1)
    <2>1. /\ Amount(allReqs', r) = Amount(allReqs, r) + Amount(reqs, r)
          /\ Amount(allLimits', r) = Amount(allLimits, r) + Amount(limits, r)
      BY <1>1, <1>2, ListsCombine
    <2>2. /\ Amount(reqs, r) = EffectiveRequest(call.podList[seen + 1], r)
          /\ Amount(limits, r) = EffectiveLimit(call.podList[seen + 1], r)
      BY <1>2 DEF PassesExact, SumsExact
    <2>3. seen + 1 \in 1..Len(call.podList)
      BY <1>3
    <2>4. /\ Amount(reqs, r) = RequestsOfPods(r)[seen + 1]
          /\ Amount(limits, r) = LimitsOfPods(r)[seen + 1]
      BY <1>1, <2>2, <2>3, CallListed
    <2>5. /\ Total(RequestsOfPods(r), seen + 1) = Total(RequestsOfPods(r), seen) + RequestsOfPods(r)[seen + 1]
          /\ Total(LimitsOfPods(r), seen + 1) = Total(LimitsOfPods(r), seen) + LimitsOfPods(r)[seen + 1]
      BY <1>1, <1>3, CallListed, TotalStep
    <2> QED
      BY <2>1, <2>4, <2>5 DEF SumsExact
  <1>5. ASSUME NEW r \in Resource
        PROVE  Amount(podMetrics', r) = Total(UsageOfSamples(r), added')
    BY <1>2 DEF SumsExact
  <1>6. seen' < Len(call'.podList) => pod' = call'.podList[seen' + 1]
    BY <1>2, <1>3 DEF PodCall
  <1>7. SumsExact'
    BY <1>2, <1>4, <1>5, <1>6, CallSame DEF SumsExact
  <1>8. CASE UNCHANGED podVars
    <2>1. PassesExact'
      BY <1>8 DEF podVars, PassesExact
    <2>2. PodsUnlimited'
      BY <1>2, <1>8 DEF podVars, PodsUnlimited, addResourceList
    <2> QED
      BY <1>7, <2>1, <2>2
  <1>9. CASE PodCall(call.podList[seen' + 1])
    <2>1. c' = 0 /\ n' = 0 /\ returned' = FALSE /\ reqs' = EmptyList /\ limits' = EmptyList
      BY <1>9 DEF PodCall
    <2>2. \A r \in Resource : Amount(reqs', r) = 0 /\ Amount(limits', r) = 0
      BY <2>1, EmptyIsList, Zenon
    <2>3. PassesExact'
      BY <2>1, <2>2, PassedStarts DEF PassesExact
    <2>4. DOMAIN limits' = {}
      BY <2>1 DEF EmptyList
    <2>5. PodsUnlimited'
      BY <1>2, <2>4 DEF PodsUnlimited, addResourceList
    <2> QED
      BY <1>7, <2>3, <2>5
  <1> QED
    BY <1>2, <1>8, <1>9

\* The steps before anything is shown.
LEMMA MergePodInv ==
  ASSUME Inv, MergePod
  PROVE  Inv'
  <1> USE DEF Inv
  <1>1. /\ IsCall(call) /\ call.podList \in Seq(Range(call.podList))
        /\ \A p \in Range(call.podList) : IsPod(p)
    BY DEF TypeOK, IsCall
  <1>2. /\ seen \in 0..Len(call.podList) /\ seen < Len(call.podList) /\ seen' = seen + 1
        /\ UNCHANGED <<call, added, podMetrics, cells>>
        /\ allReqs' = addResourceList(allReqs, reqs)
        /\ allLimits' = addResourceList(allLimits, limits)
    BY DEF MergePod, TypeOK
  <1>3. DOMAIN cells = {}
    <2>1. seen # Len(call.podList)
      BY <1>1, <1>2
    <2> QED
      BY <2>1, Zenon DEF Settled, Summed
  <1>4. PodTypeOK' /\ Ordered' /\ Bounded'
    <2>1. CASE UNCHANGED podVars
      BY <2>1 DEF podVars, TypeOK, PodTypeOK, Ordered, Bounded
    <2>2. CASE seen' # Len(call.podList) /\ PodCall(call.podList[seen' + 1])
      <3>1. IsPod(pod')
        BY <1>1, <1>2, <2>2 DEF PodCall, Range
      <3>2. Len(pod'.containers) \in Nat /\ Len(pod'.initContainers) \in Nat
        BY <3>1 DEF IsPod, IsContainers
      <3>3. /\ c' = 0 /\ n' = 0 /\ reqs' = EmptyList /\ limits' = EmptyList
            /\ returned' = FALSE
        BY <2>2 DEF PodCall
      <3>4. IsResourceList(reqs') /\ IsResourceList(limits')
        BY <3>3, EmptyIsList, Zenon
      <3>5. c' \in 0..Len(pod'.containers) /\ n' \in 0..Len(pod'.initContainers)
        BY <3>2, <3>3
      <3>6. PodTypeOK'
        BY <3>1, <3>3, <3>4, <3>5 DEF PodTypeOK
      <3>7. \A r : Amount(reqs', r) = 0 /\ Amount(limits', r) = 0
        BY <3>3, EmptyIsList, Zenon
      <3> QED
        BY <3>3, <3>6, <3>7 DEF Ordered, Bounded
    <2> QED
      BY <2>1, <2>2 DEF MergePod
  <1>5. IsResourceList(allReqs') /\ IsResourceList(allLimits')
    BY <1>2, ListsCombine DEF TypeOK, PodTypeOK
  <1>6. seen' \in 0..Len(call.podList)
    BY <1>1, <1>2
  <1>7. TypeOK'
    BY <1>2, <1>3, <1>4, <1>5, <1>6 DEF TypeOK
  <1>8. Exact'
    BY MergePodExact
  <1>9. TotalsAreExact'
    BY <1>2, <1>3 DEF TotalsAreExact
  <1> QED
    BY <1>2, <1>3, <1>4, <1>7, <1>8, <1>9 DEF Settled, Compares

LEMMA AddSampleInv ==
  ASSUME Inv, AddSample
  PROVE  Inv'
  <1> USE DEF Inv
  <1>1. /\ call.samples \in Seq(Range(call.samples))
        /\ \A s \in Range(call.samples) : IsResourceList(s.usage)
    BY DEF TypeOK, IsCall
  <1>2. /\ call.command = "pod" /\ added < Len(call.samples) /\ added' = added + 1
        /\ podMetrics' = Sum(podMetrics, call.samples[added + 1].usage)
        /\ UNCHANGED <<call, seen, allReqs, allLimits, cells>> /\ UNCHANGED podVars
    BY DEF AddSample
  <1>3. added + 1 \in 0..Len(call.samples) /\ IsResourceList(call.samples[added + 1].usage)
    BY <1>1, <1>2, NextElement DEF TypeOK
  <1>4. podMetrics' \in [Measured -> Nat]
    BY <1>2, <1>3, AmountNat DEF TypeOK, Sum
  <1>5. DOMAIN cells = {}
    <2>1. added # Len(call.samples)
      BY <1>1, <1>2 DEF TypeOK
    <2> QED
      BY <1>2, <2>1, Zenon DEF Settled
  <1>6. TypeOK' /\ Ordered' /\ Bounded'
    BY <1>2, <1>3, <1>4, <1>5 DEF TypeOK, podVars, PodTypeOK, Ordered, Bounded
  <1>7. ASSUME NEW r \in Resource
        PROVE  Amount(podMetrics', r) = Total(UsageOfSamples(r), added')
    <2>1. IsCall(call) /\ added \in 0..Len(call.samples) - 1 /\ added + 1 \in 1..Len(call.samples)
      BY <1>1, <1>2 DEF TypeOK
    <2>2. /\ Len(call.samples) \in Nat
          /\ \A j \in 1..Len(call.samples) : UsageOfSamples(r)[j] \in Nat
          /\ UsageOfSamples(r)[added + 1] = Amount(call.samples[added + 1].usage, r)
      BY <2>1, CallListed
    <2>3. Total(UsageOfSamples(r), added') = Total(UsageOfSamples(r), added)
                                            + Amount(call.samples[added + 1].usage, r)
      BY <1>2, <2>1, <2>2, TotalStep
    <2>4. Amount(podMetrics, r) = Total(UsageOfSamples(r), added)
      BY DEF Exact, SumsExact
    <2>5. DOMAIN call.samples[added + 1].usage \subseteq Measured
      BY <2>1, <1>1 DEF IsCall, Range
    <2>6. Amount(podMetrics', r) = Amount(podMetrics, r) + Amount(call.samples[added + 1].usage, r)
      BY <1>2, <2>5 DEF TypeOK, Sum, Amount
    <2> QED
      BY <2>3, <2>4, <2>6
  <1>8. Exact'
    <2>1. PassesExact' /\ PodsUnlimited'
      BY <1>2 DEF Exact, podVars, PassesExact, PodsUnlimited
    <2>2. SumsExact'
      BY <1>2, <1>7, CallSame DEF Exact, podVars, SumsExact
    <2> QED
      BY <2>1, <2>2 DEF Exact
  <1>9. TotalsAreExact'
    BY <1>2, <1>5 DEF TotalsAreExact
  <1> QED
    BY <1>2, <1>5, <1>6, <1>8, <1>9 DEF Settled, Compares

-----------------------------------------------------------------------------
(* What is shown.                                                          *)

\* What is compared is a quantity.
LEMMA QuantitiesNat ==
  ASSUME TypeOK, NEW r \in Columns[call.command]
  PROVE  /\ Asked(r) \in Nat /\ Room(r) \in Nat
         /\ Amount(allReqs, r) \in Nat /\ Amount(allLimits, r) \in Nat
         /\ Amount(NodeCapacity, r) \in Nat /\ Amount(podMetrics, r) \in Nat
         /\ Amount(NodeUsage, r) \in Nat /\ Len(call.podList) \in Nat
  <1>1. IsCall(call) /\ Len(call.podList) \in Nat /\ Len(call.samples) \in Nat
    BY DEF TypeOK, IsCall
  <1>2. Amount(allReqs, r) \in Nat /\ Amount(allLimits, r) \in Nat
    BY AmountNat DEF TypeOK
  <1>3. /\ IsResourceList(NodeCapacity)
        /\ IsResourceList(IF DOMAIN call.allocatable = {} THEN call.capacity
                                                        ELSE call.allocatable)
    BY <1>1 DEF IsCall, NodeCapacity
  <1>4. Amount(podMetrics, r) \in Nat
    BY DEF TypeOK, Amount
  <1>5. IsResourceList(NodeUsage)
    <2> DEFINE own == {j \in DOMAIN call.samples : call.samples[j].name = call.name}
    <2>1. own \subseteq 1..Len(call.samples)
      BY <1>1 DEF IsCall
    <2>2. own # {} => Max(own) \in DOMAIN call.samples
      <3>1. own # {} => \E x \in own : \A y \in own : x >= y
        BY <1>1, <2>1, LastPosition
      <3>2. own \subseteq DOMAIN call.samples
        OBVIOUS
      <3> HIDE DEF own
      <3> QED
        BY <3>1, <3>2 DEF Max
    <2>3. \A j \in DOMAIN call.samples : IsResourceList(call.samples[j].usage)
      BY <1>1 DEF IsCall, Range
    <2>4. NodeUsage = IF own = {} THEN EmptyList ELSE call.samples[Max(own)].usage
      BY DEF NodeUsage
    <2> HIDE DEF own
    <2> QED
      BY <2>2, <2>3, <2>4, EmptyIsList
  <1>6. Scale * Len(call.podList) \in Nat
    BY <1>1, QuantitiesAssumption
  <1>7. Room(r) \in Nat
    BY <1>2, <1>3, AmountNat DEF Room
  <1>8. Asked(r) \in Nat
    BY <1>2, <1>4, <1>6 DEF Asked
  <1> QED
    BY <1>1, <1>2, <1>3, <1>4, <1>5, <1>7, <1>8, AmountNat

LEMMA StringNat ==
  ASSUME NEW r, NEW u \in Nat
  PROVE  String(r, u) \in Nat
  BY QuantitiesAssumption, Division DEF String

LEMMA MarkType ==
  ASSUME NEW pct
  PROVE  ExceedsCompare(pct) \in {"red", "yellow", "plain"}
  BY DEF ExceedsCompare

\* A cell that is typed and compares the right quantities is put in.
LEMMA PutKeeps ==
  ASSUME Inv, NEW r \in Columns[call.command], NEW cell, IsCell(cell), Put(r, cell),
         Summed, call.command = "pod" => added = Len(call.samples),
         cell.pct \in calcPercentage(Units(Asked(r)), Units(Room(r))),
         cell.mark = ExceedsCompare(cell.pct),
         cell.req = String(r, Units(Required(r))), cell.lim = String(r, Units(Permitted(r))),
         call.command = "pod" => cell.use = String(r, Units(Used(r))),
         UNCHANGED <<call, podVars, seen, allReqs, allLimits, added, podMetrics>>
  PROVE  Inv'
  <1>1. /\ DOMAIN cells' = DOMAIN cells \cup {r} /\ cells'[r] = cell
        /\ \A x \in DOMAIN cells \ {r} : cells'[x] = cells[x]
    BY DEF Put
  <1>2. PodTypeOK' /\ Ordered' /\ Bounded'
    BY DEF Inv, TypeOK, podVars, PodTypeOK, Ordered, Bounded
  <1>3. TypeOK'
    BY <1>1, <1>2 DEF Inv, TypeOK
  <1>4. Settled'
    BY DEF Settled, Summed
  <1>5. \A x : Asked(x)' = Asked(x) /\ Room(x)' = Room(x)
    BY DEF Asked, Room
  <1>6. Compares'
    BY <1>1, <1>5 DEF Inv, Compares
  <1>7. Exact'
    BY CallSame DEF Inv, Exact, podVars, PassesExact, SumsExact, PodsUnlimited
  <1>8. TotalsAreExact'
    BY <1>1, CallSame DEF Inv, TotalsAreExact
  <1> QED
    BY <1>2, <1>3, <1>4, <1>6, <1>7, <1>8 DEF Inv

\* When everything is summed, the sums are what is required, permitted and used.
LEMMA SumsComplete ==
  ASSUME Inv, Summed, NEW r \in Columns[call.command]
  PROVE  /\ r # "pods" => Amount(allReqs, r) = Required(r)
         /\ Amount(allLimits, r) = Permitted(r)
         /\ r = "pods" => Permitted(r) = 0
         /\ call.command = "pod" /\ added = Len(call.samples) => Amount(podMetrics, r) = Used(r)
  <1>1. r \in Resource
    <2>1. call.command \in {"node", "pod"}
      BY DEF Inv, TypeOK, IsCall
    <2>2. r \in {"cpu", "memory", "gpu", "pods"}
      BY <2>1 DEF Columns
    <2> QED
      BY <2>2, AllocationAssumption
  <1>2. seen = Len(call.podList) /\ SumsExact /\ PodsUnlimited
    BY DEF Inv, Exact, Summed
  <1>3. /\ Amount(allReqs, r) = Total(RequestsOfPods(r), Len(call.podList))
        /\ Amount(allLimits, r) = Total(LimitsOfPods(r), Len(call.podList))
        /\ Amount(podMetrics, r) = Total(UsageOfSamples(r), added)
    BY <1>1, <1>2 DEF SumsExact
  <1>4. r = "pods" => Amount(allLimits, r) = 0
    BY <1>2 DEF PodsUnlimited, Amount
  <1> QED
    BY <1>3, <1>4 DEF Required, Permitted, Used

LEMMA ShowNodeInv ==
  ASSUME Inv, NEW r, ShowNode(r)
  PROVE  Inv'
  <1>1. /\ call.command = "node" /\ Summed /\ r \in Columns[call.command]
        /\ UNCHANGED <<call, podVars, seen, allReqs, allLimits, added, podMetrics>>
    BY DEF ShowNode, Columns
  <1> DEFINE use == Units(Amount(NodeUsage, r))
             req == IF r = "pods" THEN Len(call.podList) ELSE Units(Amount(allReqs, r))
             lim == IF r = "pods" THEN 0 ELSE Units(Amount(allLimits, r))
             cap == Units(Amount(NodeCapacity, r))
             Cell(pct, limPct) ==
               [use |-> String(r, use), req |-> String(r, req), lim |-> String(r, lim),
                cap |-> String(r, cap), pct |-> pct, mark |-> ExceedsCompare(pct),
                limPct |-> limPct]
  <1>2. use \in Nat /\ req \in Nat /\ lim \in Nat /\ cap \in Nat
    BY <1>1, QuantitiesNat, UnitsRound DEF Inv
  <1>3. req = Units(Asked(r))
    <2>1. CASE r = "pods"
      BY <1>1, <2>1, QuantitiesNat, UnitsExact DEF Inv, Asked
    <2>2. CASE r # "pods"
      BY <1>1, <2>2 DEF Asked
    <2> QED
      BY <2>1, <2>2
  <1>4. cap = Units(Room(r))
    BY <1>1 DEF Room, NodeCapacity
  <1>5. PICK pct \in calcPercentage(req, cap), limPct \in calcPercentage(lim, cap) :
          Put(r, Cell(pct, limPct))
    BY DEF ShowNode
  <1> HIDE DEF use, req, lim, cap
  <1>6. pct \in Nat /\ limPct \in Nat
    BY <1>2, PercentageNat
  <1>7. /\ String(r, use) \in Nat /\ String(r, req) \in Nat
        /\ String(r, lim) \in Nat /\ String(r, cap) \in Nat
    BY <1>2, StringNat
  <1>8. IsCell(Cell(pct, limPct))
    BY <1>6, <1>7, MarkType DEF IsCell
  <1>9. /\ Cell(pct, limPct).pct = pct /\ Cell(pct, limPct).mark = ExceedsCompare(pct)
        /\ Cell(pct, limPct).req = String(r, req) /\ Cell(pct, limPct).lim = String(r, lim)
    OBVIOUS
  <1> HIDE DEF Cell
  <1>10. req = Units(Required(r))
    <2>1. CASE r = "pods"
      BY <1>1, <1>3, <2>1 DEF Asked, Required
    <2>2. CASE r # "pods"
      BY <1>1, <2>2, SumsComplete DEF req
    <2> QED
      BY <2>1, <2>2
  <1>11. lim = Units(Permitted(r))
    <2>1. CASE r = "pods"
      <3>1. Units(Scale * 0) = 0 /\ Scale * 0 = 0
        BY UnitsExact, QuantitiesAssumption
      <3> QED
        BY <1>1, <2>1, <3>1, SumsComplete DEF lim
    <2>2. CASE r # "pods"
      BY <1>1, <2>2, SumsComplete DEF lim
    <2> QED
      BY <2>1, <2>2
  <1> QED
    BY <1>1, <1>3, <1>4, <1>5, <1>8, <1>9, <1>10, <1>11, PutKeeps

LEMMA ShowPodInv ==
  ASSUME Inv, NEW r, ShowPod(r)
  PROVE  Inv'
  <1>1. /\ call.command = "pod" /\ Summed /\ added = Len(call.samples)
        /\ r \in Columns[call.command] /\ r \in Columns.pod
        /\ UNCHANGED <<call, podVars, seen, allReqs, allLimits, added, podMetrics>>
    BY DEF ShowPod, Columns
  <1> DEFINE use == Units(Amount(podMetrics, r))
             req == Units(Amount(allReqs, r))
             lim == Units(Amount(allLimits, r))
             Cell(pct) ==
               [use |-> String(r, use), req |-> String(r, req), lim |-> String(r, lim),
                cap |-> 0, pct |-> pct, mark |-> ExceedsCompare(pct), limPct |-> 0]
  <1>2. use \in Nat /\ req \in Nat /\ lim \in Nat
    BY <1>1, QuantitiesNat, UnitsRound DEF Inv
  <1>3. use = Units(Asked(r)) /\ lim = Units(Room(r))
    BY <1>1 DEF Asked, Room
  <1>4. PICK pct \in calcPercentage(use, lim) : Put(r, Cell(pct))
    BY DEF ShowPod
  <1> HIDE DEF use, req, lim
  <1>5. pct \in Nat
    BY <1>2, PercentageNat
  <1>6. String(r, use) \in Nat /\ String(r, req) \in Nat /\ String(r, lim) \in Nat
    BY <1>2, StringNat
  <1>7. IsCell(Cell(pct))
    BY <1>5, <1>6, MarkType DEF IsCell
  <1>8. /\ Cell(pct).pct = pct /\ Cell(pct).mark = ExceedsCompare(pct)
        /\ Cell(pct).req = String(r, req) /\ Cell(pct).lim = String(r, lim)
        /\ Cell(pct).use = String(r, use)
    OBVIOUS
  <1> HIDE DEF Cell
  <1>9. /\ req = Units(Required(r)) /\ lim = Units(Permitted(r)) /\ use = Units(Used(r))
    <2>1. r # "pods"
      BY <1>1 DEF Columns
    <2> QED
      BY <1>1, <2>1, SumsComplete DEF req, lim, use
  <1> QED
    BY <1>1, <1>3, <1>4, <1>7, <1>8, <1>9, PutKeeps

LEMMA NextInv == Inv /\ [Next]_vars => Inv'
  <1> SUFFICES ASSUME Inv, [Next]_vars PROVE Inv'
    OBVIOUS
  <1>1. CASE UNCHANGED vars
    <2>1. PodTypeOK' /\ Ordered' /\ Bounded'
      BY <1>1 DEF vars, podVars, Inv, TypeOK, PodTypeOK, Ordered, Bounded
    <2>2. TypeOK'
      BY <1>1, <2>1 DEF vars, Inv, TypeOK
    <2>3. Settled' /\ Compares'
      BY <1>1 DEF vars, Inv, Settled, Summed, Compares, Asked, Room
    <2>4. Exact' /\ TotalsAreExact'
      BY <1>1, CallSame DEF vars, podVars, Inv, Exact, PassesExact, SumsExact, PodsUnlimited,
                            TotalsAreExact
    <2> QED
      BY <2>1, <2>2, <2>3, <2>4 DEF Inv
  <1> QED
    BY <1>1, PodStepInv, MergePodInv, AddSampleInv, ShowNodeInv, ShowPodInv DEF Next

-----------------------------------------------------------------------------
(* What holds of the numbers.                                              *)

(* Inv is an inductive invariant.                                          *)
THEOREM Invariance == Spec => []Inv
  BY InitInv, NextInv, PTL DEF Spec

(* Every variable keeps its type: no quantity or percentage is negative.   *)
THEOREM TypeCorrect == Spec => []TypeOK
  <1>1. Inv => TypeOK
    BY DEF Inv
  <1> QED
    BY Invariance, <1>1, PTL

(* The three passes compute the effective requests of any pod: its         *)
(* containers together or its largest init container, and the overhead     *)
(* (resource.go:492-503).                                                  *)
THEOREM RequestsAlwaysEffective == Spec => []EffectiveRequests
  <1>1. Inv => EffectiveRequests
    BY DEF Inv, Exact, PassesExact, EffectiveRequests
  <1> QED
    BY Invariance, <1>1, PTL

(* And the effective limits, to which the overhead is added only where     *)
(* there is a limit (resource.go:492-512).                                 *)
THEOREM LimitsAlwaysEffective == Spec => []EffectiveLimits
  <1>1. Inv => EffectiveLimits
    BY DEF Inv, Exact, PassesExact, EffectiveLimits
  <1> QED
    BY Invariance, <1>1, PTL

(* The cells show the sums over all pods and samples, rounded once, for    *)
(* any number of pods, containers and samples (resource.go:183-218).       *)
THEOREM TotalsAlwaysExact == Spec => []TotalsAreExact
  <1>1. Inv => TotalsAreExact
    BY DEF Inv
  <1> QED
    BY Invariance, <1>1, PTL

(* The request of a pod whose containers are all limited never exceeds its *)
(* limit, unless that is zero (resource.go:492-512).                       *)
THEOREM LimitsAlwaysBoundRequests == Spec => []LimitsBoundRequests
  <1>1. Inv => LimitsBoundRequests
    BY DEF Inv, Bounded, LimitsBoundRequests
  <1> QED
    BY Invariance, <1>1, PTL

(* However small the excess over what there is, it is red, whatever the    *)
(* units, the divisor of the memory and the size of the node               *)
(* (common.go:35-41, 145-153).                                             *)
THEOREM ExcessAlwaysRed == Spec => []ExcessIsRed
  <1>1. ASSUME Inv, NEW r \in DOMAIN cells, 0 < Room(r), Room(r) < Asked(r)
        PROVE  cells[r].mark = "red"
    <2>1. Asked(r) \in Nat /\ Room(r) \in Nat
      BY <1>1, QuantitiesNat DEF Inv, TypeOK
    <2>2. Units(Room(r)) <= Units(Asked(r)) /\ 0 < Units(Room(r))
      BY <1>1, <2>1, UnitsKeepOrder, UnitsOfSome
    <2>3. Units(Room(r)) \in Nat \ {0} /\ Units(Asked(r)) \in Nat
      BY <2>1, <2>2, UnitsRound
    <2>4. /\ cells[r].pct \in calcPercentage(Units(Asked(r)), Units(Room(r)))
          /\ cells[r].mark = ExceedsCompare(cells[r].pct)
      BY <1>1 DEF Inv, Compares
    <2> QED
      BY <2>2, <2>3, <2>4, FullIsRed
  <1>2. Inv => ExcessIsRed
    BY <1>1 DEF ExcessIsRed
  <1> QED
    BY Invariance, <1>2, PTL

(* A cell is red or yellow only above 95% or 90% of the whole units        *)
(* (common.go:35-41, 145-153).                                             *)
THEOREM MarksAlwaysReal == Spec => []MarksAreReal
  <1>1. ASSUME Inv, NEW r \in DOMAIN cells
        PROVE  /\ cells[r].mark = "red" => 100 * Units(Asked(r)) > 95 * Units(Room(r))
               /\ cells[r].mark = "yellow" => 100 * Units(Asked(r)) > 90 * Units(Room(r))
    <2>1. Units(Asked(r)) \in Nat /\ Units(Room(r)) \in Nat
      BY <1>1, QuantitiesNat, UnitsRound DEF Inv, TypeOK
    <2>2. /\ cells[r].pct \in calcPercentage(Units(Asked(r)), Units(Room(r)))
          /\ cells[r].mark = ExceedsCompare(cells[r].pct)
      BY <1>1 DEF Inv, Compares
    <2>3. /\ cells[r].mark = "red" => cells[r].pct > 100 * 95
          /\ cells[r].mark = "yellow" => cells[r].pct > 100 * 90
      BY <2>2 DEF ExceedsCompare, critical_threshold, warning_threshold
    <2> QED
      BY <2>1, <2>2, <2>3, AboveIsAbove
  <1>2. Inv => MarksAreReal
    BY <1>1 DEF MarksAreReal
  <1> QED
    BY Invariance, <1>2, PTL

(* More than 100% is shown only of a real excess over what there is, for   *)
(* any quantities and units (common.go:35-41).                             *)
THEOREM OverHundredAlwaysExcess == Spec => []OverHundredIsExcess
  <1>1. ASSUME Inv, NEW r \in DOMAIN cells, cells[r].pct > 10000
        PROVE  IF call.command = "node" THEN Required(r) > Room(r) ELSE Used(r) > Permitted(r)
    <2>1. /\ r \in Columns[call.command] /\ call.command \in {"node", "pod"} /\ Summed
          /\ call.command = "pod" => added = Len(call.samples)
      BY <1>1 DEF Inv, TypeOK, IsCall, Settled
    <2>2. Asked(r) \in Nat /\ Room(r) \in Nat
      BY <1>1, <2>1, QuantitiesNat DEF Inv
    <2>3. Units(Asked(r)) \in Nat /\ Units(Room(r)) \in Nat
      BY <2>2, UnitsRound
    <2>4. cells[r].pct \in calcPercentage(Units(Asked(r)), Units(Room(r)))
      BY <1>1 DEF Inv, Compares
    <2>5. 100 * Units(Asked(r)) > 100 * Units(Room(r))
      BY <1>1, <2>3, <2>4, AboveIsAbove
    <2>6. Asked(r) > Room(r)
      BY <2>2, <2>3, <2>5, UnitsKeepOrder
    <2>7. CASE call.command = "node"
      BY <1>1, <2>1, <2>6, <2>7, SumsComplete DEF Asked, Required
    <2>8. CASE call.command = "pod"
      BY <1>1, <2>1, <2>6, <2>8, SumsComplete DEF Asked, Room
    <2> QED
      BY <2>1, <2>7, <2>8
  <1>2. Inv => OverHundredIsExcess
    BY <1>1 DEF OverHundredIsExcess
  <1> QED
    BY Invariance, <1>2, PTL
=============================================================================
