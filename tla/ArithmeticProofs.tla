-------------------------- MODULE ArithmeticProofs --------------------------
(***************************************************************************)
(* The arithmetic the other proofs rest on: sizing and classification, for *)
(* every policy, equity, price and weight, and the sums over finite sets   *)
(* that the invariants about fills and model calls are stated with.        *)
(***************************************************************************)
EXTENDS Sizing, Functions, FiniteSetTheorems, WellFoundedInduction, TLAPS

\* Rounding down n / d gives the greatest whole number of units in it.
LEMMA RoundDownBounds ==
    ASSUME NEW n \in Nat, NEW d \in Nat \ {0}
    PROVE  /\ RoundDown(n, d) \in Nat
           /\ RoundDown(n, d) * d <= n
           /\ n < (RoundDown(n, d) + 1) * d
BY DEF RoundDown

\* Rounding half up gives a natural number.
LEMMA RoundHalfUpIsNatural ==
    ASSUME NEW n \in Nat, NEW d \in Nat \ {0}
    PROVE  RoundHalfUp(n, d) \in Nat
BY DEF RoundHalfUp

\* Neither rounding reverses an order.
LEMMA RoundingIsMonotone ==
    ASSUME NEW m \in Nat, NEW n \in Nat, NEW d \in Nat \ {0}, m <= n
    PROVE  /\ RoundDown(m, d) <= RoundDown(n, d)
           /\ RoundHalfUp(m, d) <= RoundHalfUp(n, d)
BY DEF RoundDown, RoundHalfUp

\* Products of natural numbers are ordered as their factors are.
LEMMA ProductMonotone ==
    ASSUME NEW k \in Nat, NEW x \in Nat, NEW y \in Nat, x <= y
    PROVE  k * x \in Nat /\ k * y \in Nat /\ k * x <= k * y
OBVIOUS

\* A product of positive numbers is positive.
LEMMA ProductPositive ==
    ASSUME NEW x \in Nat \ {0}, NEW y \in Nat \ {0}
    PROVE  x * y \in Nat \ {0}
OBVIOUS

\* The denominators of sizing are positive, and so is the cap's numerator.
LEMMA CapTerms ==
    ASSUME NEW p \in SizingPolicy, NEW e \in Nat \ {0}, NEW m \in Nat \ {0}
    PROVE  /\ p.scale * m \in Nat \ {0}
           /\ p.scale * m * p.step \in Nat \ {0}
           /\ 2 * e * p.leverage \in Nat \ {0}
           /\ 2 * e * p.leverage * p.maxWeight \in Nat
<1>1. /\ p.scale \in Nat \ {0} /\ p.step \in Nat \ {0}
      /\ p.leverage \in Nat \ {0} /\ p.maxWeight \in Nat \ {0}
  BY DEF SizingPolicy
<1>2. p.scale * m \in Nat \ {0} /\ 2 * e \in Nat \ {0}
  BY <1>1, ProductPositive
<1>3. p.scale * m * p.step \in Nat \ {0} /\ 2 * e * p.leverage \in Nat \ {0}
  BY <1>1, <1>2, ProductPositive
<1>4. 2 * e * p.leverage * p.maxWeight \in Nat
  BY <1>1, <1>3, ProductPositive
<1> QED
  BY <1>2, <1>3, <1>4

\* A larger weight, either way, asks for a larger notional.
LEMMA SizingTerms ==
    ASSUME NEW p \in SizingPolicy, NEW e \in Nat \ {0}, NEW m \in Nat \ {0},
           NEW v \in Int, NEW w \in Int, Abs(v) <= Abs(w)
    PROVE  /\ 2 * e * Abs(v) \in Nat /\ 2 * e * Abs(w) \in Nat
           /\ 2 * e * Abs(v) <= 2 * e * Abs(w)
           /\ 2 * e * p.leverage * Abs(v) \in Nat /\ 2 * e * p.leverage * Abs(w) \in Nat
           /\ 2 * e * p.leverage * Abs(v) <= 2 * e * p.leverage * Abs(w)
<1>1. Abs(v) \in Nat /\ Abs(w) \in Nat
  BY DEF Abs
<1>2. 2 * e \in Nat /\ 2 * e * p.leverage \in Nat
  BY CapTerms
<1> QED
  BY <1>1, <1>2, ProductMonotone

\* The size of a target in unit mode.
LEMMA LegacySizeBounds ==
    ASSUME NEW p \in SizingPolicy, NEW e \in Nat \ {0}, NEW m \in Nat \ {0},
           NEW w \in Int
    PROVE  LegacySize(p, e, m, w) \in 0 .. p.maxVolume
<1>1. RoundDown(2 * e * Abs(w), p.scale * m) \in Nat
  <2>1. Abs(w) <= Abs(w)
    BY DEF Abs
  <2> QED
    BY <2>1, CapTerms, SizingTerms, RoundDownBounds
<1> QED
  BY <1>1 DEF LegacySize, Least, SizingPolicy

\* The cap leaves no more volume than allowed.
LEMMA HardCapBounds ==
    ASSUME NEW p \in SizingPolicy, NEW e \in Nat \ {0}, NEW m \in Nat \ {0}
    PROVE  HardCap(p, e, m) \in 0 .. p.maxVolume
<1> DEFINE k == RoundDown(2 * e * p.leverage * p.maxWeight, p.scale * m * p.step)
<1>1. k \in Nat
  BY CapTerms, RoundDownBounds
<1>2. p.step * k \in Nat
  BY <1>1, ProductMonotone DEF SizingPolicy
<1> QED
  BY <1>2 DEF HardCap, Least, SizingPolicy

\* The size of a target in lot mode: none, or between the least volume and the cap.
LEMMA LotSizeBounds ==
    ASSUME NEW p \in SizingPolicy, NEW e \in Nat \ {0}, NEW m \in Nat \ {0},
           NEW w \in Int
    PROVE  /\ LotSize(p, e, m, w) \in 0 .. p.maxVolume
           /\ LotSize(p, e, m, w) # 0 =>
                LotSize(p, e, m, w) \in p.minVolume .. HardCap(p, e, m)
<1>1. NearestLots(p, e, m, w) \in Nat
  <2>1. Abs(w) <= Abs(w)
    BY DEF Abs
  <2> QED
    BY <2>1, CapTerms, SizingTerms, RoundHalfUpIsNatural DEF NearestLots
<1>2. p.step * NearestLots(p, e, m, w) \in Nat
  BY <1>1, ProductMonotone DEF SizingPolicy
<1>3. HardCap(p, e, m) \in 0 .. p.maxVolume /\ p.maxVolume \in Nat /\ p.minVolume \in Nat
  BY HardCapBounds DEF SizingPolicy
<1> QED
  BY <1>2, <1>3 DEF LotSize, Least, Greatest

\* The quantity a target asks for is on the side of its weight and within the
\* volume limit, whatever the equity and the price.
LEMMA DesiredQuantityBounds ==
    ASSUME NEW p \in SizingPolicy, NEW e \in Int, NEW m \in Nat, NEW w \in Int
    PROVE  LET q == quantize_target_quantity_eur(p, e, m, w)
           IN  /\ q \in Int /\ q \in -p.maxVolume .. p.maxVolume
               /\ q > 0 => w > 0
               /\ q < 0 => w < 0
<1> DEFINE q == quantize_target_quantity_eur(p, e, m, w)
<1>0. p.maxVolume \in Nat
  BY DEF SizingPolicy
<1>1. CASE w = 0 \/ m <= 0 \/ e <= 0
  BY <1>0, <1>1 DEF quantize_target_quantity_eur
<1>2. CASE ~(w = 0 \/ m <= 0 \/ e <= 0)
  <2>1. e \in Nat \ {0} /\ m \in Nat \ {0}
    BY <1>2
  <2>2. LegacySize(p, e, m, w) \in 0 .. p.maxVolume
    BY <2>1, LegacySizeBounds
  <2>3. LotSize(p, e, m, w) \in 0 .. p.maxVolume
    BY <2>1, LotSizeBounds
  <2> QED
    BY <1>0, <1>2, <2>2, <2>3 DEF quantize_target_quantity_eur, Signed
<1> QED
  BY <1>1, <1>2

\* A larger weight on the same side asks for at least as large a size.
LEMMA SizesAreMonotone ==
    ASSUME NEW p \in SizingPolicy, NEW e \in Nat \ {0}, NEW m \in Nat \ {0},
           NEW v \in Int, NEW w \in Int, Abs(v) <= Abs(w)
    PROVE  /\ LegacySize(p, e, m, v) <= LegacySize(p, e, m, w)
           /\ LotSize(p, e, m, v) <= LotSize(p, e, m, w)
<1> DEFINE low == RoundDown(2 * e * Abs(v), p.scale * m)
           high == RoundDown(2 * e * Abs(w), p.scale * m)
<1>1. low \in Nat /\ high \in Nat /\ low <= high
  BY CapTerms, SizingTerms, RoundDownBounds, RoundingIsMonotone
<1>2. LegacySize(p, e, m, v) <= LegacySize(p, e, m, w)
  BY <1>1 DEF LegacySize, Least, SizingPolicy
<1>3. /\ NearestLots(p, e, m, v) \in Nat /\ NearestLots(p, e, m, w) \in Nat
      /\ NearestLots(p, e, m, v) <= NearestLots(p, e, m, w)
  BY CapTerms, SizingTerms, RoundHalfUpIsNatural, RoundingIsMonotone DEF NearestLots
<1>4. /\ p.step * NearestLots(p, e, m, v) \in Nat /\ p.step * NearestLots(p, e, m, w) \in Nat
      /\ p.step * NearestLots(p, e, m, v) <= p.step * NearestLots(p, e, m, w)
  BY <1>3, ProductMonotone DEF SizingPolicy
<1>5. HardCap(p, e, m) \in Nat /\ p.minVolume \in Nat
  BY HardCapBounds DEF SizingPolicy
<1>6. LotSize(p, e, m, v) <= LotSize(p, e, m, w)
  BY <1>4, <1>5 DEF LotSize, Least, Greatest
<1> QED
  BY <1>2, <1>6

\* A larger target weight never asks for a smaller quantity.
LEMMA DesiredQuantityMonotone ==
    ASSUME NEW p \in SizingPolicy, NEW e \in Int, NEW m \in Nat,
           NEW v \in Int, NEW w \in Int, v <= w
    PROVE  quantize_target_quantity_eur(p, e, m, v)
             <= quantize_target_quantity_eur(p, e, m, w)
<1> DEFINE less == quantize_target_quantity_eur(p, e, m, v)
           more == quantize_target_quantity_eur(p, e, m, w)
<1>0. p.maxVolume \in Nat
  BY DEF SizingPolicy
<1>1. CASE m <= 0 \/ e <= 0
  BY <1>1 DEF quantize_target_quantity_eur
<1>2. CASE m > 0 /\ e > 0 /\ (v <= 0 /\ w >= 0)
  <2>1. less \in Int /\ (less > 0 => v > 0)
    BY DesiredQuantityBounds
  <2>2. more \in Int /\ (more < 0 => w < 0)
    BY DesiredQuantityBounds
  <2> QED
    BY <1>2, <2>1, <2>2
<1>3. CASE m > 0 /\ e > 0 /\ (v > 0 \/ w < 0)
  <2>1. e \in Nat \ {0} /\ m \in Nat \ {0}
    BY <1>3
  <2>2. /\ LegacySize(p, e, m, v) \in Nat /\ LegacySize(p, e, m, w) \in Nat
        /\ LotSize(p, e, m, v) \in Nat /\ LotSize(p, e, m, w) \in Nat
    BY <1>0, <2>1, LegacySizeBounds, LotSizeBounds, SMTT(25)
  <2>3. CASE v > 0
    <3>1. Abs(v) <= Abs(w) /\ w > 0
      BY <2>3 DEF Abs
    <3>2. /\ LegacySize(p, e, m, v) <= LegacySize(p, e, m, w)
          /\ LotSize(p, e, m, v) <= LotSize(p, e, m, w)
      BY <2>1, <3>1, SizesAreMonotone
    <3> QED
      BY <1>3, <2>2, <2>3, <3>1, <3>2 DEF quantize_target_quantity_eur, Signed
  <2>4. CASE w < 0
    <3>1. Abs(w) <= Abs(v) /\ v < 0
      BY <2>4 DEF Abs
    <3>2. /\ LegacySize(p, e, m, w) <= LegacySize(p, e, m, v)
          /\ LotSize(p, e, m, w) <= LotSize(p, e, m, v)
      BY <2>1, <3>1, SizesAreMonotone
    <3> QED
      BY <1>3, <2>2, <2>4, <3>1, <3>2 DEF quantize_target_quantity_eur, Signed
  <2> QED
    BY <1>3, <2>3, <2>4
<1> QED
  BY <1>1, <1>2, <1>3

\* A change that does not increase risk neither adds to the position nor
\* reverses it, and one that is none leaves it alone.
LEMMA UncheckedChangeBounds ==
    ASSUME NEW p \in SizingPolicy, NEW e \in Int, NEW m \in Nat, NEW w \in Int,
           NEW qty \in Int, ~IncreasesRisk(p, qty, e, m, w)
    PROVE  LET q == quantize_target_quantity_eur(p, e, m, w)
           IN  /\ Abs(q) <= Abs(qty)
               /\ q # 0 => (q > 0) = (qty > 0)
               /\ classify_exposure_change(p, qty, e, m, w) = "no_change" => q = qty
<1> DEFINE q == quantize_target_quantity_eur(p, e, m, w)
           kind == classify_exposure_change(p, qty, e, m, w)
<1>1. q \in Int /\ (q > 0 => w > 0) /\ (q < 0 => w < 0)
  BY DesiredQuantityBounds
<1>2. CASE w = 0
  <2>1. q = 0
    BY <1>2 DEF quantize_target_quantity_eur
  <2> QED
    BY <1>2, <2>1 DEF Abs, classify_exposure_change
<1>3. CASE w # 0
  <2>1. qty # 0 /\ (qty > 0) = (w > 0)
    BY <1>3 DEF IncreasesRisk, classify_exposure_change
  <2>2. \/ kind = "risk_reducing" /\ Abs(q) < Abs(qty)
        \/ kind = "no_change" /\ q = qty
    BY <1>3, <2>1 DEF IncreasesRisk, classify_exposure_change
  <2> QED
    BY <1>1, <2>1, <2>2 DEF Abs
<1> QED
  BY <1>2, <1>3
-----------------------------------------------------------------------------
(***************************************************************************)
(* Sums.  SumFunctionOnSet is a fold; the induction over its set is by the *)
(* smallest set that would be an exception.                                *)
(***************************************************************************)
\* Among finite sets of elements of S there is one none of which is smaller.
LEMMA SmallestSet ==
    ASSUME NEW S, IsFiniteSet(S), NEW T \in SUBSET SUBSET S, T # {}
    PROVE  \E s \in T : \A u \in T : u \subseteq s => u = s
<1>1. IsWellFoundedOn(StrictSubsetOrdering(S), SUBSET S)
  BY FS_StrictSubsetOrderingWellFounded, FS_FiniteSubsetsOfFinite
<1>2. PICK s \in T : \A u \in T : ~ (<<u, s>> \in StrictSubsetOrdering(S))
  BY <1>1, WFMin
<1> QED
  BY <1>2 DEF StrictSubsetOrdering

\* A set of natural numbers that has any has a least one.
LEMMA LeastNatural ==
    ASSUME NEW T \in SUBSET Nat, T # {}
    PROVE  \E n \in T : \A m \in T : n <= m
<1> DEFINE Below == {ss \in Nat \X Nat : ss[1] < ss[2]}
<1>1. IsWellFoundedOn(Below, Nat)
  BY NatLessThanWellFounded, Zenon DEF OpToRel
<1>2. PICK n \in T : \A m \in T : ~ (<<m, n>> \in Below)
  BY <1>1, WFMin
<1>3. ASSUME NEW m \in T PROVE n <= m
  <2>1. n \in Nat /\ m \in Nat /\ <<m, n>> \notin Below
    BY <1>2
  <2> QED
    BY <2>1
<1> QED
  BY <1>3

\* The element a sum takes first, and the table of partial sums it is read from.
First(s) == CHOOSE x \in s : TRUE
SumRow(f, g, s) == IF s = {} THEN 0 ELSE f[First(s)] + g[s \ {First(s)}]
IsSums(f, g, S) == g = [s \in SUBSET S |-> SumRow(f, g, s)]
Sums(f, S) == CHOOSE g : IsSums(f, g, S)

LEMMA SumIsInTable ==
    ASSUME NEW f, NEW S
    PROVE  SumFunctionOnSet(f, S) = Sums(f, S)[S]
BY DEF SumFunctionOnSet, FoldFunctionOnSet, MapThenFoldSet, Sums, IsSums, SumRow, First

\* The table exists.
LEMMA SumsExist ==
    ASSUME NEW S, IsFiniteSet(S), NEW f, \A x \in S : f[x] \in Int
    PROVE  /\ IsSums(f, Sums(f, S), S)
           /\ Sums(f, S) \in [SUBSET S -> Int]
<1> DEFINE Small(k) == {s \in SUBSET S : Cardinality(s) <= k}
           Fills(g, k) == /\ g \in [Small(k) -> Int]
                          /\ \A s \in Small(k) : g[s] = SumRow(f, g, s)
           Missing == {k \in Nat : ~ \E g : Fills(g, k)}
<1>1. \A s \in SUBSET S : /\ IsFiniteSet(s) /\ Cardinality(s) \in Nat
                          /\ Cardinality(s) <= Cardinality(S)
  BY FS_Subset, FS_CardinalityType
<1>2. \A s \in SUBSET S : s # {} =>
         /\ First(s) \in s /\ f[First(s)] \in Int
         /\ s \ {First(s)} \in SUBSET S
         /\ Cardinality(s \ {First(s)}) = Cardinality(s) - 1
  <2> SUFFICES ASSUME NEW s \in SUBSET S, s # {}
               PROVE  /\ First(s) \in s /\ f[First(s)] \in Int
                      /\ s \ {First(s)} \in SUBSET S
                      /\ Cardinality(s \ {First(s)}) = Cardinality(s) - 1
    OBVIOUS
  <2>1. First(s) \in s
    BY DEF First
  <2>2. Cardinality(s \ {First(s)}) = Cardinality(s) - 1
    BY <1>1, <2>1, FS_RemoveElement
  <2> QED
    BY <2>1, <2>2
<1>3. Missing = {}
  <2> SUFFICES ASSUME Missing # {} PROVE FALSE
    OBVIOUS
  <2>1. PICK k \in Missing : \A m \in Missing : k <= m
    BY LeastNatural
  <2>2. CASE k = 0
    <3> DEFINE g == [s \in Small(0) |-> 0]
    <3>1. \A s \in Small(0) : s = {}
      <4> SUFFICES ASSUME NEW s \in Small(0) PROVE s = {}
        OBVIOUS
      <4>1. IsFiniteSet(s) /\ Cardinality(s) = 0
        BY <1>1
      <4> QED
        BY <4>1, FS_EmptySet
    <3>2. Fills(g, 0)
      BY <3>1 DEF SumRow
    <3> QED
      BY <2>1, <2>2, <3>2
  <2>3. CASE k # 0
    <3>0. k \in Nat
      OBVIOUS
    <3>1. k - 1 \in Nat /\ k - 1 \notin Missing
      <4> HIDE DEF Missing
      <4> QED
        BY <2>1, <2>3, <3>0
    <3>2. PICK h : Fills(h, k - 1)
      BY <3>1
    <3> DEFINE g == [s \in Small(k) |-> SumRow(f, h, s)]
    <3>3. \A s \in Small(k) : s # {} => s \ {First(s)} \in Small(k - 1)
      BY <1>1, <1>2, <2>1, <3>1
    <3>4. \A s \in Small(k - 1) : s \in Small(k) /\ h[s] = SumRow(f, h, s) /\ h[s] \in Int
      BY <1>1, <2>1, <3>1, <3>2
    <3>5. \A s \in Small(k) : SumRow(f, h, s) \in Int
      <4> SUFFICES ASSUME NEW s \in Small(k) PROVE SumRow(f, h, s) \in Int
        OBVIOUS
      <4>1. CASE s = {}
        BY <4>1 DEF SumRow
      <4>2. CASE s # {}
        <5>1. f[First(s)] \in Int /\ h[s \ {First(s)}] \in Int
          <6>1. s \in SUBSET S
            OBVIOUS
          <6> HIDE DEF Small
          <6> QED
            BY <1>2, <3>3, <3>4, <4>2, <6>1
        <5> QED
          BY <4>2, <5>1 DEF SumRow
      <4> QED
        BY <4>1, <4>2
    <3> HIDE DEF Small
    <3>6. \A s \in Small(k - 1) : g[s] = h[s]
      BY <3>4
    <3>7. \A s \in Small(k) : SumRow(f, h, s) = SumRow(f, g, s)
      BY <3>3, <3>6 DEF SumRow
    <3>8. Fills(g, k)
      BY <3>5, <3>7
    <3> QED
      BY <2>1, <3>8
  <2> QED
    BY <2>2, <2>3
<1>4. Cardinality(S) \in Nat
  BY FS_CardinalityType
<1>5. PICK g : Fills(g, Cardinality(S))
  BY <1>3, <1>4
<1>6. Small(Cardinality(S)) = SUBSET S
  BY <1>1
<1>7. IsSums(f, g, S)
  BY <1>5, <1>6 DEF IsSums
<1>8. IsSums(f, Sums(f, S), S)
  BY <1>7 DEF Sums
<1> DEFINE t == Sums(f, S)
           Bad == {s \in SUBSET S : t[s] \notin Int}
<1>9. Bad = {}
  <2> SUFFICES ASSUME Bad # {} PROVE FALSE
    OBVIOUS
  <2>1. PICK s \in Bad : \A u \in Bad : u \subseteq s => u = s
    <3>1. Bad \in SUBSET SUBSET S
      OBVIOUS
    <3> HIDE DEF Bad
    <3> QED
      BY <3>1, SmallestSet
  <2>2. t[s] = SumRow(f, t, s)
    BY <1>8 DEF IsSums
  <2> HIDE DEF t
  <2>3. CASE s = {}
    BY <2>2, <2>3 DEF SumRow
  <2>4. CASE s # {}
    <3>1. First(s) \in s /\ f[First(s)] \in Int /\ s \ {First(s)} \in SUBSET S
      BY <1>2, <2>4
    <3>2. s \ {First(s)} \notin Bad
      <4> HIDE DEF Bad
      <4> QED
        BY <2>1, <3>1
    <3>3. t[s \ {First(s)}] \in Int
      BY <3>1, <3>2
    <3> QED
      BY <2>2, <2>4, <3>1, <3>3 DEF SumRow
  <2> QED
    BY <2>3, <2>4
<1>10. t = [s \in SUBSET S |-> SumRow(f, t, s)]
  BY <1>8 DEF IsSums
<1> QED
  BY <1>8, <1>9, <1>10

\* The table of a set agrees on its subsets with theirs.
LEMMA SumsAgree ==
    ASSUME NEW S, IsFiniteSet(S), NEW f, \A x \in S : f[x] \in Int,
           NEW s \in SUBSET S
    PROVE  Sums(f, S)[s] = SumFunctionOnSet(f, s)
<1> DEFINE t == Sums(f, S)
           v == Sums(f, s)
           Differ == {u \in SUBSET s : t[u] # v[u]}
<1>1. IsFiniteSet(s) /\ \A x \in s : f[x] \in Int
  BY FS_Subset
<1>2. IsSums(f, t, S) /\ IsSums(f, v, s)
  BY <1>1, SumsExist
<1>3. \A u \in SUBSET s : t[u] = SumRow(f, t, u) /\ v[u] = SumRow(f, v, u)
  BY <1>2 DEF IsSums
<1> HIDE DEF t, v
<1>4. Differ = {}
  <2> SUFFICES ASSUME Differ # {} PROVE FALSE
    OBVIOUS
  <2>1. PICK u \in Differ : \A r \in Differ : r \subseteq u => r = u
    <3>1. Differ \in SUBSET SUBSET s
      OBVIOUS
    <3> HIDE DEF Differ
    <3> QED
      BY <1>1, <3>1, SmallestSet
  <2>2. t[u] = SumRow(f, t, u) /\ v[u] = SumRow(f, v, u) /\ t[u] # v[u]
    BY <1>3
  <2>3. u # {}
    BY <2>2 DEF SumRow
  <2>4. First(u) \in u
    BY <2>3 DEF First
  <2>5. u \ {First(u)} \in SUBSET s /\ u \ {First(u)} \notin Differ
    <3>1. u \in SUBSET s
      OBVIOUS
    <3> HIDE DEF Differ
    <3> QED
      BY <2>1, <2>4, <3>1
  <2>6. t[u \ {First(u)}] = v[u \ {First(u)}]
    BY <2>5
  <2> QED
    BY <2>2, <2>3, <2>6 DEF SumRow
<1> QED
  BY <1>4, SumIsInTable DEF t, v

\* A sum over no element is 0; any other is the element taken first and the rest.
LEMMA SumTakesFirst ==
    ASSUME NEW S, IsFiniteSet(S), NEW f, \A x \in S : f[x] \in Int
    PROVE  /\ SumFunctionOnSet(f, S) \in Int
           /\ S = {} => SumFunctionOnSet(f, S) = 0
           /\ S # {} => /\ First(S) \in S
                        /\ SumFunctionOnSet(f, S)
                             = f[First(S)] + SumFunctionOnSet(f, S \ {First(S)})
<1>1. Sums(f, S) \in [SUBSET S -> Int] /\ IsSums(f, Sums(f, S), S)
  BY SumsExist
<1>2. SumFunctionOnSet(f, S) = Sums(f, S)[S]
  BY SumIsInTable
<1>3. S \in SUBSET S /\ S \ {First(S)} \in SUBSET S
  OBVIOUS
<1>4. Sums(f, S)[S] = SumRow(f, Sums(f, S), S)
  BY <1>1, <1>3 DEF IsSums
<1>5. Sums(f, S)[S \ {First(S)}] = SumFunctionOnSet(f, S \ {First(S)})
  BY <1>3, SumsAgree
<1>6. Sums(f, S)[S] \in Int
  BY <1>1, <1>3
<1> QED
  BY <1>2, <1>4, <1>5, <1>6 DEF SumRow, First

\* A sum may take any of its elements first.
LEMMA SumTakesAny ==
    ASSUME NEW S, IsFiniteSet(S), NEW f, \A x \in S : f[x] \in Int, NEW e \in S
    PROVE  /\ SumFunctionOnSet(f, S) \in Int /\ SumFunctionOnSet(f, S \ {e}) \in Int
           /\ SumFunctionOnSet(f, S) = f[e] + SumFunctionOnSet(f, S \ {e})
<1> DEFINE Total(s) == SumFunctionOnSet(f, s)
           Bad == {s \in SUBSET S : \E x \in s : Total(s) # f[x] + Total(s \ {x})}
<1>1. \A s \in SUBSET S : /\ IsFiniteSet(s) /\ \A x \in s : f[x] \in Int
                          /\ Total(s) \in Int
  <2> SUFFICES ASSUME NEW s \in SUBSET S
               PROVE  IsFiniteSet(s) /\ (\A x \in s : f[x] \in Int) /\ Total(s) \in Int
    OBVIOUS
  <2>1. IsFiniteSet(s) /\ \A x \in s : f[x] \in Int
    BY FS_Subset
  <2> QED
    BY <2>1, SumTakesFirst
<1>2. \A s \in SUBSET S : s # {} =>
         /\ First(s) \in s
         /\ Total(s) = f[First(s)] + Total(s \ {First(s)})
  BY <1>1, SumTakesFirst
<1> HIDE DEF Total
<1>3. Bad = {}
  <2> SUFFICES ASSUME Bad # {} PROVE FALSE
    OBVIOUS
  <2>1. PICK s \in Bad : \A u \in Bad : u \subseteq s => u = s
    <3>1. Bad \in SUBSET SUBSET S
      OBVIOUS
    <3> HIDE DEF Bad
    <3> QED
      BY <3>1, SmallestSet
  <2>2. PICK x \in s : Total(s) # f[x] + Total(s \ {x})
    OBVIOUS
  <2>3. s \in SUBSET S
    OBVIOUS
  <2>4. \A u \in SUBSET S : u \notin Bad =>
          \A y \in u : Total(u) = f[y] + Total(u \ {y})
    OBVIOUS
  <2> HIDE DEF Bad
  <2> DEFINE y == First(s)
  <2>5. y \in s /\ Total(s) = f[y] + Total(s \ {y})
    BY <1>2, <2>2, <2>3
  <2> HIDE DEF y
  <2>6. x # y
    BY <2>2, <2>5
  <2>7. Total(s \ {y}) = f[x] + Total((s \ {y}) \ {x})
    <3>1. s \ {y} \in SUBSET S /\ s \ {y} \notin Bad /\ x \in s \ {y}
      BY <2>1, <2>3, <2>5, <2>6
    <3> QED
      BY <2>4, <3>1
  <2>8. Total(s \ {x}) = f[y] + Total((s \ {x}) \ {y})
    <3>1. s \ {x} \in SUBSET S /\ s \ {x} \notin Bad /\ y \in s \ {x}
      BY <2>1, <2>3, <2>5, <2>6
    <3> QED
      BY <2>4, <3>1
  <2>9. (s \ {x}) \ {y} = (s \ {y}) \ {x}
    OBVIOUS
  <2>10. Total(s \ {x}) = f[y] + Total((s \ {y}) \ {x})
    BY <2>8, <2>9, Zenon
  <2>11. f[x] \in Int /\ f[y] \in Int /\ Total((s \ {y}) \ {x}) \in Int
    BY <1>1, <2>3, <2>5
  <2> DEFINE rest == Total((s \ {y}) \ {x})
             dx == f[x]
             dy == f[y]
  <2>12. dx \in Int /\ dy \in Int /\ rest \in Int
    BY <2>11
  <2>13. Total(s) = dy + (dx + rest) /\ Total(s \ {x}) = dy + rest
    BY <2>5, <2>7, <2>10
  <2>14. Total(s) # dx + Total(s \ {x})
    BY <2>2
  <2> HIDE DEF rest, dx, dy
  <2>15. dy + (dx + rest) = dx + (dy + rest)
    BY <2>12
  <2> QED
    BY <2>13, <2>14, <2>15, Zenon
<1>4. S \notin Bad
  BY <1>3
<1>5. Total(S) = f[e] + Total(S \ {e}) /\ S \in SUBSET S /\ S \ {e} \in SUBSET S
  BY <1>4
<1> QED
  BY <1>1, <1>5 DEF Total

\* A sum depends only on the values it adds up.
LEMMA SumIsOfValues ==
    ASSUME NEW S, IsFiniteSet(S), NEW f, NEW g,
           \A x \in S : f[x] \in Int /\ f[x] = g[x]
    PROVE  SumFunctionOnSet(f, S) = SumFunctionOnSet(g, S)
<1> DEFINE F(s) == SumFunctionOnSet(f, s)
           G(s) == SumFunctionOnSet(g, s)
           Differ == {s \in SUBSET S : F(s) # G(s)}
<1>1. \A s \in SUBSET S :
         /\ s = {} => F(s) = 0 /\ G(s) = 0
         /\ s # {} => /\ First(s) \in s
                      /\ F(s) = f[First(s)] + F(s \ {First(s)})
                      /\ G(s) = g[First(s)] + G(s \ {First(s)})
  <2> SUFFICES ASSUME NEW s \in SUBSET S
               PROVE  /\ s = {} => F(s) = 0 /\ G(s) = 0
                      /\ s # {} => /\ First(s) \in s
                                   /\ F(s) = f[First(s)] + F(s \ {First(s)})
                                   /\ G(s) = g[First(s)] + G(s \ {First(s)})
    OBVIOUS
  <2>1. IsFiniteSet(s) /\ \A x \in s : f[x] \in Int /\ g[x] \in Int
    BY FS_Subset
  <2> QED
    BY <2>1, SumTakesFirst
<1> HIDE DEF F, G
<1>2. Differ = {}
  <2> SUFFICES ASSUME Differ # {} PROVE FALSE
    OBVIOUS
  <2>1. PICK s \in Differ : \A u \in Differ : u \subseteq s => u = s
    <3>1. Differ \in SUBSET SUBSET S
      OBVIOUS
    <3> HIDE DEF Differ
    <3> QED
      BY <3>1, SmallestSet
  <2>2. s \in SUBSET S /\ F(s) # G(s)
    OBVIOUS
  <2>3. s # {} /\ First(s) \in s
    BY <1>1, <2>2
  <2>4. F(s \ {First(s)}) = G(s \ {First(s)})
    <3>1. s \ {First(s)} \in SUBSET S /\ s \ {First(s)} # s
      BY <2>2, <2>3
    <3>2. s \ {First(s)} \notin Differ
      <4> HIDE DEF Differ
      <4> QED
        BY <2>1, <3>1
    <3> QED
      BY <3>1, <3>2
  <2> QED
    BY <1>1, <2>2, <2>3, <2>4
<1>3. S \in SUBSET S
  OBVIOUS
<1>4. F(S) = G(S)
  BY <1>2, <1>3
<1> QED
  BY <1>4 DEF F, G

\* A sum grows by as much as one of its values.
LEMMA SumGrows ==
    ASSUME NEW S, IsFiniteSet(S), NEW f, \A x \in S : f[x] \in Int,
           NEW e \in S, NEW g, g[e] \in Int, \A x \in S \ {e} : g[x] = f[x]
    PROVE  /\ SumFunctionOnSet(f, S) \in Int
           /\ SumFunctionOnSet(g, S) = SumFunctionOnSet(f, S) + (g[e] - f[e])
<1> DEFINE rest == S \ {e}
<1>1. IsFiniteSet(rest) /\ rest \cup {e} = S /\ e \notin rest
  BY FS_RemoveElement
<1>2. \A x \in rest : f[x] \in Int /\ f[x] = g[x]
  OBVIOUS
<1> HIDE DEF rest
<1>3. /\ SumFunctionOnSet(g, S) \in Int /\ SumFunctionOnSet(g, rest) \in Int
      /\ SumFunctionOnSet(g, S) = g[e] + SumFunctionOnSet(g, rest)
  <2>1. \A x \in S : g[x] \in Int
    BY DEF rest
  <2> QED
    BY <2>1, SumTakesAny DEF rest
<1>4. SumFunctionOnSet(f, rest) = SumFunctionOnSet(g, rest)
  BY <1>1, <1>2, SumIsOfValues
<1>5. /\ SumFunctionOnSet(f, S) \in Int
      /\ SumFunctionOnSet(f, S) = f[e] + SumFunctionOnSet(f, S \ {e})
  BY SumTakesAny
<1> DEFINE part == SumFunctionOnSet(f, rest)
           whole == SumFunctionOnSet(f, S)
           more == SumFunctionOnSet(g, S)
<1>6. part \in Int /\ whole \in Int /\ more = g[e] + part /\ whole = f[e] + part
  BY <1>3, <1>4, <1>5 DEF rest
<1>7. f[e] \in Int /\ g[e] \in Int
  OBVIOUS
<1> HIDE DEF part, whole, more
<1>8. more = whole + (g[e] - f[e])
  BY <1>6, <1>7
<1> QED
  BY <1>6, <1>8 DEF whole, more

\* A sum of zeros is 0.
LEMMA SumOfZeros ==
    ASSUME NEW S, IsFiniteSet(S), NEW f, \A x \in S : f[x] = 0
    PROVE  SumFunctionOnSet(f, S) = 0
<1> DEFINE part(s) == SumFunctionOnSet(f, s)
           Other == {s \in SUBSET S : part(s) # 0}
<1>1. \A s \in SUBSET S :
         /\ s = {} => part(s) = 0
         /\ s # {} => First(s) \in s /\ part(s) = f[First(s)] + part(s \ {First(s)})
  <2> SUFFICES ASSUME NEW s \in SUBSET S
               PROVE  /\ s = {} => part(s) = 0
                      /\ s # {} => /\ First(s) \in s
                                   /\ part(s) = f[First(s)] + part(s \ {First(s)})
    OBVIOUS
  <2>1. IsFiniteSet(s) /\ \A x \in s : f[x] \in Int
    BY FS_Subset
  <2> QED
    BY <2>1, SumTakesFirst
<1> HIDE DEF part
<1>2. Other = {}
  <2> SUFFICES ASSUME Other # {} PROVE FALSE
    OBVIOUS
  <2>1. PICK s \in Other : \A u \in Other : u \subseteq s => u = s
    <3>1. Other \in SUBSET SUBSET S
      OBVIOUS
    <3> HIDE DEF Other
    <3> QED
      BY <3>1, SmallestSet
  <2>2. s \in SUBSET S /\ part(s) # 0
    OBVIOUS
  <2>3. First(s) \in s /\ part(s) = f[First(s)] + part(s \ {First(s)})
    BY <1>1, <2>2
  <2>4. part(s \ {First(s)}) = 0
    <3>1. s \ {First(s)} \in SUBSET S /\ s \ {First(s)} # s
      BY <2>2, <2>3
    <3>2. s \ {First(s)} \notin Other
      <4> HIDE DEF Other
      <4> QED
        BY <2>1, <3>1
    <3> QED
      BY <3>1, <3>2
  <2> QED
    BY <2>2, <2>3, <2>4
<1>3. part(S) = 0
  BY <1>2
<1> QED
  BY <1>3 DEF part

\* f is the finite function g of integers without its value at e.
IsWithout(f, g, e) ==
    /\ IsFiniteSet(DOMAIN g) /\ e \in DOMAIN g
    /\ DOMAIN f = DOMAIN g \ {e}
    /\ \A x \in DOMAIN g : g[x] \in Int
    /\ \A x \in DOMAIN f : f[x] = g[x]

\* One more value adds itself to the sum of a function.
LEMMA SumTakesValue ==
    ASSUME NEW f, NEW g, NEW e, IsWithout(f, g, e)
    PROVE  /\ SumFunction(f) \in Int
           /\ SumFunction(g) = SumFunction(f) + g[e]
<1> DEFINE T == DOMAIN g
           S == T \ {e}
<1>1. IsFiniteSet(T) /\ e \in T /\ DOMAIN f = S
  BY DEF IsWithout
<1>2. IsFiniteSet(S)
  BY <1>1, FS_RemoveElement
<1>3. \A x \in T : g[x] \in Int
  BY DEF IsWithout
<1>4. /\ SumFunctionOnSet(g, T) = g[e] + SumFunctionOnSet(g, S)
      /\ SumFunctionOnSet(g, S) \in Int
  BY <1>1, <1>3, SumTakesAny
<1>5. \A x \in S : f[x] \in Int /\ f[x] = g[x]
  BY <1>1, <1>3 DEF IsWithout
<1> HIDE DEF S
<1>6. SumFunctionOnSet(f, S) = SumFunctionOnSet(g, S)
  BY <1>2, <1>5, SumIsOfValues
<1>7. g[e] \in Int
  BY <1>1, <1>3
<1> QED
  BY <1>1, <1>4, <1>6, <1>7 DEF SumFunction
=============================================================================
