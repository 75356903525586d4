------------------------- MODULE FunnelRatesProofs -------------------------
(***************************************************************************)
(* calculateConversionRate rounds to the spec's nearest tenth for every    *)
(* pair of counts, not only for the counts 0..3 the transforms run checks. *)
(***************************************************************************)
EXTENDS FunnelRates, TLAPS

\* Integer division by a positive divisor: quotient and remainder.
LEMMA DivBounds ==
    ASSUME NEW a \in Nat, NEW d \in Nat \ {0}
    PROVE  /\ a \div d \in Nat
           /\ d * (a \div d) <= a
           /\ a < d * (a \div d) + d
<1>1. a \div d \in Nat
  BY SMTT(30)
<1>2. d * (a \div d) <= a
  BY SMTT(30)
<1>3. a < d * (a \div d) + d
  BY SMTT(30)
<1>4. QED
  BY <1>1, <1>2, <1>3

\* The quotient calculateConversionRate computes when prev is not 0.
Rounded(cur, prev) == (2000 * cur + prev) \div (2 * prev)

(***************************************************************************)
(* That quotient meets both bounds of SpecRate, and is the only number of  *)
(* 0..1000 * cur that does: the bounds leave an interval of width one.     *)
(***************************************************************************)
LEMMA RoundedQuotient ==
    ASSUME NEW cur \in Nat, NEW prev \in Nat \ {0}
    PROVE  /\ Rounded(cur, prev) \in 0..1000 * cur
           /\ 2 * prev * Rounded(cur, prev) <= 2000 * cur + prev
           /\ 2 * prev * Rounded(cur, prev) > 2000 * cur - prev
           /\ \A r \in 0..1000 * cur :
                 /\ 2 * prev * r <= 2000 * cur + prev
                 /\ 2 * prev * r > 2000 * cur - prev
                 => r = Rounded(cur, prev)
<1> DEFINE a == 2000 * cur + prev
           d == 2 * prev
           q == a \div d
<1> USE DEF Rounded
<1>1. a \in Nat /\ d \in Nat \ {0}
  OBVIOUS
<1>2. q \in Nat /\ d * q <= a /\ a < d * q + d
  <2> HIDE DEF a, d
  <2>1. QED
    BY <1>1, DivBounds
<1>3. 2 * prev * q <= 2000 * cur + prev /\ 2 * prev * q > 2000 * cur - prev
  BY <1>2
<1>4. q <= 1000 * cur
  <2>1. 2 * prev * q <= 2000 * cur * prev + prev
    BY <1>3
  <2>2. 2 * q <= 2000 * cur + 1
    BY <2>1, <1>2
  <2>3. QED
    BY <2>2, <1>2
<1>5. ASSUME NEW r \in 0..1000 * cur,
             2 * prev * r <= 2000 * cur + prev,
             2 * prev * r > 2000 * cur - prev
      PROVE  r = q
  <2>1. d * r < d * (q + 1)
    BY <1>5, <1>2
  <2>2. d * q < d * (r + 1)
    BY <1>5, <1>3
  <2>3. r < q + 1 /\ q < r + 1
    BY <2>1, <2>2, <1>1, <1>2
  <2>4. QED
    BY <2>3, <1>2
<1>6. QED
  BY <1>2, <1>3, <1>4, <1>5

(***************************************************************************)
(* For every funnel and every stage after the first whose count and the    *)
(* previous stage's count are natural numbers, calculateConversionRate     *)
(* returns the spec's rate: 0 after an empty stage, otherwise the count    *)
(* ratio times 100 to the nearest tenth, halves going up.  The transforms  *)
(* run checks ConversionRowsMatchSpec, which rests on this, for counts     *)
(* 0..3 only.                                                              *)
(***************************************************************************)
THEOREM ConversionRateIsSpecRate ==
    ASSUME NEW f, NEW i \in Int, i # 1,
           f[i].count \in Nat, f[i - 1].count \in Nat
    PROVE  ConversionRate(f, i) = SpecRate(f[i].count, f[i - 1].count)
<1> DEFINE cur  == f[i].count
           prev == f[i - 1].count
<1>1. CASE prev = 0
  BY <1>1 DEF ConversionRate, SpecRate
<1>2. CASE prev # 0
  <2> DEFINE q == Rounded(cur, prev)
             S == 0..1000 * cur
             Bounds(r) == 2 * prev * r <= 2000 * cur + prev /\ 2 * prev * r > 2000 * cur - prev
             c == CHOOSE r \in S : Bounds(r)
  <2>1. ConversionRate(f, i) = q
    BY <1>2 DEF ConversionRate, Rounded
  <2>2. cur \in Nat /\ prev \in Nat \ {0}
    BY <1>2
  <2>3. SpecRate(cur, prev) = c
    BY <2>2 DEF SpecRate
  <2> HIDE DEF cur, prev
  <2>4. q \in S /\ Bounds(q) /\ \A r \in S : Bounds(r) => r = q
    BY <2>2, RoundedQuotient
  <2> HIDE DEF q, S, Bounds
  <2>5. c \in S /\ Bounds(c)
    BY <2>4, Zenon
  <2>6. c = q
    BY <2>4, <2>5
  <2>7. QED
    BY <2>1, <2>3, <2>6 DEF cur, prev
<1>3. QED
  BY <1>1, <1>2

=============================================================================
