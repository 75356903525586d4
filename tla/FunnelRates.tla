---------------------------- MODULE FunnelRates ----------------------------
(***************************************************************************)
(* FunnelChart's calculateConversionRate (components/analytics/funnel-     *)
(* chart.tsx) and the spec's rate it is checked against.  A funnel is a    *)
(* sequence of records with a `count' field; a rate is a number of tenths  *)
(* of a percent.  Kept apart from ViewTransforms, which uses it, so that   *)
(* FunnelRatesProofs can reason about it without the recursive operators   *)
(* of the sequence library.                                                *)
(***************************************************************************)
EXTENDS Integers

CONSTANTS
    NoRate,     \* model value: calculateConversionRate returned ''
    NotARate    \* model value: NaN, Infinity or a TypeError instead of a rate

(* Variant of ConversionRate without the `previous.count === 0' guard.     *)
ConversionRateUnguarded(f, i) ==
    IF i = 1 THEN NoRate
    ELSE IF f[i - 1].count = 0 THEN NotARate
    ELSE (2000 * f[i].count + f[i - 1].count) \div (2 * f[i - 1].count)

(***************************************************************************)
(* calculateConversionRate for the stage at position i (1-based here):     *)
(* '' for the first stage, '0%' when the previous count is 0, otherwise    *)
(* (current / previous * 100).toFixed(1), as a number of tenths of a       *)
(* percent rounded half up.  (With the small counts checked no quotient    *)
(* falls on a half, where the float could round the other way.)           *)
(***************************************************************************)
ConversionRate(f, i) ==
    IF i = 1 THEN NoRate
    ELSE IF f[i - 1].count = 0 THEN 0
    ELSE (2000 * f[i].count + f[i - 1].count) \div (2 * f[i - 1].count)

(***************************************************************************)
(* Reference (spec sections 4.3 and 8): the rate from a stage of count     *)
(* prev to one of count cur is 0 when prev is 0, else cur / prev * 100 to  *)
(* the nearest tenth: the r with |r / 10 - cur / prev * 100| <= 1/20,      *)
(* halves going up.                                                        *)
(***************************************************************************)
SpecRate(cur, prev) ==
    IF prev = 0 THEN 0
    ELSE CHOOSE r \in 0..1000 * cur :
             /\ 2 * prev * r <= 2000 * cur + prev
             /\ 2 * prev * r > 2000 * cur - prev

=============================================================================
