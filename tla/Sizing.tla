------------------------------- MODULE Sizing -------------------------------
(***************************************************************************)
(* Position sizing and exposure classification (trading/portfolio.py).     *)
(*                                                                         *)
(* Exact integer arithmetic stands for the program's Decimals.  A price is *)
(* given by its double, mid2 = bid + ask, so that the mid price mid2 / 2   *)
(* needs no fraction, and a weight w stands for w / p.scale.  The policy p *)
(* carries the fields of RiskPolicy that sizing reads.                     *)
(***************************************************************************)
EXTENDS Integers

\* The sizing fields of a RiskPolicy.
SizingPolicy ==
    [leverage : Nat \ {0}, step : Nat \ {0}, minVolume : Nat \ {0},
     maxVolume : Nat \ {0}, maxWeight : Nat \ {0}, scale : Nat \ {0}]

Abs(x) == IF x < 0 THEN -x ELSE x
Least(x, y) == IF x <= y THEN x ELSE y
Greatest(x, y) == IF x >= y THEN x ELSE y

\* Decimal.quantize of n / d, n >= 0 and d > 0, to whole units: ROUND_DOWN
\* and ROUND_HALF_UP.
RoundDown(n, d) == n \div d
RoundHalfUp(n, d) == (2 * n + d) \div (2 * d)

\* The sign of the target weight put on a non-negative size.
Signed(w, size) == IF w > 0 THEN size ELSE -size

\* The unleveraged one-unit mode, which ignores the weight limit.
IsLegacy(p) == p.leverage = 1 /\ p.step = 1 /\ p.minVolume = 1

\* The size in that mode: as many whole units as the equity buys.
LegacySize(p, equity, mid2, w) ==
    Least(RoundDown(2 * equity * Abs(w), p.scale * mid2), p.maxVolume)

\* The largest size the weight limit and the volume limit permit.
HardCap(p, equity, mid2) ==
    Least(p.maxVolume,
          p.step * RoundDown(2 * equity * p.leverage * p.maxWeight,
                             p.scale * mid2 * p.step))

\* The number of lots nearest to the requested notional.
NearestLots(p, equity, mid2, w) ==
    RoundHalfUp(2 * equity * p.leverage * Abs(w), p.scale * mid2 * p.step)

\* Mutant: the least volume is applied after the cap, even where the cap is below.
LotSize_CapsFirst(p, equity, mid2, w) ==
    Greatest(p.minVolume, Least(p.step * NearestLots(p, equity, mid2, w),
                                HardCap(p, equity, mid2)))

\* Mutant: a size above the cap is refused instead of cut.
LotSize_RefusesAboveCap(p, equity, mid2, w) ==
    LET sized == Greatest(p.step * NearestLots(p, equity, mid2, w), p.minVolume)
    IN  IF sized > HardCap(p, equity, mid2) THEN 0 ELSE sized

\* The size in lot mode: at least the least volume, at most the cap, and nothing
\* where the cap leaves no room for the least volume.
LotSize(p, equity, mid2, w) ==
    LET cap == HardCap(p, equity, mid2)
        sized == Greatest(p.step * NearestLots(p, equity, mid2, w), p.minVolume)
    IN  IF cap < p.minVolume THEN 0 ELSE Least(sized, cap)

\* The signed EUR quantity a target weight asks for.
quantize_target_quantity_eur(p, equity, mid2, w) ==
    IF w = 0 \/ mid2 <= 0 \/ equity <= 0 THEN 0
    ELSE Signed(w, IF IsLegacy(p) THEN LegacySize(p, equity, mid2, w)
                                  ELSE LotSize(p, equity, mid2, w))

ExposureChangeKind ==
    {"no_change", "risk_reducing", "risk_increasing", "reversal_risk_increasing"}

\* Mutant: the sides of position and target are not compared.
classify_exposure_change_BySizeAlone(p, qty, equity, mid2, w) ==
    LET desired == quantize_target_quantity_eur(p, equity, mid2, w)
    IN  CASE w = 0 -> IF qty = 0 THEN "no_change" ELSE "risk_reducing"
          [] w # 0 /\ Abs(desired) < Abs(qty) -> "risk_reducing"
          [] OTHER -> IF desired = qty THEN "no_change" ELSE "risk_increasing"

\* What moving a position of qty towards weight w does to the risk held.
classify_exposure_change(p, qty, equity, mid2, w) ==
    LET desired == quantize_target_quantity_eur(p, equity, mid2, w)
    IN  CASE w = 0 -> IF qty = 0 THEN "no_change" ELSE "risk_reducing"
          [] w # 0 /\ qty = 0 -> "risk_increasing"
          [] w # 0 /\ qty # 0 /\ ((qty > 0) # (w > 0)) -> "reversal_risk_increasing"
          [] OTHER -> IF mid2 <= 0 \/ equity <= 0 THEN "risk_increasing"
                      ELSE IF Abs(desired) < Abs(qty) THEN "risk_reducing"
                      ELSE IF desired = qty THEN "no_change"
                      ELSE "risk_increasing"

IncreasesRisk(p, qty, equity, mid2, w) ==
    classify_exposure_change(p, qty, equity, mid2, w)
        \in {"risk_increasing", "reversal_risk_increasing"}
=============================================================================
