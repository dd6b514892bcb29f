--------------------------- MODULE MCShadowLedger ---------------------------
(***************************************************************************)
(* A small account for TLC: a weight of w asks for about w lots at the     *)
(* initial cash and price, and price moves of a few pips reach every limit. *)
(***************************************************************************)
EXTENDS ShadowLedger, TLC

CONSTANT pw

MCPolicy ==
    [sizing |-> [leverage |-> 2, step |-> 1, minVolume |-> 1, maxVolume |-> 3,
                 maxWeight |-> 2, scale |-> 8],
     maxGross |-> 2, minEquity |-> 36, maxDailyLoss |-> 5]

MCExit ==
    [maxHolding |-> 3, maxPositionLoss |-> 6, takeProfitUsd |-> 6, stopLossPips |-> 3,
     takeProfitPips |-> 3, trailingActivation |-> 2, trailingDistance |-> 1,
     maxDailyLoss |-> 5]

MCWeights == {-1, 1, 2}

(***************************************************************************)
(* Where TLC looks: one order with everything that takes time or a second  *)
(* worker, one order with a pause or an operator's kill switch, and two    *)
(* orders in the first tick.                                               *)
(***************************************************************************)
Used == {o \in Orders : orders[o].status # "idle"}
OneOrder == Cardinality(Used) <= 1
Long == \A o \in Used : orders[o].weight \in {0, 2}
Undisturbed == stop = "none" /\ ~killSwitch
OneWorker == call[pw].phase = "idle"

Focus ==
    \/ OneOrder /\ Long /\ Undisturbed /\ (OneWorker \/ clock <= 1)
    \/ OneOrder /\ OneWorker /\ clock <= 1 /\ quote.bid <= 10
    \/ Undisturbed /\ OneWorker /\ clock <= 1 /\ quote.bid <= 10

Symmetry == Permutations(Orders)
=============================================================================
