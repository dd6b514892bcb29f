--------------------------- MODULE MCRetargeting ---------------------------
(***************************************************************************)
(* Policies at the boundaries: unit mode, a step of several units, a least *)
(* volume above the step, a volume limit that bites before the weight      *)
(* limit, and one so low that no lot is permitted.                         *)
(***************************************************************************)
EXTENDS Retargeting

Sizes(leverage, step, minVolume, maxVolume, maxWeight) ==
    [leverage |-> leverage, step |-> step, minVolume |-> minVolume,
     maxVolume |-> maxVolume, maxWeight |-> maxWeight, scale |-> 8]

MCPolicies ==
    {Sizes(1, 1, 1, 40, 2), Sizes(1, 1, 1, 3, 2), Sizes(4, 1, 1, 40, 2),
     Sizes(4, 3, 3, 30, 2), Sizes(4, 2, 6, 30, 3), Sizes(4, 2, 2, 4, 8),
     Sizes(1, 5, 5, 40, 1)}

MCTargets == -8..8
MCEquities == (-1)..13
MCMids2 == {0, 1, 2, 3, 5, 8}
=============================================================================
