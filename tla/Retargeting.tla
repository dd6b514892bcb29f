----------------------------- MODULE Retargeting -----------------------------
(***************************************************************************)
(* One account under a fixed policy, whose equity and price move between   *)
(* one target and the next: the setting in which sizing and classification *)
(* have to agree with each other.  Lots: the volume limits are multiples   *)
(* of the step, as in every policy the repository configures.              *)
(***************************************************************************)
EXTENDS Sizing

CONSTANTS
    Policies,   \* the sizing policies considered
    Equities,   \* account equities, in whole USD; losses may exceed the account
    Mids2,      \* doubled mid prices; 0 stands for no usable quote
    Targets     \* target weights, in units of 1 / scale

ASSUME RetargetingAssumption ==
    /\ Policies \subseteq SizingPolicy
    /\ \A p \in Policies : p.minVolume % p.step = 0 /\ p.maxVolume % p.step = 0
    /\ Equities \subseteq Int /\ Mids2 \subseteq Nat /\ Targets \subseteq Int

VARIABLES policy, equity, mid2, qty

accountVars == <<policy, equity, mid2, qty>>

AccountInit ==
    /\ policy \in Policies
    /\ equity \in {e \in Equities : e > 0}
    /\ mid2 \in Mids2
    /\ qty = 0

\* The market moves: another price, and the equity it implies.
Move ==
    /\ equity' \in Equities
    /\ mid2' \in Mids2
    /\ UNCHANGED <<policy, qty>>

Desired(w) == quantize_target_quantity_eur(policy, equity, mid2, w)
Kind(w) == classify_exposure_change(policy, qty, equity, mid2, w)

\* A fill moves the position to the quantity the target asks for.  Without a
\* usable quote or positive equity no fill happens.
Retarget(w) ==
    /\ mid2 > 0 /\ equity > 0
    /\ qty' = Desired(w)
    /\ UNCHANGED <<policy, equity, mid2>>

AccountNext == Move \/ \E w \in Targets : Retarget(w)

AccountSpec == AccountInit /\ [][AccountNext]_accountVars
-----------------------------------------------------------------------------
AccountTypeOK ==
    /\ policy \in Policies
    /\ equity \in Equities
    /\ mid2 \in Mids2
    /\ qty \in -policy.maxVolume .. policy.maxVolume

\* The notional of size at the mid price, and the one a weight of w requests,
\* both times 2 * scale.
Notional(size) == size * mid2 * policy.scale
Requested(w) == 2 * equity * policy.leverage * Abs(w)

\* Whole lots within the volume limits whose notional respects the weight limit.
Permitted ==
    {s \in policy.minVolume .. policy.maxVolume :
        s % policy.step = 0 /\ Notional(s) <= Requested(policy.maxWeight)}

Miss(s, w) == Abs(Notional(s) - Requested(w))

\* In lot mode a target gets the permitted size whose notional is nearest to the
\* requested one, the larger of two equally near, and nothing if none is
\* permitted: rounding up to a lot, or to the least volume, never breaches the
\* weight limit (the docstring of quantize_target_quantity_eur).
SizeIsNearestPermitted ==
    \A w \in Targets :
        (~IsLegacy(policy) /\ w # 0 /\ mid2 > 0 /\ equity > 0) =>
            LET size == Abs(Desired(w))
            IN  IF Permitted = {} THEN size = 0
                ELSE /\ size \in Permitted
                     /\ \A s \in Permitted :
                          \/ Miss(size, w) < Miss(s, w)
                          \/ Miss(size, w) = Miss(s, w) /\ s <= size

\* In unit mode a target gets the largest affordable size under the volume limit.
UnitsAreAffordable ==
    \A w \in Targets :
        (IsLegacy(policy) /\ mid2 > 0 /\ equity > 0) =>
            LET size == Abs(Desired(w))
            IN  /\ size <= policy.maxVolume /\ Notional(size) <= Requested(w)
                /\ size < policy.maxVolume => Notional(size + 1) > Requested(w)

\* In both modes a target gets its right size, at every position that trading
\* reaches, and no position exceeds the volume limit.
SizesAreRight == AccountTypeOK /\ SizeIsNearestPermitted /\ UnitsAreAffordable

\* A change judged not to increase risk, which the kill switch, the stops and
\* the loss limits let through, neither adds to the position nor reverses it,
\* and a change judged to be none leaves it alone.
UncheckedChangesAreSafe ==
    \A w \in Targets :
        ~IncreasesRisk(policy, qty, equity, mid2, w) =>
            /\ Abs(Desired(w)) <= Abs(qty)
            /\ Desired(w) # 0 => (Desired(w) > 0) = (qty > 0)
            /\ Kind(w) = "no_change" => Desired(w) = qty

\* A larger target never yields a smaller position, whatever the rounding,
\* the least volume and the caps do.
SizeFollowsWeight ==
    \A v, w \in Targets : v <= w => Desired(v) <= Desired(w)
=============================================================================
