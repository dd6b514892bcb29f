SPECIFICATION AccountSpec
CONSTANTS
    Policies <- MCPolicies
    Equities <- MCEquities
    Mids2 <- MCMids2
    Targets <- MCTargets
INVARIANTS SizesAreRight UncheckedChangesAreSafe SizeFollowsWeight
