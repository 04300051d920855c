SPECIFICATION Spec
CONSTANTS
    Lifetimes <- MCLifetimes
    Backdates <- MCBackdates
    RenewBefore <- MCRenewBefore
    Gaps <- MCGaps
    MaxGap = 2940
    MaxMisses = 3
INVARIANTS
    StaysValid
    EstimateIsDue
PROPERTIES
    UsedForTwoThirds
