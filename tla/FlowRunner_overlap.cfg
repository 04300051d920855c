SPECIFICATION FairSpec
CONSTANTS
    Workers = {w1, w2}
    Interruptible = {w1}
    Sans <- MCSans
    Flows <- MCForms
    MaxSerial = 2
INVARIANTS
    TypeOK
    PairKept
    ServiceFollowsDisk
PROPERTIES
    HandedOver
