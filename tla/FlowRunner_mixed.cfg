SPECIFICATION Spec
CONSTANTS
    Workers = {w1, w2}
    Interruptible = {}
    Sans <- MCSans
    Flows <- MCOne
    MaxSerial = 2
INVARIANTS
    PairAtRest
