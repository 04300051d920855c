SPECIFICATION Spec
CONSTANTS
    Workers = {w1}
    Interruptible = {w1}
    Sans <- MCSans
    Flows <- MCOne
    MaxSerial = 2
PROPERTIES
    AcceptedPairMatches
