SPECIFICATION SerialSpec
CONSTANTS
    Workers = {w1, w2}
    Interruptible = {}
    Sans <- MCSans
    Flows <- MCSame
    MaxSerial = 4
PROPERTIES
    ImplementsCertStore
    DueIsReplaced
