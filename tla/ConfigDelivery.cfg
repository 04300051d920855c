SPECIFICATION Spec
CONSTANTS
    Null = Null
    Scalar = Scalar
    Hostname = "host"
    NoFile = NoFile
    Empty = Empty
    Garbled = Garbled
    Payloads <- MCPayloads
    Threads = {t1, t2}
    Commands = {c1}
    Secret = "secret"
    SpogSecrets <- MCSpogSecrets
    NoSecret = ""
    Skew <- MCSkew
    MaxSkew = 1
    Resolution = 2
    Moments = {1, 3, 9}
    MaxWaiting = 1
    MaxBoots = 1
SYMMETRY MCSymmetry
INVARIANTS
    TypeOK
    StatusShowsAConfig
    CleanFileIsRead
    DiskKeepsNewer
    NudgeNotLost
    WindowHolds
