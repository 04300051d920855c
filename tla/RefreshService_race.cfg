SPECIFICATION Spec
CONSTANTS
    Threads = {t1, t2}
    Names = {"web", "mail", "www", "shop"}
    Config <- MCDropped
    MaxWaiting = 1
    MaxBoots = 2
INVARIANTS
    TypeOK
    JobsNeedConfig
    KeepsNewer
    ShownIsArmed
PROPERTIES
    LoopEndsForCause
    ImplementsJobTable
