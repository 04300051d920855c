SPECIFICATION FairSpec
CONSTANTS
    Threads = {t1, t2}
    Names = {"web", "mail", "www", "shop"}
    Config <- MCMoved
    MaxWaiting = 1
    MaxBoots = 1
PROPERTIES
    Converges
    KeepsRunning
    NudgesArm
    StopDrains
