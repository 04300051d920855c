SPECIFICATION Spec
CONSTANTS
    Threads = {t1}
    Names = {"web", "mail", "www", "shop"}
    Config <- MCReordered
    MaxWaiting = 1
    MaxBoots = 1
PROPERTIES
    JobRunsItsFlow
