SPECIFICATION MCSpec
CONSTANTS
    Page <- MCPage
    Sector <- MCSector
    sectorOf <- MCSectorOf
    Data <- MCData
    TasksOf <- MCTasksOf
    NoTask = NoTask
INVARIANTS
    AsyncTypeOK
    NoLostWakeup
    DiskIdleWhileExclusive
PROPERTIES
    RefusedTaskLeavesFlash
