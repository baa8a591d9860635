SPECIFICATION MCSpec
CHECK_DEADLOCK FALSE
CONSTANTS
    Page <- MCPage
    Sector <- MCSector
    sectorOf <- MCSectorOf
    Data <- MCData
    TasksOf <- MCTasksOf
    NoTask = NoTask
    Command <- MCCommand
    NoCommand = NoCommand
    HostMay = {"picoboot_reset", "set_config", "lose_config"}
    MaxCommands = 2
    MaxResets = 1
INVARIANTS
    PicobootTypeOK
    OneTask
    AckOnIdleEndpoint
    StatusTellsProgress
PROPERTIES
    AckMeansWritten
    ChunkKeepsBuffer
    CommandAnswered
    RebootQuiesces
