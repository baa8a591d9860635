SPECIFICATION MCSpec
CHECK_DEADLOCK FALSE
CONSTANTS
    Page <- MCPage
    Sector <- MCSector
    sectorOf <- MCSectorOf
    Data <- MCData
    TasksOf <- MCTasksOf
    NoTask = NoTask
    Block <- MCMixedBlocks
    PagesPerSector = 2
    MaxValidBlocks <- MCMaxValidBlocks
    SramBase <- MCSramBase
    TopAddr <- MCTopAddr
    HostMay = {"msc_reset", "set_config"}
    MaxToken = 8
    MaxResets = 1
INVARIANTS
    Uf2TypeOK
PROPERTIES
    RebootOnlyWhenWritten
    RebootsAfterAllBlocks
    StartsAtLowestSram
