SPECIFICATION MCSpec
CHECK_DEADLOCK FALSE
CONSTANTS
    Page <- MCPage
    Sector <- MCSector
    sectorOf <- MCSectorOf
    Data <- MCData
    TasksOf <- MCBothTasksOf
    NoTask = NoTask
    Block <- MCSmallBlocks
    PagesPerSector = 2
    MaxValidBlocks <- MCMaxValidBlocks
    SramBase <- MCSramBase
    TopAddr <- MCTopAddr
    HostMay = {"msc_reset", "picoboot_reset", "set_config", "lose_config"}
    MaxToken = 4
    MaxResets = 1
PROPERTIES
    AsyncSafety
    WriteAnswered
    LastBlockReboots
