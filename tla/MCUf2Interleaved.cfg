SPECIFICATION MCSafety
CHECK_DEADLOCK FALSE
CONSTANTS
    Page <- MCPage
    Sector <- MCSector
    sectorOf <- MCSectorOf
    Data <- MCData
    TasksOf <- MCBothTasksOf
    NoTask = NoTask
    Block <- FlashImage
    PagesPerSector = 2
    MaxValidBlocks <- MCMaxValidBlocks
    SramBase <- MCSramBase
    TopAddr <- MCTopAddr
    HostMay = {}
    MaxToken = 3
    MaxResets = 0
PROPERTIES
    LaterBlocksCheckSource
