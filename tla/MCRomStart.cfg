SPECIFICATION StartSpec
CHECK_DEADLOCK FALSE
CONSTANTS
    Images <- TestImages
    FifoDepth = 2
    MaxCalls = 2
    MaxResets = 1
    Contents = {{}, {3}}
    Masks = {0, 1}
    MaxAttempts = 4
    MaxBoots = 1
    Words <- TestWords
    Messages <- TestMessages
    Texts <- TestTexts
    PlaceHolder = "version"
    Serial = "serial"
    MaxMatch = 4
    Window = 3
INVARIANTS
    StartInv
    ProgramHasFunctions
    UsbHasDisk
PROPERTIES
    LaunchEnds
    EntryAsAsked
    BootEnds
