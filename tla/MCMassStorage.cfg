SPECIFICATION MscSpec
CHECK_DEADLOCK FALSE
CONSTANTS
    Address <- MCAddress
    NoRequest = NoRequest
    Command <- MCCommand
    MaxCommands = 2
INVARIANTS
    MscTypeOK
    AddressAgreed
    PhasesAgree
    StatusIsTrue
    SenseTellsFailure
    CompletionEndsOwnSector
PROPERTIES
    CommandAnswered
