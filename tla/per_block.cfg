\* The per-block loop, its relay, its history and one restart.
SPECIFICATION Spec
CONSTANTS
    Protocols = {aave, compound}
    NoProtocol = none
    MaxBlockOffset = 2
    MaxRows = 2
    MaxBlock = 3
    MaxRuns = 2
INVARIANTS
    TypeOK
    DecisionsChain
    SwitchesWereTaken
    InclusionsInTurn
PROPERTIES
    HistoryIsDurable
SYMMETRY AnyLabels
CHECK_DEADLOCK FALSE
