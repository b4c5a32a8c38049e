\* One run of the loop, and transactions that expire after a block.
SPECIFICATION Spec
CONSTANTS
    Protocols = {aave, compound}
    NoProtocol = none
    MaxBlockOffset = 1
    MaxRows = 2
    MaxBlock = 3
    MaxRuns = 1
INVARIANTS
    PositionReached
CHECK_DEADLOCK FALSE
