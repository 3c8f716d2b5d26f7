CONSTANTS
    FrameMax = 5
    Pages = {0, 1, 2}
    Program = 0
    ProcessMax = 3
    SizeMax = 2
    NeededMax = 3
SPECIFICATION Spec
INVARIANTS TypeOK FrameOwnedOnce RefusedOnlyWhenFull OneRuns NeverHalts
PROPERTIES TurnComesNearer
CHECK_DEADLOCK FALSE
