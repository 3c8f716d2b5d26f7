CONSTANTS
    FrameMax = 5
    Pages = {0, 1, 2}
    Program = 0
    ProcessMax = 3
    SizeMax = 2
    NeededMax = 3
SPECIFICATION Spec
PROPERTY FreesFrame
CHECK_DEADLOCK FALSE
