CONSTANTS
    shell = shell
    s = s
    trojan = trojan
    none = none
    root = root
    bytes = bytes
    LastCluster = 6
    TableSize = 5
    Names <- MCNames
    NoName = none
    RootName = root
    Junk = bytes
    Prefix <- MCPrefixOfProgram
    ShellName = shell
    Program = trojan
    Typed <- MCTyped
    Commands = {"cd", "mkdir", "ls", "rm", "cat"}
    Sought <- MCSought
    Garbage = {0}
    PathMax = 4
SPECIFICATION LiveSpec
INVARIANTS TypeOK PathLeadsBack FindFindsAll FileIsThere VolumeInv
PROPERTIES  StandingKept FullFoldersKept
CHECK_DEADLOCK FALSE
