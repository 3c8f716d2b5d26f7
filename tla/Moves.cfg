CONSTANTS
    shell = shell
    s = s
    trojan = trojan
    none = none
    root = root
    bytes = bytes
    LastCluster = 5
    TableSize = 4
    Names <- MCNames
    NoName = none
    RootName = root
    Junk = bytes
    Prefix <- MCPrefixOfProgram
    ShellName = shell
    Program = trojan
    Typed <- MCTyped
    Commands = {"cd", "mkdir", "rm", "cp", "mv"}
    Sought = {}
    Garbage = {2,3}
    PathMax = 3
SPECIFICATION Spec
INVARIANT SlotsInv
PROPERTIES StandingKept CommandsKeepFull
