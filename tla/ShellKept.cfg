CONSTANTS
    shell = shell
    s = s
    trojan = trojan
    none = none
    root = root
    bytes = bytes
    LastCluster = 5
    TableSize = 4
    Names <- MCNames
    NoName = none
    RootName = root
    Junk = bytes
    Prefix <- MCPrefixOfShell
    ShellName = shell
    Program = trojan
    Typed <- MCTyped
    Commands = {"cd", "mkdir", "ls", "rm", "cat", "mv"}
    Sought = {}
    Garbage = {0}
    PathMax = 4
SPECIFICATION Spec
INVARIANT ShellKept
