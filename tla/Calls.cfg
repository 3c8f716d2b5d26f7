CONSTANTS
    FatSize = 7
    TableSize = 4
    MaxCount = 3
    ShellLen = 2
    shell = shell
    s = s
    none = none
    root = root
    text = text
    other = other
    Text <- MCTexts
    Names <- MCNames
    NoName = none
    RootName = root
    ShellName = shell
    Prefix <- MCPrefix
    LoosePrefix <- MCPrefix
    Overfull = FALSE
    PowerCuts = FALSE
SPECIFICATION Spec
INVARIANTS CacheCoherent ContentsKept NoLeak TablesWritten
PROPERTIES RoomForFile
