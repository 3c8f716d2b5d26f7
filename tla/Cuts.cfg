CONSTANTS
    FatSize = 6
    TableSize = 4
    MaxCount = 3
    ShellLen = 2
    shell = shell
    s = s
    none = none
    root = root
    text = text
    other = other
    Text <- MCOneText
    Names <- MCNames
    NoName = none
    RootName = root
    ShellName = shell
    Prefix <- MCPrefix
    LoosePrefix <- MCPrefix
    Overfull = FALSE
    PowerCuts = TRUE
SPECIFICATION LiveSpec
INVARIANTS TypeOK NoDangling NoCrossLink ReservedKept ParentMatches EntriesInDirs Inductive TreeInv
           RoomInv
PROPERTIES OthersUntouched ImplementsTree CallsReturn
