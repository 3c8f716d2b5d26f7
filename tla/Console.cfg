CONSTANTS
    a = a
    b = b
    sp = sp
    digit = digit
    nul = nul
    newline = newline
    backspace = backspace
    tab = tab
    nokey = nokey
    other = other
    Letters <- OneLetter
    Space = sp
    Nul = nul
    Newline = newline
    Backspace = backspace
    Tab = tab
    NoKey = nokey
    OtherKey = other
    Digit = digit
    BufferSize = 6
    UserSize = 9
    Stack <- OneLetter
    Columns = 5
    Rows = 2
    ClockWidth = 2
    WordsMax = 2
    WordMax = 4
    NameMax = 3
SPECIFICATION LiveSpec
INVARIANTS TypeOK EchoIsBuffer NameIsWord WordsInv
PROPERTIES IsTerminal EnterReturns
CHECK_DEADLOCK FALSE
