CONSTANTS
    p1 = p1
    p2 = p2
    Procs = {p1, p2}
    Plain = "a"
    Newline = "nl"
    Eof = "eof"
    Backspace = "bs"
    KillLine = "kill"
    INPUT_BUF = 2
    UART_TX_BUF_SIZE = 1
    UMOD = 4
    TICKMOD = 4
    MAXELAPSED = 7
    ReadLens = {2}
    SleepArgs <- MCSleepArgs
    Loads <- MCLoads
    None = None
SPECIFICATION FairSpec
INVARIANTS
    ConsoleInv
PROPERTIES
    IsLineInput SleepExact WritersGetOn
