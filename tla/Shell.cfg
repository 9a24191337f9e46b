CONSTANTS
    Words = {"a", "cd"}
    MAXARGS = 3
    None = None
    NPROC = 6
    NOFILE = 6
    MAXTYPED = 5
    MAXRUN = 3
    Scripts <- MCScripts
    BusyLine <- MCBusyLine
SPECIFICATION FairSpec
INVARIANTS
    ParserIsGrammar Wired InOrder
PROPERTY PromptReturns
