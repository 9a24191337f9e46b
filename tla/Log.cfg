CONSTANTS
    Procs = {p1, p2}
    InitProc = p1
    Blocks = {b1, b2}
    Vals = {0, 1}
    Absent = Absent
    NoBlock = NoBlock
    MAXOPBLOCKS = 2
    OPBLOCKS = 1
    LOGSIZE = 4
    NLog = 5
SPECIFICATION FairSpec
INVARIANTS
    LogInv DurableWhenIdle NoPanic
PROPERTIES
    CrashAtomic SleepersWake
