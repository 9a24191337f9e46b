CONSTANTS
    p1 = p1
    p2 = p2
    a = a
    b = b
    Procs = {p1}
    NINODES = 3
    NINODE = 3
    Names = {a, b}
    DotDot = DotDot
    Paths <- UpPaths
    Calls <- UpCalls
    None = None
SPECIFICATION Spec
INVARIANT NoFreeInode
