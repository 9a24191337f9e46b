CONSTANTS
    p1 = p1
    p2 = p2
    a = a
    b = b
    Procs = {p1, p2}
    NINODES = 3
    NINODE = 3
    Names = {a, b}
    DotDot = DotDot
    Paths <- MCPaths
    Calls <- MCCalls
    None = None
SPECIFICATION Spec
INVARIANTS
    TableInv Kept NoBadPanic NoFreeInode
