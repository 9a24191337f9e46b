CONSTANTS
    Procs = {p1, p2}
    Inodes = {i1, i2}
    NFILE = 3
    NOFILE = 2
    NBLOCKS = 8
    BPB = 4
    BSIZE = 2
    NDIRECT = 1
    NINDIRECT = 2
    MAXOPBLOCKS = 6
    Lengths = {3, 5}
    Modes = {"WRONLY"}
    MAXCALLS = 4
    None = None
SPECIFICATION Spec
INVARIANTS
    AllocInv TxnFits DescRefs
PROPERTIES
    IsFileStore
SYMMETRY Symmetry
