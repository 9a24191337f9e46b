CONSTANTS
    NPROC = 2
    NPAGES = 19
    FANOUT = 3
    PGSIZE = 2
    UMOD = 128
    MAXSZ = 3
    None = None
    Programs <- MCPrograms
    SbrkArgs <- MCSbrkArgs
    CopyArgs <- MCCopyArgs
SPECIFICATION Spec
INVARIANTS
    PagesOwnedOnce SizeMapped NoPanic
PROPERTIES
    PrivateMemory
VIEW View
