CONSTANTS
    Procs = {p1, p2, p3}
    NUM = 8
    RING = 2
    UMOD = 4
    Intr = Intr
    None = None
SPECIFICATION Spec
SYMMETRY Symmetry
INVARIANTS
    DriverInv Transferred DescWakeup CompletionSignalled
