CONSTANTS
    NPROC = 3
    CPUs = {c1, c2}
    None = None
SPECIFICATION Spec
SYMMETRY Symmetry
INVARIANTS
    ProcInv StackSafe Family
