CONSTANTS
    NPROC = 3
    CPUs = {c1}
    None = None
SPECIFICATION FairSpec
PROPERTY ZombiesReaped
