CONSTANTS
    Users = {u1, u2}
    Buf = {f1, f2}
    Blocks = {k1, k2, k3}
    Vals = {0, 1}
    NoBlock = NoBlock
    None = None
    MAXPINS = 1
SPECIFICATION FairSpec
INVARIANTS
    CacheInv
PROPERTIES
    OneCopyStore WaitersWake
