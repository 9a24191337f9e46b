CONSTANTS
    Readers = {r1}
    Writers = {w1, w2}
    Vals = {0, 1}
    PIPESIZE = 2
    UMOD = 4
    MAXN = 2
    None = None
SPECIFICATION FairSpec
INVARIANTS
    PipeInv WakeupLostOnlyByKill
PROPERTIES
    IsChannel HangupDelivered
