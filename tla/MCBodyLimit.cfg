SPECIFICATION Spec
CONSTANTS
    Limit = 2
    ChunkSizes <- MCChunkSizes
    MaxMessages = 4
INVARIANTS
    AppSeesStream
    LimitEnforced
\* a refused or dropped request is over
CHECK_DEADLOCK FALSE
