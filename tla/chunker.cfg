SPECIFICATION Spec
CONSTANTS
    Bodies <- MCBodies
    Limits = {1, 2, 3, 16, 17, 18, 21}
    MaxLength = 6
    Period = 4
    LongLength = 45
INVARIANTS
    MessagesFit
    NothingLost
    WordsKept
    NoEmptyChunk
PROPERTY
    LoopShrinks
