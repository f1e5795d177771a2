SPECIFICATION FairSpec
CONSTANTS
    Calls = {c1, c2}
    Probes = {p1}
    Paths <- MCPaths
INVARIANTS
    TypeOK
    NoUseAfterClose
    StopsClosed
    AnswerMatchesHandling
    GenuineVerdict
    OutagesReported
    NoProcessLeft
PROPERTY
    ShutdownEnds
