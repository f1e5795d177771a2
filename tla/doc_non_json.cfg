CONSTANTS
    None = None
    Sorry = Sorry
    MaxChunks = 2
    MaxRetries = 2
SPECIFICATION Spec
INVARIANT NonJsonIsRetried
