CONSTANTS
    Absent = Absent
    None = None
    p1 = p1
    p2 = p2
    p3 = p3
    Messages = {a1, t1, a2, b1}
    Audio = {a1, a2, b1}
    FromP2 = {b1}
    FromP3 = {}
    Phones = {p1, p2, p3}
    Allowlist = {p1, p2}
    Sender <- MCSender
    Notes = {1, 2, 3}
    RingSize = 2
    ContextTimeout = 1
    BlobTTL = 2
    MaxInFlight = 2
    MaxFaults = 0
    MaxTime = 0
SPECIFICATION Spec
INVARIANT ReplayAbsorbed
