CONSTANTS
    Absent = Absent
    None = None
    p1 = p1
    p2 = p2
    p3 = p3
    Messages = {a1, t1, a2, b1, x1}
    Audio = {a1, a2, b1, x1}
    FromP2 = {b1}
    FromP3 = {x1}
    Phones = {p1, p2, p3}
    Allowlist = {p1, p2}
    Sender <- MCSender
    Notes = {1, 2, 3}
    RingSize = 1
    ContextTimeout = 1
    BlobTTL = 2
    MaxInFlight = 2
    MaxFaults = 1
    MaxTime = 0
SPECIFICATION Spec
INVARIANTS
    TypeOK
    RowCoherent
    RingSound
    NoteProvenance
    DeletedOnlyByReader
SYMMETRY MCSymmetry
