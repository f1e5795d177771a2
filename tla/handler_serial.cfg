CONSTANTS
    Absent = Absent
    None = None
    p1 = p1
    p2 = p2
    p3 = p3
    Messages = {a1, a2, t1, t2, x1}
    Audio = {a1, a2, x1}
    FromP2 = {}
    FromP3 = {x1}
    Phones = {p1, p2, p3}
    Allowlist = {p1}
    Sender <- MCSender
    Notes = {1, 2, 3, 4}
    RingSize = 2
    ContextTimeout = 1
    BlobTTL = 1
    MaxInFlight = 1
    MaxFaults = 1
    MaxTime = 2
SPECIFICATION Spec
INVARIANTS
    ReplayAbsorbed
    NoteAnsweredOnce
    DanglingOnlyByReplacement
    OrphanOnlyByTimeout
PROPERTIES
    NotesNotDropped
    RefinesConversation
SYMMETRY MCSymmetry
