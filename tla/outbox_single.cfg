SPECIFICATION Spec
CONSTANTS
    Qso = {q1, q2}
    Dest = {qrz}
    BatchDest = {}
    Cred = {k1, k2}
    NoCred = NoCred
    Slot = {s1, s2}
    MaxAttempts = 2
    DrainBatch = 1
    BufferDelay = 1
    Lease = 2
    DrainInterval = 1
    UploadTimeout = 1
    BackoffBase = 1
    BackoffCap = 1
    ParkDelay = 2
    Cooldown = 0
    Overdue = 1
    MaxFaults = 1
SYMMETRY Symmetry
INVARIANTS NoOrphanRow ExhaustedIsVisible BoundAccount EditWindow
PROPERTY RebindOnlyByRetry
