SPECIFICATION Spec
CONSTANTS
    Qso = {q1, q2}
    Dest = {lotw}
    BatchDest = {lotw}
    Cred = {k1, k2}
    NoCred = NoCred
    Slot = {s1, s2}
    MaxAttempts = 2
    DrainBatch = 2
    BufferDelay = 0
    Lease = 2
    DrainInterval = 1
    UploadTimeout = 1
    BackoffBase = 1
    BackoffCap = 1
    ParkDelay = 1
    Cooldown = 1
    Overdue = 0
    MaxFaults = 2
SYMMETRY Symmetry
CONSTRAINT OneContactOrSimple
INVARIANTS NoDoubleSend NothingLost NoResendAfterAck SentIsConfirmed
PROPERTY Delivers
