SPECIFICATION LiveSpec
CONSTANTS
    Qso = {q1, q2}
    Dest = {qrz}
    BatchDest = {}
    Cred = {k1}
    NoCred = NoCred
    Slot = {s1}
    MaxAttempts = 2
    DrainBatch = 1
    BufferDelay = 0
    Lease = 2
    DrainInterval = 2
    UploadTimeout = 1
    BackoffBase = 1
    BackoffCap = 1
    ParkDelay = 1
    Cooldown = 0
    Overdue = 2
    MaxFaults = 0
PROPERTIES RowsResolve FailedRowsRetried
