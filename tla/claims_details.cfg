SPECIFICATION Spec
CONSTANTS
    Call = {w, k}
    NoCall = NoCall
    Id = {1}
    QRZSlot = {q1, q2}
    POTASlot = {p1}
    MapSlot = {}
    NoSlot = NoSlot
    Account = {a1}
    NoAccount = NoAccount
    MaxSerial = 0
    MaxDay = 1
    Undated = {}
PROPERTY NoCarryOver
CHECK_DEADLOCK FALSE
