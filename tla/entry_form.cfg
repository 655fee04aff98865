SPECIFICATION SixSpec
CONSTANTS
    Call = {c}
    NoCall = NoCall
    Id = {1, 2}
    QRZSlot = {}
    POTASlot = {}
    MapSlot = {}
    NoSlot = NoSlot
    Account = {}
    NoAccount = NoAccount
    MaxSerial = 2
    MaxDay = 2
    Undated = {u}
    LookupCall = {w, k}
    LookupQRZ = {q1, q2}
    LookupPOTA = {p1}
    LookupMap = {m1}
    LookupAccount = {a1}
SYMMETRY LookupSymmetry
INVARIANTS SerialAhead SelectionSurvives EditCopyFresh SessionKeyCurrent
PROPERTIES SelectionRestored LateAnswerMatches
CHECK_DEADLOCK FALSE
