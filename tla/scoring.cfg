SPECIFICATION ScoringSpec
CONSTANTS
    Call = {a, b}
    Band = {lo, hi}
    Exch = {x}
    NoExch = NoExch
    Contest = {s1, s2}
    NoContest = NoContest
    Scope = {"call", "call+band", "call+band+session"}
    Prefix <- OnePrefix
    Tier <- Tiers
    Station = {1, 2}
    Weight <- Weights
    DupeWindow = 1
    ImportFiles <- Files
    Chunk = 1
    PaperTime = {0}
    MaxRows = 3
    MaxEvents = 4
    A = A
    B = B
    GA = GA
    DX = DX
    Worked = {w4gns}
    PartyBand = {b20, b40}
    County = {A, B}
    State = TN
    Outside = {GA, DX}
    Line <- Lines
    BonusCall = w4gns
    Rules <- PartyRules
    MaxContacts = 2
SYMMETRY ScoringSymmetry
CHECK_DEADLOCK FALSE
INVARIANTS IndexCredits ImportedOnce
PROPERTIES FlagComesTrue FlagsAgree
