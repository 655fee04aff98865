SPECIFICATION Spec
CONSTANTS
    c1 = c1
    c2 = c2
    k1 = k1
    k2 = k2
    m1 = m1
    m2 = m2
    w1 = w1
    w2 = w2
    Qso = {q1}
    NoQso = NoQso
    Conf = {c1, c2}
    Key = {k1, k2}
    Mode = {m1, m2}
    Time = {0, 2}
    OwnCall = {w1, w2}
    Rec <- TwoCalls
    MatchWindow = 2
    MaxClock = 2
INVARIANT NothingBehindBookmark
