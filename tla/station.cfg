SPECIFICATION Spec
CONSTANTS
    Link = {l1, l2, l3}
    NoLink = NoLink
    Callsign = {c1, c2}
    Blank = Blank
    MaxMeddling = 3
    Station = {s1, s2}
    Band = {b20, b40}
    Window = 2
    Listed = 3
    Visible = 2
    MaxTime = 4
    Addr = {r1, r2}
    NoAddr = NoAddr
    Poll = {p1, p2}
    Timer = {t1, t2}
    Heard = {k1, k2}
    Nobody = Nobody
    Recent = 2
    MaxLogged = 3
    Instance = {i1, i2}
    Job = {j1, j2}
    Contest = {x}
    Name = {1, 2}
    MaxVersion = 1
    Keep = 2
    MaxBackups = 3
    MaxCommits = 2
INVARIANTS OneFeed ListInForce OneChain PairsAgree ExitBackupComplete
PROPERTIES FeedRecovers DeletesNamed ExportsStay
CHECK_DEADLOCK FALSE
