SPECIFICATION RecentSpec
CONSTANTS
    Heard = {k1}
    Nobody = Nobody
    Recent = 2
    MaxLogged = 1
PROPERTY OtherKeyCancels
CHECK_DEADLOCK FALSE
