\* A user removes a passkey that is listed twice.
CONSTANTS
    n1 = n1
    n2 = n2
    b1 = b1
    b2 = b2
    k1 = k1
    k2 = k2
    preset = preset
    w1 = w1
    w2 = w2
    Names = {n1, n2}
    Keys = {k1, k2}
    Browsers = {b1, b2}
    Tokens = {preset, w1, w2}
    NoName = NoName
    NoToken = NoToken
    Presets = {preset, NoToken}
    TokenTTL = 1
    LastTick = 1
SYMMETRY MCAccounts
SPECIFICATION EnrollmentSpec
CHECK_DEADLOCK FALSE
PROPERTIES
    PasskeyKept
