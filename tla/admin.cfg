\* Two saves of a page; three messages on two days, two of them in memory.  Two
\* users, two browsers, two passkeys, a setup token that may be preset or not,
\* and invites.
CONSTANTS
    t1 = t1
    t2 = t2
    t3 = t3
    Inputs = {"default", "new"}
    Default = "default"
    Unset = "none"
    Encrypted = {"key"}
    Placements = {"header", "footer", "bogus"}
    Retentions = {0, 5}
    MarkingForms <- MCMarkingForms
    DefaultDays = 2
    DefaultHold = 1
    MaxRetention = 2
    Visits <- MCVisits
    MaxSaves <- MCMaxSaves
    Traces = {t1, t2, t3}
    CacheMax = 2
    Limits = {1, 2}
    Horizon = 1
    Inbound <- MCInbound
    Categories <- MCCategories
    Rules <- MCRules
    NoTag = NoTag
    Fold <- MCFold
    n1 = n1
    n2 = n2
    b1 = b1
    b2 = b2
    k1 = k1
    k2 = k2
    preset = preset
    w1 = w1
    w2 = w2
    Names = {n1, n2}
    Keys = {k1, k2}
    Browsers = {b1, b2}
    Tokens = {preset, w1, w2}
    NoName = NoName
    NoToken = NoToken
    Presets = {preset, NoToken}
    TokenTTL = 1
    LastTick = 1
SYMMETRY AdminSymmetry
SPECIFICATION AdminSpec
CONSTRAINT ArriveInOrder
CHECK_DEADLOCK FALSE
INVARIANTS
    TypeOK
    AuditReplays
    CacheMissesNothing
    TraceKeepsRaw
    HeadersHonoured
    EnrollmentTypeOK
    TokenEnrollsOnce
    ChallengeBinds
PROPERTIES
    AdminRemains
    OnlyDoubledLost
