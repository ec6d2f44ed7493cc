\* Marking settings, and messages that only rspamd finds to be spam.
CONSTANTS
    t1 = t1
    t2 = t2
    t3 = t3
    Inputs = {"default", "new"}
    Default = "default"
    Unset = "none"
    Encrypted = {"key"}
    Placements = {"header", "footer", "bogus"}
    Retentions = {0, 5}
    MarkingForms <- MCMarkingForms
    DefaultDays = 2
    DefaultHold = 1
    MaxRetention = 2
    Visits <- MCVisits
    MaxSaves <- MCMaxSaves
    Traces = {t1, t2, t3}
    CacheMax = 2
    Limits = {1, 2}
    Horizon = 1
    Inbound <- MCInbound
    Categories <- MCCategories
    Rules <- MCRules
    NoTag = NoTag
    Fold <- MCFold
SYMMETRY MCSymmetry
SPECIFICATION Spec
CHECK_DEADLOCK FALSE
INVARIANTS
    BannerNamesThreat
