\* Whitelisted domains in a MAIL FROM, and what rspamd confirms.
CONSTANTS
    m1 = m1
    m2 = m2
    t1 = t1
    d1 = d1
    d2 = d2
    rcpt = rcpt
    NoDomain = NoDomain
    Mail = {m2}
    Tests = {}
    Slots = 1
    Addresses = {rcpt}
    Domains = {d1, d2}
    Envelope <- MCEnvelope
    Header <- MCHeader
    Rcpts <- MCRcpts
    Configs <- WideConfigs
    Edits = {}
    Replies <- AllReplies
    Opinions <- AllOpinions
SPECIFICATION Spec
CHECK_DEADLOCK FALSE
INVARIANTS
    ForgedSenderNotExempt
