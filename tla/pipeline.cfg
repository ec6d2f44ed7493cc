\* One message under every combination of settings and an admin who may switch
\* to the strictest; and two messages and a reusable test submission that share
\* one analysis slot, while connections break and the container restarts.
CONSTANTS
    m1 = m1
    m2 = m2
    t1 = t1
    d1 = d1
    d2 = d2
    rcpt = rcpt
    NoDomain = NoDomain
    Mail = {m1, m2}
    Tests = {t1}
    Slots = 1
    Addresses = {rcpt}
    Domains = {d1, d2}
    Envelope <- MCEnvelope
    Header <- MCHeader
    Rcpts <- MCRcpts
    Configs <- EitherConfigs
    Edits <- StrictConfigs
    Replies <- AllReplies
    Opinions <- AllOpinions
SPECIFICATION FairSpec
CHECK_DEADLOCK FALSE
CONSTRAINT
    Scope
INVARIANTS
    TypeOK
    UnavailableControlObeyed
    AllDownObeyed
    UninspectedNeverLost
    HeldIsAccountedFor
    ExemptionNeedsEvidence
    BypassNeutral
    FailuresAreTagged
    SlotsConserved
    QueueIsExact
PROPERTIES
    EveryMailAnswered
    KeepsPromise
