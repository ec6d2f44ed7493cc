\* Two messages, three attempts, one thread for the re-injections; two analyses
\* of two rounds, every tool that writes.
CONSTANTS
    m1 = m1
    m2 = m2
    r1 = r1
    r2 = r2
    Mail = {m1, m2}
    Rcpts <- MCRcpts
    MaxAttempts <- MCAttempts
    Sessions = 2
    Workers = 1
    a1 = a1
    a2 = a2
    i1 = i1
    i2 = i2
    host = host
    NoIp = NoIp
    NoGroup = NoGroup
    Analyses = {a1, a2}
    Ips = {i1, i2}
    Hosts = {host}
    Shared = {i1}
    Client <- MCClient
    Resolves <- MCResolves
    Prefixes = {24, 32}
    Network <- MCNetwork
    Configs <- MCConfigs
    Answers <- MCAnswers
    MaxRounds = 2
SPECIFICATION MailSpec
CHECK_DEADLOCK FALSE
INVARIANTS
    TypeOK
    DeferredHadNoEffect
    OnlyDecidedMailIsReinjected
    AnalysisTypeOK
    ExecutedStaysInForce
    BlocksJustified
PROPERTIES
    NeverLost
    EveryMailSettles
    EveryAnalysisEnds
