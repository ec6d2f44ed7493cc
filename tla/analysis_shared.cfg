\* A shared provider as the neighbour of a client, or with a look-up that failed.
CONSTANTS
    a1 = a1
    a2 = a2
    i1 = i1
    i2 = i2
    host = host
    NoIp = NoIp
    NoGroup = NoGroup
    Analyses = {a1, a2}
    Ips = {i1, i2}
    Hosts = {host}
    Shared = {i1}
    Client <- MCClient
    Resolves <- MCResolves
    Prefixes = {24, 32}
    Network <- MCNetwork
    Configs <- MCConfigs
    Answers <- MCAnswers
    MaxRounds = 2
SPECIFICATION AnalysisSpec
CHECK_DEADLOCK FALSE
INVARIANTS
    SharedProvidersNeverBlocked
