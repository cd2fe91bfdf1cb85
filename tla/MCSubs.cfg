CONSTANTS
    c1 = c1
    c2 = c2
    Clients <- MCClients
    Groups <- MCGroups
    Filters <- MCFilters
    Topics <- MCTopics
    Sources <- MCSources
    Opts <- MCOpts
    PubQos <- MCPubQos
    DollarLevels <- MCDollarLevels
    Broker = Broker
    NoSource = NoSource
    NoGroup = NoGroup
    NoLeaf = NoLeaf
    Null = Null
    NoPub = NoPub
    NoUnsub = NoUnsub
    NoSub = NoSub
    Protocols <- MCProtocols
    UpgradeOutgoingQos = FALSE
    AllocFail = FALSE
    AnnounceFail = FALSE
    SendErrors = FALSE

SPECIFICATION Spec
VIEW EngineView
SYMMETRY ClientSymmetry

INVARIANTS
    TypeOK
    IndexConsistent
    TrieCanonical
    CountersMatch
    RetainedCountCurrent

PROPERTIES
    PublishMatchesFilters
    NoSubscribersSound
