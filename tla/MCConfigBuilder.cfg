CONSTANTS
    Revisions <- MCRevisions
    Snapshots <- MCSnapshots
    RuleLists <- MCRuleLists
    Prefs <- MCPrefs
    SelfHosts <- MCSelfHosts
    EnvUUID <- MCEnvUUID
    DefCertChoices <- MCDefCertChoices
    AltCertChoices <- MCAltCertChoices
SPECIFICATION Spec
INVARIANTS
    TypeOK
    EndpointIndexConsistent
    MergedRulesCovered
    BackendsPerIdentity
    FirstPlacedProtocolWins
PROPERTIES
    MergeKeepsBackend
CHECK_DEADLOCK FALSE
