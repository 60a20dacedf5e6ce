CONSTANTS
    Revisions <- MCCurrent
    Snapshots <- MCDiamondSnapshots
    RuleLists <- MCDiamondRuleLists
    Prefs <- MCPrefs
    SelfHosts <- MCSelfHosts
    EnvUUID <- MCEnvUUID
    DefCertChoices <- MCDefCertChoices
    AltCertChoices <- MCAltCertChoices
SPECIFICATION Spec
INVARIANTS
    EndpointIPsUnique
CHECK_DEADLOCK FALSE
