CONSTANTS
    Revisions <- MCCurrent
    Snapshots <- MCSnapshots
    RuleLists <- MCRuleLists
    Prefs <- MCPrefs
    SelfHosts <- MCSelfHosts
    EnvUUID <- MCEnvUUID
    DefCertChoices <- MCDefCertChoices
    AltCertChoices <- MCAltCertChoices
SPECIFICATION Spec
INVARIANTS
    DrainingWeightKept
CHECK_DEADLOCK FALSE
