CONSTANTS
    Revisions <- MCCurrent
    Snapshots <- MCCycleSnapshots
    RuleLists <- MCCycleRuleLists
    Prefs <- MCPrefs
    SelfHosts <- MCSelfHosts
    EnvUUID <- MCEnvUUID
    DefCertChoices <- MCDefCertChoices
    AltCertChoices <- MCAltCertChoices
SPECIFICATION Spec
INVARIANTS
    NoStackOverflow
CHECK_DEADLOCK FALSE
