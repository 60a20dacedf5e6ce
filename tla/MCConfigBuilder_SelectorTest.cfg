CONSTANTS
    Revisions <- MCCurrent
    Snapshots <- MCSnapshots
    RuleLists <- MCSelectorTestRuleLists
    Prefs <- MCPrefs
    SelfHosts <- MCSelfHosts
    EnvUUID <- MCEnvUUID
    DefCertChoices <- MCDefCertChoices
    AltCertChoices <- MCAltCertChoices
SPECIFICATION Spec
INVARIANTS
    BackendPerService
CHECK_DEADLOCK FALSE
