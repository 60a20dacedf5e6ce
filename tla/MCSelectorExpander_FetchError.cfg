CONSTANTS
    Revisions = {"earlier"}
    RuleLists <- MCRuleLists
    Local <- MCLocal
    EnvServices <- MCEnvServices
    SelfRegion <- MCSelfRegion
SPECIFICATION Spec
INVARIANTS
    EveryMatchExpanded
CHECK_DEADLOCK FALSE
