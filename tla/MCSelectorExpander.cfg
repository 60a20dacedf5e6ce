CONSTANTS
    Revisions = {"current", "earlier"}
    RuleLists <- MCRuleLists
    Local <- MCLocal
    EnvServices <- MCEnvServices
    SelfRegion <- MCSelfRegion
SPECIFICATION Spec
INVARIANTS
    TypeOK
    ExpansionKeepsFrontendFields
    CurrentExpandsEveryMatch
CHECK_DEADLOCK FALSE
