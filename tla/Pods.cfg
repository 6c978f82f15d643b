SPECIFICATION FairSpec
CONSTANTS
    Label = {workerLabel}
    Protected = Protected
    AName = {fast, slow}
    None = None
    GroupName = {groupIO}
    NodeKey = {zone}
    PodLabel = {jobLabel}
    PodProtected = PodProtected
    Namespace = {default, other}
    RuleName = {rule1, rule2}
    groupIO = groupIO
    zone = zone
    fast = fast
    slow = slow
    default = default
    other = other
    jobLabel = jobLabel
    rule1 = rule1
    rule2 = rule2
    Replica = {r1}
    Pod = {p1}
    PodObjects <- AdmissionPods
    Commands <- AdmissionCommands
    GroupCommands <- AdmissionGroups
    MaxEdits = 3
    MaxFaults = 1
INVARIANTS TypeOK StandingRulesApply NamespacedRulesWin MembersAccept
PROPERTIES EventuallyCreated
CHECK_DEADLOCK FALSE
