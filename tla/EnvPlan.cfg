SPECIFICATION Spec
CONSTANTS
    Procs = {p1, p2}
    Levels = 2
    MaxEdits = 1
    NoPolicy = NoPolicy
    Unlocked = Unlocked
    NoFile = NoFile
    Broken = Broken
    Files <- MCFiles
    Forbidden <- MCForbidden
    Project <- MCProject
    Prefs <- MCPrefs
    Policies <- MCPolicies
    Overrides <- MCOverrides
    Findings <- MCFindings
    Links <- MCLinks
SYMMETRY Symmetry
INVARIANTS OnlyApprovedRuns PolicyHasLastWord EntrypointHonoured
    SameKeySamePlan StepsInBrickOrder
CHECK_DEADLOCK FALSE
