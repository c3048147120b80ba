CONSTANTS
    h1 = h1
    h2 = h2
    PlanHosts <- MCHosts
    Plans <- MCPlans
    NoHost = NoHost
SPECIFICATION PlanSpec
INVARIANTS
    HAComplaintsAccepted
CHECK_DEADLOCK FALSE
