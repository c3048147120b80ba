CONSTANTS
    h1 = h1
    h2 = h2
    Hosts <- MCHosts
    HostsOf <- MCHostsOf
    Plans <- MCPlans
    MaxStages <- MCMaxStages
    NoConn = NoConn
SPECIFICATION FairSpec
INVARIANTS
    TypeOK
    StagesDoNotOverlap
    ErrorsHaveACause
    ReportedErrorStays
    CleanRunCompletes
    SerialFailureStops
PROPERTIES
    StepReturns
CHECK_DEADLOCK FALSE
