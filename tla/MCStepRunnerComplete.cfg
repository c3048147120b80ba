CONSTANTS
    h1 = h1
    h2 = h2
    Hosts <- MCHosts
    HostsOf <- MCHostsOf
    Plans <- MCInstallRPMS
    MaxStages <- MCMaxStages
    NoConn = NoConn
SPECIFICATION Spec
SYMMETRY Symmetry
INVARIANTS
    CompleteMeansNoFailure
CHECK_DEADLOCK FALSE
