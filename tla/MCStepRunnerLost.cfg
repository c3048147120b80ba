CONSTANTS
    h1 = h1
    h2 = h2
    Hosts <- MCHosts
    HostsOf <- MCHostsOf
    Plans <- MCNodesJoin
    MaxStages <- MCMaxStages
    NoConn = NoConn
SPECIFICATION Spec
SYMMETRY Symmetry
INVARIANTS
    SucceededNodesAreSaved
CHECK_DEADLOCK FALSE
