CONSTANTS
    j1 = j1
    j2 = j2
    j3 = j3
    h1 = h1
    h2 = h2
    m1 = m1
    m2 = m2
    m3 = m3
    m4 = m4
    m5 = m5
    m6 = m6
    Jobs <- MCJobs3
    Hosts <- MCHosts2
    Steps <- MCSteps
    Requests <- MCRequests2
    Refs <- MCRefs
    Overlap = FALSE
    MaxPuts = 1
    NoState = NoState
    Nobody = Nobody
SPECIFICATION Spec
SYMMETRY Symmetry3
INVARIANTS
    TypeOK
    CleaningKeepsOtherSteps
    StartsFromCleanTable
    UpdatesReachOwnStep
    LastStateIsShown
    MapsWrittenAlone
PROPERTIES
    ImplementsNodeStore
