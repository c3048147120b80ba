CONSTANTS
    j1 = j1
    j2 = j2
    j3 = j3
    h1 = h1
    h2 = h2
    m1 = m1
    m2 = m2
    m3 = m3
    m4 = m4
    m5 = m5
    m6 = m6
    Jobs <- MCJobs3
    Hosts <- MCHosts1
    Steps <- MCSteps
    Requests <- MCRequests1
    Refs <- MCRefs
    Overlap = TRUE
    MaxPuts = 1
    NoState = NoState
    Nobody = Nobody
SPECIFICATION Spec
INVARIANTS
    CleaningKeepsOtherSteps
