CONSTANTS
    r1 = r1
    r2 = r2
    r3 = r3
    Requests <- MCRequests2
    IDs <- MCIDs2
    Steps <- MCSteps
    RemoveSteps <- MCOneStep
    InitSteps <- MCInitSteps
    QueryIDs <- MCQueryIDsAll
    States <- MCStates
    Running = "running"
    MaxUpdates = 1
    MaxBoots = 2
    Nobody = Nobody
    NoFile = NoFile
SPECIFICATION FairSpec
INVARIANTS
    FilesNeverStale
PROPERTIES
    ImplementsTaskStore
    RequestsAnswered
