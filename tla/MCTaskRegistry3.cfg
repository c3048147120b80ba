CONSTANTS
    r1 = r1
    r2 = r2
    r3 = r3
    Requests <- MCRequests3
    IDs <- MCIDs3
    Steps <- MCOneStep
    RemoveSteps <- MCOneStep
    InitSteps <- MCOneStep
    QueryIDs <- MCQueryIDs
    States <- MCOneState
    Running = "running"
    MaxUpdates = 1
    MaxBoots = 1
    Nobody = Nobody
    NoFile = NoFile
SPECIFICATION Spec
SYMMETRY Symmetry3
INVARIANTS
    TypeOK
    TicketsUnique
    OutputUnmixed
    MappedStepHasContext
    AnsweredTaskIsKnown
