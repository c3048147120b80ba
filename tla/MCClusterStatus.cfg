CONSTANTS
    m1 = m1
    n1 = n1
    n2 = n2
    j1 = j1
    j2 = j2
    Masters <- MCMasters
    Nodes <- MCNodes
    Jobs <- MCJobs
    Kinds <- MCKinds
    AppSets <- MCAppSets
    MaxJobs = 3
    MaxOverlap = 2
    MaxCrashes = 1
    NoMap = NoMap
    NoFile = NoFile
    Torn = Torn
    NoApp = NoApp
SPECIFICATION K8sSpec
SYMMETRY Symmetry
INVARIANTS
    K8sTypeOK
    DurableWhenQuiet
    LoginsKnown
    EntryInstalledOnce
    AppsFindMaster
    OthersAreInstalled
CHECK_DEADLOCK FALSE
