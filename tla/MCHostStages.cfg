SPECIFICATION HostSpec
CONSTANTS
    h1 = h1
    h2 = h2
    Commands <- MCCommands
    PipeSize = 2
    Sessions <- MCHosts
    RemoteCmds <- MCRemoteCmds
    MaxRuns = 2
    Nobody = nobody
    RuleHosts <- MCHosts
    Rules <- MCRules
    SwapRule = "r3"
    MaxRounds = 2
    DockerHosts <- MCHosts
    GraphOf <- MCGraphOf
    DefaultGraph = "/var/lib/docker"
    NoGraph = ""
    Placeholder = "$(GRAPH_PATH)"
    PlanHosts <- MCHosts
    Plans <- MCPlans
    NoHost = NoHost
INVARIANTS
    VerdictOnWholeOutput
    NoStaleOutput
    AloneJudgedRight
    RulesAddedOnce
    RulesComplete
    ConfIsOwnWithoutRaces
    PlaceholderStaysHome
    VerdictIsRight
PROPERTIES
    ExecReturns
CHECK_DEADLOCK FALSE
