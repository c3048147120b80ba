---------------------------- MODULE MCHostStages ----------------------------
(***************************************************************************)
(* Five things that happen in a stage, each by itself: a command run       *)
(* through two pipes, commands whose output all sessions direct into one   *)
(* file, the rules for sysctl, the docker options, and the check of a plan *)
(* (of which one is fixed while another part is looked at).                *)
(***************************************************************************)
EXTENDS ExecPipe, SshOutput, SysctlRules, DockerApply, MCPlanCheck

VARIABLE which  \* the one that is looked at

hostVars == <<execVars, sshVars, ruleVars, dockerVars, planVars, which>>

AnyPlan == CHOOSE p \in MCPlans : TRUE

HostInit ==
    /\ which \in {"exec", "ssh", "rules", "docker", "plan"}
    /\ ExecInit /\ SshInit /\ RulesInit /\ DockerInit /\ PlanInit
    /\ which # "plan" => plan = AnyPlan

HostNext ==
    /\ UNCHANGED which
    /\ \/ which = "exec" /\ ExecNext /\ UNCHANGED <<sshVars, ruleVars, dockerVars, planVars>>
       \/ which = "ssh" /\ SshNext /\ UNCHANGED <<execVars, ruleVars, dockerVars, planVars>>
       \/ which = "rules" /\ RulesNext /\ UNCHANGED <<execVars, sshVars, dockerVars, planVars>>
       \/ which = "docker" /\ DockerNext /\ UNCHANGED <<execVars, sshVars, ruleVars, planVars>>
       \/ which = "plan" /\ PlanNext /\ UNCHANGED <<execVars, sshVars, ruleVars, dockerVars>>

HostSpec == HostInit /\ [][HostNext]_hostVars /\ ExecFairness

-----------------------------------------------------------------------------
MCPieces == [to : {"out", "err"}, tag : {"none", "success", "error"}]
MCCommands == UNION {[1..n -> MCPieces] : n \in 0..4}

MCRemoteCmds ==
    {[output |-> <<"none", "success">>, errorTag |-> FALSE, successTag |-> TRUE],
     [output |-> <<"none">>,            errorTag |-> FALSE, successTag |-> TRUE],
     [output |-> <<"error">>,           errorTag |-> TRUE,  successTag |-> FALSE],
     [output |-> <<>>,                  errorTag |-> TRUE,  successTag |-> FALSE]}

MCRules == <<"r1", "r2">>
MCGraphOf == [h \in MCHosts |-> IF h = h1 THEN "g1" ELSE "g2"]
=============================================================================
