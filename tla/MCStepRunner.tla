---------------------------- MODULE MCStepRunner ----------------------------
(* The step functions of kubeinstall, run by TLC on small sets of hosts:   *)
(* on two hosts, and the whole of InstallCeph, twenty-odd stages with      *)
(* goroutines that outlive them, on one.                                   *)
EXTENDS StepRunner, CephSteps, TLC

CONSTANTS h1, h2

MCHosts == {h1, h2}
Symmetry == Permutations(MCHosts)

(* Steps 2 to 7 and their extensions, and the removals. *)
InstallPlans ==
    {CreateYUMStorage, InstallRPMS, CreateDockerRegistry, InstallEtcdSingle,
     InstallEtcd, InitStandaloneMaster, InitHAMaster, NodesJoin, NodesJoinEX,
     InstallEtcdEX}
RemovePlans ==
    {RemoveYUMStorage, RemoveRPMs, RemoveDockerRegistry, RemoveEtcd, RemoveMaster,
     RemoveNodes, RemoveCeph}
CephPlans ==
    {InstallCephPrepare, InstallCephCluster, InstallCephEX,
     SubSeq(InstallCephSystem, 1, 2), SubSeq(InstallCephSystem, 3, 4), InstallCeph}
MCHostsOf(P) == IF P = InstallCeph THEN {h1} ELSE MCHosts
MCPlans == InstallPlans \cup RemovePlans \cup CephPlans

(* What the theorems of StepRunnerProofs suppose of the tables. *)
ASSUME TablesAssumption == \A P \in Plans : ReportsAttached(P) /\ CompletesLast(P)

MCInstallRPMS == {InstallRPMS}
MCNodesJoin == {NodesJoin}

MCMaxStages == CHOOSE n \in {Len(P) : P \in Plans} : \A P \in Plans : Len(P) <= n
=============================================================================
