---------------------------- MODULE MCPlanCheck -----------------------------
(* PlanCheck on plans of two hosts, with none to three or five etcd hosts, *)
(* and with a repository of no field, of its name only, or of all fields.  *)
EXTENDS PlanCheck, TLC

CONSTANTS h1, h2

MCHosts == {h1, h2}
MCPlans ==
    [machines : {{h1, h2}}, etcd : {0, 1, 2, 3, 5}, entry : {h1, NoHost},
     yumIP : {h1, NoHost}, repo : {{}, {"name"}, RepoFields},
     registryIP : {h1, NoHost}, registryURL : BOOLEAN,
     storage : {{}, {h2}}, masters : SUBSET MCHosts,
     virtualIP : BOOLEAN, networkCNI : BOOLEAN]
=============================================================================
