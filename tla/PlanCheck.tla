----------------------------- MODULE PlanCheck ------------------------------
(***************************************************************************)
(* Step 1 of kubeinstall, CheckInstallPlan (cluster.go): the job tries     *)
(* every host of the plan, then the functions check* look at the           *)
(* parameters of the later steps, and what they complain of decides the    *)
(* state of the task. finalMsg is a sequence of complaints instead of the  *)
(* concatenation of their texts; none of the texts is empty.               *)
(***************************************************************************)
EXTENDS Naturals, Sequences, FiniteSets

CONSTANTS
    PlanHosts,  \* the hosts, which are also the addresses of a plan
    Plans,      \* the install plans that are posted
    NoHost      \* the empty address

ASSUME PlanHostsAssumption == IsFiniteSet(PlanHosts)

RepoFields == {"name", "baseurl", "gpgkey"}

(* The fields of InstallPlan that are checked: "repo" holds the fields of  *)
(* the repo that are filled in, "storage" the hosts whose docker storage   *)
(* lacks a field, and virtualIP, networkCNI and UserDockerRegistryURL say  *)
(* whether there is one.                                                   *)
ASSUME PlansAssumption ==
    Plans \subseteq
        [machines : SUBSET PlanHosts, etcd : Nat, entry : PlanHosts \cup {NoHost},
         yumIP : PlanHosts \cup {NoHost}, repo : SUBSET RepoFields,
         registryIP : PlanHosts \cup {NoHost}, registryURL : BOOLEAN,
         storage : SUBSET PlanHosts, masters : SUBSET PlanHosts,
         virtualIP : BOOLEAN, networkCNI : BOOLEAN]

VARIABLES
    plan,       \* the plan of this job
    todo,       \* the hosts that have not been tried
    finalMsg,   \* the complaints so far
    task,       \* the State of the task's context
    ready       \* history: the hosts that have their work directories

planVars == <<plan, todo, finalMsg, task, ready>>

PlanInit ==
    /\ plan \in Plans
    /\ todo = plan.machines
    /\ finalMsg = <<>>
    /\ task = "running"
    /\ ready = {}

-----------------------------------------------------------------------------
(* The check of each step, as an error code. *)

checkEtcd(p) ==
    CASE p.etcd = 1       -> "EtcdNotHighAvailable"
      [] p.etcd % 2 = 0   -> "EtcdCountInvalid"
      [] OTHER            -> "Success"

checkEntry(p) == IF p.entry \in p.machines THEN "Success" ELSE "EntrySSHNotSpecified"

isEmpty(repo) == repo # RepoFields

checkYUM(p) ==
    IF p.yumIP = NoHost /\ isEmpty(p.repo) THEN "YUMRegistryNotSpecified" ELSE "Success"

checkDockerStorage(p) ==
    IF p.storage # {} THEN "DockerStorageParamInvalid" ELSE "Success"

checkDocker(p) ==
    IF ~p.registryURL /\ p.registryIP = NoHost THEN "DockerRegistryNotSpecified"
    ELSE IF p.registryIP \in p.masters THEN "DockerRegistryIPConflict"
    ELSE checkDockerStorage(p)

checkMaster(p) ==
    LET n == Cardinality(p.masters) IN
    CASE n = 0                                       -> "MasterNotSpecified"
      [] n = 1                                       -> "MasterNotHighAvailable"
      [] n > 1 /\ ~p.virtualIP                       -> "HAVirtualIPNotSpecified"
      [] n > 1 /\ p.virtualIP /\ ~p.networkCNI       -> "NetworkCNINotSpecified"
      [] n > 1 /\ p.virtualIP /\ p.networkCNI        -> "Success"

(* if errCode != msg.Success { finalMsg += ... } *)
Complaint(code) == IF code = "Success" THEN <<>> ELSE <<code>>

Complaints(p) ==
    Complaint(checkEtcd(p)) \o Complaint(checkEntry(p)) \o Complaint(checkYUM(p))
        \o Complaint(checkDocker(p)) \o Complaint(checkMaster(p))

-----------------------------------------------------------------------------
(* Faulty: the error is kept in a variable that nobody looks at. *)
FailSilently(h, code) ==
    /\ task = "running" /\ h \in todo
    /\ todo' = todo \ {h}
    /\ UNCHANGED <<plan, finalMsg, task, ready>>

(* A host that cannot be reached, or has no work directories made, is one  *)
(* more complaint; the others are tried all the same.                      *)
Fail(h, code) ==
    /\ task = "running" /\ h \in todo
    /\ todo' = todo \ {h}
    /\ finalMsg' = Append(finalMsg, code)
    /\ UNCHANGED <<plan, task, ready>>

Prepare(h) ==
    /\ task = "running" /\ h \in todo
    /\ todo' = todo \ {h}
    /\ ready' = ready \cup {h}
    /\ UNCHANGED <<plan, finalMsg, task>>

(* The parameters are checked and the verdict is given: a plan whose only  *)
(* complaint is that there is one master is accepted.                      *)
Decide ==
    /\ task = "running" /\ todo = {}
    /\ finalMsg' = finalMsg \o Complaints(plan)
    /\ task' = IF finalMsg' \in {<<>>, <<"MasterNotHighAvailable">>}
               THEN "complete" ELSE "error"
    /\ UNCHANGED <<plan, todo, ready>>

PlanNext ==
    \/ \E h \in PlanHosts, code \in {"SSHFailed", "WorkDirFailed"} : Fail(h, code)
    \/ \E h \in PlanHosts : Prepare(h)
    \/ Decide

PlanSpec == PlanInit /\ [][PlanNext]_planVars

-----------------------------------------------------------------------------
(* The plans that step 1 means to accept, by the comments on its checks:   *)
(* "even numbers are to be excluded" of the etcd hosts (etcd.go:53), so    *)
(* one and five are good, though step 5 will refuse five (etcd.go:184); an *)
(* entry host that is known, a yum repository, a docker registry that is   *)
(* no master, complete storage, and masters that are one, or several with  *)
(* an address and a network of their own.                                  *)
Acceptable(p) ==
    /\ p.etcd \in {2 * k + 1 : k \in 0..p.etcd}
    /\ p.entry \in p.machines
    /\ p.yumIP # NoHost \/ p.repo = RepoFields
    /\ p.registryURL \/ p.registryIP # NoHost
    /\ p.registryIP \notin p.masters
    /\ p.storage = {}
    /\ \/ Cardinality(p.masters) = 1
       \/ Cardinality(p.masters) > 1 /\ p.virtualIP /\ p.networkCNI

(* Whatever happens on the hosts, and in whatever order: a plan that is    *)
(* accepted is an acceptable one all of whose hosts were reached and given *)
(* their directories, and one that is refused lacks a host or has a fault. *)
(* A single etcd host is excepted from the second half: that it may be     *)
(* refused is what HAComplaintsAccepted shows.                             *)
VerdictIsRight ==
    task # "running" =>
        /\ task = "complete" => ready = plan.machines /\ Acceptable(plan)
        /\ task = "error" => ready # plan.machines \/ ~Acceptable(plan) \/ plan.etcd = 1

(* A plan whose only complaints are about high availability is accepted:   *)
(* the comment on the comparison that Decide makes (cluster.go:269).       *)
HAComplaints == {"MasterNotHighAvailable", "EtcdNotHighAvailable"}

HAComplaintsAccepted ==
    task # "running" /\ (\A i \in DOMAIN finalMsg : finalMsg[i] \in HAComplaints)
        => task = "complete"

=============================================================================
