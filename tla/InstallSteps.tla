---------------------------- MODULE InstallSteps ----------------------------
(***************************************************************************)
(* What each installation step of package cluster does, as a table: a      *)
(* function of the code is a sequence of stages, one after the other, and  *)
(* a stage is a sequence of calls made for each of its hosts. StepRunner   *)
(* gives the tables their meaning. A list of commands sent one after the   *)
(* other, each failing in the same way, is one call. The progress of the   *)
(* single hosts (NodeQuery) and the cluster status on disk are left out.   *)
(* A method is named after its receiver and itself.                        *)
(***************************************************************************)
EXTENDS Sequences

(***************************************************************************)
(* A call. "op" is what it does:                                           *)
(*   k8scc    a command run by the host's worker, which updates the task   *)
(*   ssh      a command run over SSH, which updates the task, or fails     *)
(*            without an update when no session can be opened              *)
(*   connect  opens the SSH connection of the host                         *)
(*   quiet    can fail, without an update                                  *)
(*   mark     sets the task Running; cannot fail                           *)
(*   save     adds the host to currentClusterStatus.Nodes; cannot fail     *)
(* and "into" is where its error goes:                                     *)
(*   shared   the variable err that the goroutines share with the spawner  *)
(*   inner    a local variable of a function whose failure is then         *)
(*            returned into the shared err                                 *)
(*   own      a local variable, returned by the function at its end        *)
(*   drop     nowhere                                                      *)
(*   lost     nowhere, but the remaining calls are not made                *)
(* test: the next line returns if that variable is not nil;                *)
(* report: a failure sets the task to Error; maybe: there may be nothing   *)
(* to do; quits: the function may return after it, there is no more to do. *)
(***************************************************************************)
Call(op, into) == [op |-> op, into |-> into, test |-> TRUE,
                   report |-> FALSE, maybe |-> FALSE, quits |-> FALSE]

K8scc(into)   == Call("k8scc", into)
Ssh(into)     == Call("ssh", into)
Connect(into) == Call("connect", into)
Quiet(into)   == Call("quiet", into)
Report(call)  == [call EXCEPT !.report = TRUE]
Untested(call) == [call EXCEPT !.test = FALSE]
Maybe(call)   == [call EXCEPT !.maybe = TRUE]
Quits(call)   == [call EXCEPT !.quits = TRUE]
Mark == Call("mark", "drop")
Save == Call("save", "drop")

(***************************************************************************)
(* A stage. "mode" is                                                      *)
(*   fan      one goroutine per host, and wg.Wait at the end               *)
(*   each     one host after the other, up to the first error              *)
(*   set      a state.Update of the task                                   *)
(* collect: finalErr is set by the spawner, which reads err after each go  *)
(* statement, by the goroutine body, or not at all; reports: when finalErr *)
(* sets the task to Error; jump: on finalErr the job goes on that many     *)
(* stages further, or returns the error if it is 0; scope: the hosts;      *)
(* client: the goroutines' connection is their own or one variable for     *)
(* all; target: they connect to their parameter or to the loop variable;   *)
(* done: wg.Done is called first or last; starts: sets the task Running;   *)
(* optional: the plan may leave the stage out.                             *)
(***************************************************************************)
Stage(mode, calls) ==
    [mode |-> mode, calls |-> calls, state |-> "", collect |-> "spawner",
     reports |-> "no", jump |-> 0, scope |-> "all", client |-> "own",
     target |-> "param", done |-> "last", starts |-> FALSE, optional |-> FALSE]

Fan(calls)  == Stage("fan", calls)
Each(calls) == [Stage("each", calls) EXCEPT !.collect = "direct"]
Once(calls) == [Each(calls) EXCEPT !.scope = "one"]
Some(stage) == [stage EXCEPT !.scope = "some"]
Reported(stage) == [stage EXCEPT !.reports = "after"]
Jump(n, stage)  == [stage EXCEPT !.jump = n]
Dropped(stage)  == Jump(1, stage)
Optional(stage) == [stage EXCEPT !.optional = TRUE]
Starts(stage)   == [stage EXCEPT !.starts = TRUE]
ByBody(stage)   == [stage EXCEPT !.collect = "body"]
SharedClient(stage) == [stage EXCEPT !.client = "shared"]

Set(st) == [Stage("set", <<>>) EXCEPT !.state = st]
Complete == Set("complete")

-----------------------------------------------------------------------------
(* cluster.go *)

(* multiExecCMD: the goroutines connect to the loop variable and share the *)
(* client; Error is set before the Wait; nothing is returned.              *)
multiExecCMD ==
    <<[Dropped(SharedClient(Fan(<<Connect("shared"), Ssh("shared")>>)))
         EXCEPT !.target = "loopvar", !.reports = "before"]>>

-----------------------------------------------------------------------------
(* yum.go *)

(* installDependRPM: parse, send, install; the first two report.           *)
installDependRPM == <<Report(Quiet("own")), Ssh("own")>>

(* createDefaultYumStorage: an IP that is not in the plan is reported, but *)
(* the error returned is the nil one of the line before.                   *)
createDefaultYumStorage ==
    Once(<<Report(Quiet("own")), Report(Quiet("lost")), Report(Connect("own")), Ssh("own")>>
           \o installDependRPM \o <<Report(Quiet("own")), Ssh("own")>>)

(* yumMakeCache of InstallPlan; a repo file that cannot be sent is an error *)
Plan_yumMakeCache == <<Quiet("inner"), Ssh("inner"), Quiet("inner"), Ssh("shared")>>

Plan_applyYumStorage ==
    ByBody(SharedClient(Fan(<<Connect("shared")>> \o Plan_yumMakeCache)))

(* CreateYUMStorage: the check of the repo's URL and key at the head of    *)
(* applyYumStorage is the second stage; an error of applyYumStorage makes  *)
(* the last update an Error instead of Complete.                           *)
CreateYUMStorage ==
    <<Optional(createDefaultYumStorage),
      Jump(3, Once(<<Report(Quiet("own"))>>)),
      Jump(2, Reported(Plan_applyYumStorage)),
      Complete>>

cleanYUMStorage == Dropped(Once(<<Connect("own"), Ssh("own")>>))

RemoveYUMStorage == <<Optional(cleanYUMStorage)>> \o multiExecCMD

-----------------------------------------------------------------------------
(* rpms.go *)

(* installK8scc, of InstallPlan, NodesConf and CephConf alike: the error   *)
(* of the connection is reported, that of a command has been by the call.  *)
installK8scc == <<Mark, Report(Connect("inner")), Ssh("shared")>>
Nodes_installK8scc == installK8scc
Ceph_installK8scc == installK8scc

Plan_installCoreRPMs == Starts(Reported(Fan(<<Untested(K8scc("shared"))>>)))

(* addRules: a rule that is there already is not added again. *)
Plan_addRules(into) == Maybe(K8scc(into))

(* modifySysctlConf: what it returns is ignored by InstallRPMS. *)
Plan_modifySysctlConf ==
    Dropped(Fan(<<K8scc("shared"), Plan_addRules("shared"),
                  K8scc("shared"), Plan_addRules("shared")>>))

installEntry == Optional(Once(<<K8scc("drop")>>))

InstallRPMS ==
    <<Reported(Fan(installK8scc)), Plan_installCoreRPMs, installEntry,
      Plan_modifySysctlConf, Complete>>

RemoveRPMs == multiExecCMD

-----------------------------------------------------------------------------
(* docker_storage.go and docker.go *)

selectDockerStorage == Some(Each(<<K8scc("own"), K8scc("own")>>))

(* createDefaultDockerRegistry: the extraction of the images fails without *)
(* an update; the error of the commands that create the registry is kept   *)
(* and returned, after an update that sets the task Running.               *)
createDefaultDockerRegistry ==
    Once(<<Report(Quiet("own")), Report(Connect("own")), Report(Quiet("own")),
           Quiet("own"), Report(Quiet("own")), Untested(K8scc("own")), Mark>>)

(* applyDockerRegistry of InstallPlan: the last commands are left out if   *)
(* the kubelet has been configured before.                                 *)
Plan_applyDockerRegistry ==
    Reported(Fan(<<K8scc("shared"), Quits(Untested(K8scc("shared"))),
                   Untested(K8scc("shared"))>>))

CreateDockerRegistry ==
    <<selectDockerStorage, Optional(createDefaultDockerRegistry),
      Plan_applyDockerRegistry, Complete>>

cleanDockerRegistry == Dropped(Once(<<Connect("own"), Ssh("own")>>))

(* RemoveDockerRegistry: cleanDockerStorage only logs its commands. *)
RemoveDockerRegistry == <<Optional(cleanDockerRegistry)>>

-----------------------------------------------------------------------------
(* etcd.go and etcd_ex.go *)

joinIntoEtcdCluster ==
    <<Report(Quiet("own")), Report(Connect("own")), Report(Quiet("own")),
      Untested(K8scc("own"))>>

(* InstallEtcd: one host is nothing to install; else it must be three, and *)
(* a host without SSH data is left out.                                    *)
InstallEtcdSingle == <<Complete>>
InstallEtcd ==
    <<Once(<<Report(Quiet("own"))>>), Some(Each(joinIntoEtcdCluster)), Complete>>

RemoveEtcd == <<Reported(Each(<<K8scc("own")>>)), Complete>>

InstallEtcdEX == <<>>

-----------------------------------------------------------------------------
(* master.go *)

exportAdminConfEnv == <<Quits(K8scc("drop")), K8scc("drop")>>

(* getK8sToken: an empty token is an error, which only the caller sees. *)
getK8sToken == <<K8scc("own"), Maybe(K8scc("drop")), K8scc("own"), Quiet("own")>>

(* createStandaloneMaster: the error of kubeadm init is kept and returned  *)
(* at the end, the steps after it are made all the same.                   *)
createStandaloneMaster ==
    <<Once(<<Report(Quiet("own")), Report(Connect("own")), Report(Quiet("own")),
             Untested(K8scc("own"))>>
             \o getK8sToken \o <<K8scc("drop"), Maybe(K8scc("drop")), Maybe(K8scc("drop"))>>)>>

modifyLoadBalance == <<Quiet("own"), Connect("own"), K8scc("own")>>
modifyBackupLoadBalance == Some(Each(modifyLoadBalance))
bkpMastersJoin ==
    <<Once(<<Quiet("own")>>), Some(Each(<<K8scc("own")>> \o exportAdminConfEnv))>>
downloadK8sCfg == Once(<<Connect("own"), K8scc("drop"), Quiet("own")>>)
sendK8sCfgToBkpMaster == <<Connect("lost"), Quiet("lost"), K8scc("drop")>>
sendK8sCfg == Some(Each(sendK8sCfgToBkpMaster))

copyK8sCfgToBkpMaster == <<downloadK8sCfg, sendK8sCfg>>

createHAMaster ==
    <<Once(modifyLoadBalance), modifyBackupLoadBalance>> \o bkpMastersJoin
        \o copyK8sCfgToBkpMaster

(* InitMaster with one master and with several; its checks come first. *)
InitMasterChecks == Once(<<Report(Quiet("own"))>>)
InitStandaloneMaster == <<InitMasterChecks>> \o createStandaloneMaster \o <<Complete>>
InitHAMaster ==
    <<InitMasterChecks>> \o createStandaloneMaster \o createHAMaster \o <<Complete>>

RemoveMaster == multiExecCMD \o <<Complete>>

-----------------------------------------------------------------------------
(* nodes.go and nodes_ex.go *)

(* sendCephConf: its command's result is not looked at. *)
sendCephConf == <<Connect("own"), Quiet("own"), Ssh("drop")>>

(* The goroutine of NodesJoin and nodesJoin: sendCephConf has an err of    *)
(* its own, so its failure is not seen by the spawner.                     *)
joinNode == <<K8scc("shared")>> \o sendCephConf \o <<Save>>

NodesJoin == <<Once(<<Report(Quiet("own"))>>), Fan(joinNode), Complete>>
nodesJoin == NodesJoin

kubectlDeleteNodes == Optional(Once(<<K8scc("drop")>>))
RemoveNodes == <<kubectlDeleteNodes>> \o multiExecCMD

Nodes_yumMakeCache == <<Quiet("inner"), Ssh("inner"), Ssh("shared")>>

(* applyYumStorage: only a failure of yumMakeCache reaches finalErr. *)
Nodes_applyYumStorage ==
    ByBody(SharedClient(Fan(<<Connect("shared")>> \o Nodes_yumMakeCache)))

Nodes_installCoreRPMs == Starts(Reported(Fan(<<Untested(K8scc("shared"))>>)))

Nodes_addRules(into) == Maybe(K8scc(into))
Nodes_modifySysctlConf == Dropped(Each(<<K8scc("own"), Nodes_addRules("own")>>))

(* installRPMS: as InstallRPMS, but the task is not yet Complete: the last *)
(* update has a progress and an empty State.                               *)
Nodes_installRPMS ==
    <<Reported(Fan(Nodes_installK8scc)), Nodes_installCoreRPMs, Nodes_modifySysctlConf,
      Set("")>>

Nodes_applyDockerRegistry ==
    Reported(Fan(<<K8scc("shared"), Quits(Untested(K8scc("shared"))),
                   Untested(K8scc("shared"))>>))

NodesJoinEX ==
    <<Nodes_applyYumStorage>> \o Nodes_installRPMS
        \o <<Nodes_applyDockerRegistry>> \o nodesJoin
=============================================================================
