----------------------------- MODULE CephSteps ------------------------------
(* The steps that install, extend and remove Ceph, as tables: the files    *)
(* ceph.go, ceph_cluster.go, ceph_ssh.go, ceph_sysconfig.go and ceph_ex.go *)
(* of package cluster, in the notation of InstallSteps.                    *)
EXTENDS InstallSteps

(* getNodeHostname: a failure gives the empty name. *)
getNodeHostname == <<K8scc("drop")>>

-----------------------------------------------------------------------------
(* ceph.go: one command list for all goroutines, no test after it. *)
installCephPackages == Fan(<<Untested(K8scc("shared"))>>)

(* setCephClient: InstallCeph compares its error with itself. *)
setCephClient ==
    Dropped(Fan(<<Connect("inner"), Quiet("inner"), Ssh("drop")>>))

-----------------------------------------------------------------------------
(* ceph_sysconfig.go *)
commentOtherServerForNtpCfg == Fan(<<Untested(K8scc("shared"))>>)

(* The server's check is not tested; what is there already is not added. *)
addForNtpServer == Once(<<Untested(K8scc("drop")), Maybe(K8scc("own"))>>)
addForNtpClient == Some(Each(<<K8scc("own"), Maybe(K8scc("own"))>>))
addNewServerForNtpCfg == <<addForNtpServer, addForNtpClient>>

timeSync == <<commentOtherServerForNtpCfg>> \o addNewServerForNtpCfg
reTimeSync == timeSync

setMaxProcLimit == Fan(<<Quits(K8scc("shared")), Untested(K8scc("shared"))>>)

(* setMaxfileLimit: the goroutines call wg.Done before they do anything. *)
setMaxfileLimit == [setMaxProcLimit EXCEPT !.done = "first"]

setMaxThreadLimit == setMaxProcLimit

applySysCfg == Fan(<<Untested(K8scc("shared"))>>)

(* getHostsList: after a failure the list is empty, and no error returned. *)
getHostsList == Dropped(Each(<<K8scc("own")>>))

addHostRules(into) == Maybe(K8scc(into))
modifyHosts == <<getHostsList, Fan(<<K8scc("shared"), addHostRules("shared")>>)>>

-----------------------------------------------------------------------------
(* ceph_ssh.go *)
newScriptArgs == Each(getNodeHostname)
copyScript2Node == <<Report(Connect("own")), Report(Quiet("own"))>>
execScript == Once(<<K8scc("own")>>)
sendExecScriptCMD == Fan(getNodeHostname \o <<Untested(K8scc("shared"))>>)

setCommunicateEachOther ==
    <<newScriptArgs, Each(copyScript2Node), execScript, sendExecScriptCMD>>

-----------------------------------------------------------------------------
(* ceph_cluster.go *)

(* setGlobalCfg: the goroutines ignore what copying gives. *)
setGlobalCfg ==
    <<Some(Each(getNodeHostname)), Once(<<K8scc("own"), Connect("own"), Quiet("own")>>),
      Some(Fan(<<Quiet("drop")>>))>>

initMonNodes ==
    <<Once(<<K8scc("own"), Connect("own"), Quiet("own")>>),
      Some(Fan(<<Connect("lost"), Quiet("lost"), Quiet("drop")>>))>>

(* Only the OSD hosts have something to do; a list may be empty. *)
sendChownCMD == <<Maybe(Untested(K8scc("shared")))>>
chownJournalMedia == Fan(sendChownCMD)
sendInstallMediaCMD == getNodeHostname \o <<Maybe(Untested(K8scc("shared")))>>
installOSDMedia == Fan(sendInstallMediaCMD)
addOSDNodes == <<chownJournalMedia, installOSDMedia>>

setCephCluster == setGlobalCfg \o initMonNodes \o addOSDNodes

-----------------------------------------------------------------------------
(* InstallCeph *)
InstallCephPrepare ==
    <<Once(<<Report(Quiet("own"))>>), installCephPackages>>
        \o modifyHosts \o setCommunicateEachOther \o timeSync

InstallCephSystem ==
    <<setMaxProcLimit, setMaxfileLimit, setMaxThreadLimit, applySysCfg>>

InstallCephCluster == setCephCluster \o <<setCephClient, Complete>>

InstallCeph == InstallCephPrepare \o InstallCephSystem \o InstallCephCluster

RemoveCeph == <<Each(<<K8scc("drop")>>), Complete>>

-----------------------------------------------------------------------------
(* ceph_ex.go *)
Ceph_yumMakeCache == <<Quiet("inner"), Ssh("shared")>>
Ceph_applyYumStorage ==
    ByBody(SharedClient(Fan(<<Connect("shared")>> \o Ceph_yumMakeCache)))

Ceph_installCoreRPMs == Starts(Reported(Fan(<<Untested(K8scc("shared"))>>)))
Ceph_addRules(into) == Maybe(K8scc(into))
Ceph_modifySysctlConf == Dropped(Each(<<K8scc("own"), Ceph_addRules("own")>>))

Ceph_installRPMS ==
    <<Reported(Fan(Ceph_installK8scc)), Ceph_installCoreRPMs, Ceph_modifySysctlConf,
      Set("")>>

reCommunicateEachOther == modifyHosts \o setCommunicateEachOther

addMon2Cluster == Maybe(K8scc("drop"))
addOsd2Cluster == Maybe(K8scc("drop"))
cephNodeJoin == Each(<<addMon2Cluster, addOsd2Cluster>>)

updateCurrentCluster == reCommunicateEachOther \o reTimeSync \o <<cephNodeJoin>>

InstallCephEX ==
    <<Ceph_applyYumStorage>> \o Ceph_installRPMS \o updateCurrentCluster \o <<Complete>>
=============================================================================
