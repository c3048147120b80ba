-------------------------- MODULE MCClusterStatus --------------------------
(* The cluster status and step 9, run by TLC: one master, two nodes, two   *)
(* jobs at a time.                                                         *)
EXTENDS K8sModules, TLC

CONSTANTS m1, n1, n2, j1, j2

MCMasters == {m1}
MCNodes == {n1, n2}
MCJobs == {j1, j2}
Symmetry == Permutations(MCNodes) \cup Permutations(MCJobs)

MCKinds == {"yum", "rpms", "docker", "dockerGiven", "etcd", "master", "join",
            "joinEX", "remove", "ceph", "k8s"}
MCAppSets == {{"prometheus", "redis"}, {"dns-monitor", "helm"},
              {"heapster", "influxdb"}, {"redis", "no such name"}}
=============================================================================
