---------------------------- MODULE ClusterStatus ----------------------------
(***************************************************************************)
(* currentClusterStatus, the global record of what is installed where, and *)
(* its file. The jobs of all steps assign its fields and save it with      *)
(* runconf.Write, in goroutines of their own and without a lock; a server  *)
(* that starts again goes on with what Init reads from the file.           *)
(*                                                                         *)
(* What a job does to the hosts is the subject of StepRunner; here it is a *)
(* sequence of the statements that touch the status. A field whose value   *)
(* plays no part is known once it has been assigned. Nodes, Masters and    *)
(* the logins of NodesSSH are sets of hosts.                               *)
(***************************************************************************)
EXTENDS Naturals, Sequences, FiniteSets

CONSTANTS
    Masters,    \* the hosts a plan may make the master
    Nodes,      \* the hosts a plan may join or remove
    Jobs,       \* the jobs that can run at one time
    Kinds,      \* the kinds of job a behaviour may start
    MaxJobs,    \* bound: the jobs started in a behaviour
    MaxOverlap, \* bound: among how many of the first of these one may start beside another
    MaxCrashes, \* bound: how often the server dies
    NoMap,      \* the nil map
    NoFile,     \* no file under the name
    Torn        \* a file that json.Unmarshal rejects

ASSUME BoundsAssumption ==
    MaxJobs \in Nat /\ MaxOverlap \in Nat /\ MaxCrashes \in Nat

ASSUME KindsAssumption ==
    Kinds \subseteq {"yum", "rpms", "docker", "dockerGiven", "etcd", "master",
                     "join", "joinEX", "remove", "ceph", "k8s"}

ASSUME NoMapAssumption == \A H \in SUBSET (Masters \cup Nodes) : NoMap # H

VARIABLES
    mem,        \* currentClusterStatus; meaningless while the server is down
    file,       \* current-cluster-status.json
    job,        \* the jobs: kind, hosts of the plan, position, snapshot
    up,         \* the server runs
    crashes,
    jobs,       \* how many jobs were started
    entries,    \* history: how often an entry was installed
    seen        \* history: what has happened that the code has no answer to

svars == <<mem, file, job, up, crashes, jobs, entries, seen>>

Op(o, f) == [op |-> o, field |-> f]
Quit == Op("quit", "")
Save == Op("save", "")
Set(f) == Op("set", f)

(* The statements of each step function that touch the status. "quit" is   *)
(* an error return that may be taken, "maybe" an assignment under an if,   *)
(* "unless" the return of a step that was done before. A job that fails    *)
(* before its first such statement is no job here.                         *)
Yum == <<Op("maybe", "yumHost"), Quit, Set("yumRepo"), Save>>
RpmsAlways == <<Set("entry"), Save>> \* faulty: does not look whether there is one
Rpms == <<Op("unless", "entry"), Set("entry"), Save>>
Docker == <<Set("storage"), Op("quitSetting", "registryHost"), Set("registry"), Save,
           Set("registryHost"), Quit, Set("useSwap")>>
DockerGiven == <<Set("storage"), Quit, Set("useSwap")>>
EtcdSavedFirst == <<Save, Set("etcd")>> \* faulty: saves too early
Etcd == <<Set("etcd"), Save>>
MasterWithoutLogin == <<Op("masters", ""), Save>> \* faulty: forgets the login
Master == <<Op("masters", ""), Op("logins", "keep"), Save>>
Join == <<Op("append", ""), Op("logins", "make"), Save>>
JoinEX == <<Op("append", ""), Op("quitIfLost", ""), Op("logins", "make"), Save>>
Remove == <<Op("forget", ""), Op("replace", ""), Save>>
Ceph == <<Set("deploy"), Quit, Set("ceph"), Save>>
K8sMod == <<Op("apps", "")>>

Program(kind) ==
    CASE kind = "yum" -> Yum         [] kind = "rpms" -> Rpms
      [] kind = "docker" -> Docker   [] kind = "dockerGiven" -> DockerGiven
      [] kind = "etcd" -> Etcd       [] kind = "master" -> Master
      [] kind = "join" -> Join       [] kind = "joinEX" -> JoinEX
      [] kind = "remove" -> Remove   [] kind = "ceph" -> Ceph
      [] kind = "k8s" -> K8sMod

Hosts == Masters \cup Nodes
Fields == {"yumHost", "yumRepo", "entry", "storage", "registry", "registryHost",
           "useSwap", "etcd", "deploy", "ceph"}

(* The fields that their own job saves after it has assigned them.         *)
Durable == {"yumRepo", "entry", "registry", "etcd", "ceph"}

(* The plans: one master; joins of some hosts; a removal may name none.    *)
PlanHosts(kind) ==
    CASE kind = "master" -> {{h} : h \in Masters}
      [] kind \in {"join", "joinEX"} -> (SUBSET Nodes) \ {{}}
      [] kind = "remove" -> SUBSET Nodes
      [] OTHER -> {{}}

Default == [known |-> {}, masters |-> {}, nodes |-> {}, ssh |-> {}]
Idle == [kind |-> "", hosts |-> {}, todo |-> {}, lost |-> FALSE, at |-> 0,
         write |-> "", handle |-> "", snap |-> Default]

StatusInit ==
    /\ mem = Default /\ file = NoFile /\ up = TRUE
    /\ job = [j \in Jobs |-> Idle]
    /\ crashes = 0 /\ jobs = 0 /\ entries = 0 /\ seen = {}

Busy(j) == job[j].at > 0
Quiet == up /\ \A j \in Jobs : ~Busy(j)
This(j) == Program(job[j].kind)[job[j].at]

(* After a statement: the next, or the end of the job. *)
Past(rec) ==
    IF rec.at < Len(Program(rec.kind))
    THEN [rec EXCEPT !.at = @ + 1, !.todo = {}, !.write = "", !.handle = "", !.snap = Default]
    ELSE Idle

(* After a host of a loop: the next host, or the end of the loop. *)
Served(rec) == IF rec.todo = {} THEN Past(rec) ELSE rec

Go(j) == job' = [job EXCEPT ![j] = Past(job[j])]
Leave(j) == job' = [job EXCEPT ![j] = Idle]

Start(j, kind, H) ==
    /\ up /\ ~Busy(j) /\ jobs < MaxJobs /\ (Quiet \/ jobs < MaxOverlap)
    /\ kind \in Kinds /\ H \in PlanHosts(kind)
    /\ job' = [job EXCEPT ![j] = [Idle EXCEPT !.kind = kind, !.hosts = H,
                                              !.todo = H, !.at = 1]]
    /\ jobs' = jobs + 1
    /\ seen' = seen \cup (IF Quiet THEN {} ELSE {"overlap"})
                    \cup (IF kind = "remove" THEN {"removal"} ELSE {})
    /\ UNCHANGED <<mem, file, up, crashes, entries>>

-----------------------------------------------------------------------------
(* Assignments. *)
Known(f) == mem' = [mem EXCEPT !.known = @ \cup {f}]

(* A field is assigned; installEntry has installed the entry by then.      *)
Assign(j) ==
    /\ Busy(j) /\ This(j).op \in {"set", "maybe"}
    /\ \/ Known(This(j).field)
       \/ This(j).op = "maybe" /\ UNCHANGED mem
    /\ entries' = IF This(j).field = "entry" THEN entries + 1 ELSE entries
    /\ Go(j)
    /\ UNCHANGED <<file, up, crashes, jobs, seen>>

(* The error returns, and the way past them. *)
Return(j) ==
    /\ Busy(j)
    /\ \/ This(j).op = "quit" /\ UNCHANGED <<mem, seen>>
       \/ This(j).op = "quitSetting" /\ Known(This(j).field) /\ UNCHANGED seen
       \/ This(j).op = "unless" /\ This(j).field \in mem.known /\ UNCHANGED <<mem, seen>>
       \/ /\ This(j).op = "quitIfLost" /\ job[j].lost
          /\ seen' = seen \cup {"lostJoin"}
          /\ UNCHANGED mem
    /\ Leave(j)
    /\ UNCHANGED <<file, up, crashes, jobs, entries>>

GoOn(j) ==
    /\ Busy(j) /\ This(j).op \in {"quit", "quitSetting", "unless", "quitIfLost"}
    /\ This(j).op = "unless" => This(j).field \notin mem.known
    /\ Go(j)
    /\ UNCHANGED <<mem, file, up, crashes, jobs, entries, seen>>

(* Step 9 only reads the status; module K8sModules has its steps.          *)
InstallK8sModules(j) ==
    /\ Busy(j) /\ This(j).op = "apps"
    /\ Go(j)
    /\ UNCHANGED <<mem, file, up, crashes, jobs, entries, seen>>

-----------------------------------------------------------------------------
(* Masters, Nodes and NodesSSH. *)
SetMasters(j) ==
    /\ Busy(j) /\ This(j).op = "masters"
    /\ mem' = [mem EXCEPT !.masters = job[j].hosts]
    /\ Go(j)
    /\ UNCHANGED <<file, up, crashes, jobs, entries, seen>>

(* Faulty: the table is made anew, whatever it holds. *)
AddLoginsToNewMap(j) ==
    /\ Busy(j) /\ This(j).op = "logins"
    /\ mem' = [mem EXCEPT !.ssh = job[j].hosts]
    /\ Go(j)
    /\ UNCHANGED <<file, up, crashes, jobs, entries, seen>>

(* NodesSSH[ip] = nodeSSH for the hosts of the plan. NodesJoin makes the   *)
(* map when there is none.                                                 *)
AddLogins(j) ==
    /\ Busy(j) /\ This(j).op = "logins"
    /\ mem.ssh = NoMap => This(j).field = "make"
    /\ mem' = [mem EXCEPT !.ssh = IF @ = NoMap THEN job[j].hosts ELSE @ \cup job[j].hosts]
    /\ Go(j)
    /\ UNCHANGED <<file, up, crashes, jobs, entries, seen>>

(* A goroutine's host has joined, or not; saveNode appends it once. (The   *)
(* lost append of two goroutines is a matter of StepRunner.)               *)
AppendNode(j, h, ok) ==
    /\ Busy(j) /\ This(j).op = "append" /\ h \in job[j].todo
    /\ mem' = IF ok THEN [mem EXCEPT !.nodes = @ \cup {h}] ELSE mem
    /\ LET next == [job[j] EXCEPT !.todo = @ \ {h}, !.lost = @ \/ ~ok]
       IN  job' = [job EXCEPT ![j] = Served(next)]
    /\ UNCHANGED <<file, up, crashes, jobs, entries, seen>>

(* RemoveNodes takes a host it knows out of Nodes and out of NodesSSH.     *)
ForgetNode(j, h) ==
    /\ Busy(j) /\ This(j).op = "forget" /\ h \in job[j].todo
    /\ mem' = IF h \in mem.nodes
              THEN [mem EXCEPT !.nodes = @ \ {h},
                               !.ssh = IF @ = NoMap THEN NoMap ELSE @ \ {h}]
              ELSE mem
    /\ job' = [job EXCEPT ![j] = Served([job[j] EXCEPT !.todo = @ \ {h}])]
    /\ UNCHANGED <<file, up, crashes, jobs, entries, seen>>

(* A removal of nobody. *)
ForgetNobody(j) ==
    /\ Busy(j) /\ This(j).op = "forget" /\ job[j].hosts = {}
    /\ Go(j)
    /\ UNCHANGED <<mem, file, up, crashes, jobs, entries, seen>>

(* NodesSSH = p.NodesCfg.NodesIPSet, which is nil if the request has none. *)
ReplaceLogins(j) ==
    /\ Busy(j) /\ This(j).op = "replace"
    /\ mem' = [mem EXCEPT !.ssh = IF job[j].hosts = {} THEN NoMap ELSE job[j].hosts]
    /\ Go(j)
    /\ UNCHANGED <<file, up, crashes, jobs, entries, seen>>

-----------------------------------------------------------------------------
(* runconf.Write: remove the file, marshal, open with truncation, write.   *)
At(j, stage) == Busy(j) /\ This(j).op = "save" /\ job[j].write = stage

(* os.Remove: who has the old file open goes on writing to that.           *)
RemoveFile(j) ==
    /\ At(j, "")
    /\ file' = NoFile
    /\ job' = [k \in Jobs |->
                 IF k = j THEN [job[j] EXCEPT !.write = "marshal"]
                 ELSE IF job[k].handle = "linked" THEN [job[k] EXCEPT !.handle = "unlinked"]
                 ELSE job[k]]
    /\ UNCHANGED <<mem, up, crashes, jobs, entries, seen>>

Marshal(j) ==
    /\ At(j, "marshal")
    /\ job' = [job EXCEPT ![j].write = "open", ![j].snap = mem]
    /\ UNCHANGED <<mem, file, up, crashes, jobs, entries, seen>>

OpenFile(j) ==
    /\ At(j, "open")
    /\ file' = Torn
    /\ job' = [job EXCEPT ![j].write = "write", ![j].handle = "linked"]
    /\ UNCHANGED <<mem, up, crashes, jobs, entries, seen>>

(* A write over a longer text leaves that text's end behind. *)
WriteFile(j) ==
    /\ At(j, "write")
    /\ IF job[j].handle = "unlinked" THEN UNCHANGED file
       ELSE \/ file' = job[j].snap
            \/ file \notin {NoFile, Torn} /\ file' = Torn
    /\ Go(j)
    /\ UNCHANGED <<mem, up, crashes, jobs, entries, seen>>

(* ioutil.WriteFile fails, to open the file or to write it, nothing or a   *)
(* part of it being written. The error is dropped and the job goes on.     *)
WriteFails(j) ==
    /\ At(j, "open") \/ At(j, "write")
    /\ \/ UNCHANGED file
       \/ job[j].handle = "linked" /\ file' = Torn
    /\ Go(j)
    /\ seen' = seen \cup {"unwritten"}
    /\ UNCHANGED <<mem, up, crashes, jobs, entries>>

-----------------------------------------------------------------------------
(* The end of the server. *)
OnFile == IF file \in {NoFile, Torn} THEN Default ELSE file

(* What the file would lose. *)
Unsaved == OnFile.known \cap Durable # mem.known \cap Durable

Crash ==
    /\ up /\ crashes < MaxCrashes
    /\ up' = FALSE /\ crashes' = crashes + 1
    /\ job' = [j \in Jobs |-> Idle]
    /\ seen' = seen \cup (IF Unsaved THEN {"unsaved"} ELSE {})
                    \cup (IF "overlap" \in seen THEN {"crashAfterOverlap"} ELSE {})
    /\ mem' = Default
    /\ UNCHANGED <<file, jobs, entries>>

(* createStandaloneMaster assigns to the nil map RemoveNodes left behind:  *)
(* a panic, and the end of the server.                                     *)
Panic(j) ==
    /\ Busy(j) /\ This(j).op = "logins" /\ This(j).field = "keep" /\ mem.ssh = NoMap
    /\ Crash

(* Init reads the file, and makes the map if it is missing or empty.       *)
Restart ==
    /\ ~up /\ up' = TRUE
    /\ mem' = [OnFile EXCEPT !.ssh = IF @ = NoMap THEN {} ELSE @]
    /\ UNCHANGED <<file, job, crashes, jobs, entries, seen>>

JobStep(j) ==
    \/ \E kind \in Kinds : \E H \in PlanHosts(kind) : Start(j, kind, H)
    \/ Assign(j) \/ Return(j) \/ GoOn(j) \/ SetMasters(j) \/ AddLogins(j)
    \/ \E h \in Nodes : \E ok \in BOOLEAN : AppendNode(j, h, ok)
    \/ \E h \in Nodes : ForgetNode(j, h)
    \/ ForgetNobody(j) \/ ReplaceLogins(j)
    \/ RemoveFile(j) \/ Marshal(j) \/ OpenFile(j) \/ WriteFile(j) \/ WriteFails(j)

StatusNext ==
    \/ \E j \in Jobs : JobStep(j) \/ InstallK8sModules(j) \/ Panic(j)
    \/ Crash \/ Restart

StatusSpec == StatusInit /\ [][StatusNext]_svars

-----------------------------------------------------------------------------
Statuses == [known : SUBSET Fields, masters : SUBSET Hosts, nodes : SUBSET Hosts,
             ssh : (SUBSET Hosts) \cup {NoMap}]

ASSUME NoFileAssumption == NoFile \notin Statuses /\ Torn \notin Statuses

(* The types of the status, its file and the jobs. *)
StatusTypeOK ==
    /\ mem \in Statuses
    /\ file \in {NoFile, Torn} \/ file \in Statuses
    /\ \A j \in Jobs :
         Busy(j) => /\ job[j].kind \in Kinds
                    /\ job[j].at \in 1..Len(Program(job[j].kind))
                    /\ job[j].todo \subseteq job[j].hosts
                    /\ job[j].write \in {"", "marshal", "open", "write"}
                    /\ job[j].snap \in Statuses
    /\ up \in BOOLEAN /\ jobs \in 0..MaxJobs /\ crashes \in 0..MaxCrashes

(* A write has failed, and no file that can be read has come after it. *)
Lost == "unwritten" \in seen /\ file \in {NoFile, Torn}

(* As long as jobs run one after the other, whenever none runs the file    *)
(* holds all that memory does, but for the fields nobody saves and, after  *)
(* an extension that failed half way, the nodes that joined; or a write    *)
(* has failed and there is no file to be read. So a restart between two    *)
(* steps never goes on with a status that was overtaken, and loses all of  *)
(* it only after a failed write that no later job has made good.           *)
DurableWhenQuiet ==
    Quiet /\ "overlap" \notin seen /\ ~Lost =>
        /\ OnFile.known \cap Durable = mem.known \cap Durable
        /\ OnFile.masters = mem.masters
        /\ "lostJoin" \notin seen => OnFile.nodes = mem.nodes
        /\ (IF OnFile.ssh = NoMap THEN {} ELSE OnFile.ssh)
             = (IF mem.ssh = NoMap THEN {} ELSE mem.ssh)

(* Every master and every node of the cluster has a login in NodesSSH, so  *)
(* that later steps reach it, also after a restart and with two jobs at    *)
(* once: unless nodes were removed, an extension failed half way, or the   *)
(* server died while it ran two jobs.                                      *)
LoginsKnown ==
    Quiet /\ seen \cap {"removal", "lostJoin", "crashAfterOverlap"} = {} =>
        mem.ssh # NoMap /\ mem.masters \cup mem.nodes \subseteq mem.ssh

(* The entry is installed once, however often step 3 runs: unless two jobs *)
(* overlap or the server dies before the address is saved.                 *)
EntryInstalledOnce ==
    seen \cap {"overlap", "unsaved"} = {} => entries <= 1
=============================================================================
