---------------------------- MODULE DockerApply ----------------------------
(***************************************************************************)
(* applyDockerRegistry, of an installation and of an extension: a          *)
(* goroutine per host puts the docker directory of its host into a list of *)
(* commands and sends the list to the host. All goroutines work on one     *)
(* list, conf.ApplyDockerRegistryCMDList, without a lock. Each reads it,   *)
(* builds another and stores that, three times, and then sends what the    *)
(* list is by then.                                                        *)
(***************************************************************************)
EXTENDS Sequences

CONSTANTS
    DockerHosts,    \* the hosts
    GraphOf,        \* the docker directory of each: Graphs, or the configured one
    DefaultGraph,   \* "/var/lib/docker", which the extension puts in
    NoGraph,        \* "", which a user may configure
    Placeholder     \* $(GRAPH_PATH), as the configuration file has it

HostGraphs == {GraphOf[h] : h \in DockerHosts} \cup {DefaultGraph}

ASSUME GraphAssumption ==
    /\ GraphOf \in [DockerHosts -> HostGraphs]
    /\ DefaultGraph # NoGraph /\ DefaultGraph # Placeholder /\ NoGraph # Placeholder
    /\ \A h \in DockerHosts : GraphOf[h] # Placeholder

VARIABLES
    cmdList,    \* conf.ApplyDockerRegistryCMDList
    dockerMode, \* "", "install" or "extend"
    dg,         \* each host's goroutine: where it is, what it has read, what it sends
    dockerConf, \* the graph in the configuration file of docker, on each host
    daemon,     \* the graph that the daemon of each host was last started with
    together    \* history: two goroutines were between their first read and the sending

dockerVars == <<cmdList, dockerMode, dg, dockerConf, daemon, together>>

(* The commands: rewrite OPTIONS, with a graph, and restart the daemon.    *)
Options(g) == [restart |-> FALSE, graph |-> g]
Restarting == [restart |-> TRUE, graph |-> NoGraph]
FileList == <<Options(Placeholder), Restarting>>

DockerCmds == {Options(g) : g \in HostGraphs \cup {NoGraph, Placeholder}} \cup {Restarting}

(* dynamicCreateDockerCfg *)
Filled(list, g) ==
    [i \in DOMAIN list |->
        IF g # NoGraph /\ list[i] = Options(Placeholder) THEN Options(g) ELSE list[i]]

DockerInit ==
    /\ cmdList = FileList
    /\ dockerMode = ""
    /\ dg = [h \in DockerHosts |-> [pc |-> "off", read |-> FALSE, list |-> <<>>]]
    /\ dockerConf = [h \in DockerHosts |-> DefaultGraph]
    /\ daemon = [h \in DockerHosts |-> DefaultGraph]
    /\ together = FALSE

(* The spawner. The extension fills the list in before its loop.           *)
Apply(mode) ==
    /\ dockerMode = ""
    /\ dockerMode' = mode
    /\ cmdList' = IF mode = "extend" THEN Filled(FileList, DefaultGraph) ELSE FileList
    /\ dg' = [h \in DockerHosts |-> [dg[h] EXCEPT !.pc = "spawned"]]
    /\ UNCHANGED <<dockerConf, daemon, together>>

Building == {h \in DockerHosts : dg[h].pc \in {"fill", "append", "percent", "send"}}

(* A goroutine begins to work on the list. *)
Enter(h) ==
    /\ dg[h].pc = "spawned"
    /\ dg' = [dg EXCEPT ![h].pc = IF dockerMode = "install" THEN "fill" ELSE "append"]
    /\ together' = (together \/ Building # {})
    /\ UNCHANGED <<cmdList, dockerMode, dockerConf, daemon>>

(* Faulty: the graph is not filled in. *)
EditUnfilled(h) ==
    CASE dg[h].pc = "fill"    -> cmdList
      [] dg[h].pc = "append"  -> Append(cmdList, Options(GraphOf[h]))
      [] dg[h].pc = "percent" -> cmdList

(* Faulty: the host's own options go before the others. *)
EditFirst(h) ==
    CASE dg[h].pc = "fill"    -> Filled(cmdList, GraphOf[h])
      [] dg[h].pc = "append"  -> <<Options(GraphOf[h])>> \o cmdList
      [] dg[h].pc = "percent" -> cmdList

(* What a goroutine makes of the list: the graph filled in, its own        *)
(* options at the end, or a copy with the percentage of the progress.      *)
Edit(h) ==
    CASE dg[h].pc = "fill"    -> Filled(cmdList, GraphOf[h])
      [] dg[h].pc = "append"  -> Append(cmdList, Options(GraphOf[h]))
      [] dg[h].pc = "percent" -> cmdList

ReadList(h) ==
    /\ dg[h].pc \in {"fill", "append", "percent"} /\ ~dg[h].read
    /\ dg' = [dg EXCEPT ![h].read = TRUE, ![h].list = Edit(h)]
    /\ UNCHANGED <<cmdList, dockerMode, dockerConf, daemon, together>>

NextStage(pc) ==
    CASE pc = "fill" -> "append" [] pc = "append" -> "percent" [] pc = "percent" -> "send"

StoreList(h) ==
    /\ dg[h].read
    /\ cmdList' = dg[h].list
    /\ dg' = [dg EXCEPT ![h] = [pc |-> NextStage(@.pc), read |-> FALSE, list |-> <<>>]]
    /\ UNCHANGED <<dockerMode, dockerConf, daemon, together>>

(* sendCMDToK8scc reads the list, *)
SendList(h) ==
    /\ dg[h].pc = "send"
    /\ dg' = [dg EXCEPT ![h].pc = "sending", ![h].list = cmdList]
    /\ UNCHANGED <<cmdList, dockerMode, dockerConf, daemon, together>>

(* and has the host run one command after the other, until one fails.      *)
HostRuns(h) ==
    /\ dg[h].pc = "sending" /\ dg[h].list # <<>>
    /\ LET c == Head(dg[h].list)
       IN  /\ daemon' = IF c.restart THEN [daemon EXCEPT ![h] = dockerConf[h]] ELSE daemon
           /\ dockerConf' = IF c.restart THEN dockerConf ELSE [dockerConf EXCEPT ![h] = c.graph]
    /\ dg' = [dg EXCEPT ![h].list = Tail(@)]
    /\ UNCHANGED <<cmdList, dockerMode, together>>

CommandFails(h) ==
    /\ dg[h].pc = "sending" /\ dg[h].list # <<>>
    /\ dg' = [dg EXCEPT ![h].pc = "failed"]
    /\ UNCHANGED <<cmdList, dockerMode, dockerConf, daemon, together>>

Applied(h) ==
    /\ dg[h].pc = "sending" /\ dg[h].list = <<>>
    /\ dg' = [dg EXCEPT ![h].pc = "done"]
    /\ UNCHANGED <<cmdList, dockerMode, dockerConf, daemon, together>>

DockerNext ==
    \/ \E mode \in {"install", "extend"} : Apply(mode)
    \/ \E h \in DockerHosts :
         \/ Enter(h) \/ ReadList(h) \/ StoreList(h) \/ SendList(h)
         \/ HostRuns(h) \/ CommandFails(h) \/ Applied(h)

DockerSpec == DockerInit /\ [][DockerNext]_dockerVars

-----------------------------------------------------------------------------
(* The types of the variables. *)
DockerTypeOK ==
    /\ cmdList \in Seq(DockerCmds) /\ dockerMode \in {"", "install", "extend"}
    /\ dg \in [DockerHosts ->
                 [pc : {"off", "spawned", "fill", "append", "percent", "send", "sending",
                        "done", "failed"},
                  read : BOOLEAN, list : Seq(DockerCmds)]]
    /\ dockerConf \in [DockerHosts -> HostGraphs \cup {NoGraph, Placeholder}]
    /\ daemon \in [DockerHosts -> HostGraphs \cup {NoGraph, Placeholder}]
    /\ together \in BOOLEAN

(* When no two goroutines worked on the list at a time, each host's docker *)
(* is configured with its own directory, although the list that it got has *)
(* the options of the hosts before it, too.                                *)
ConfIsOwnWithoutRaces ==
    ~together => \A h \in DockerHosts : dg[h].pc = "done" => dockerConf[h] = GraphOf[h]

(* However the goroutines race, no host is configured with the unfilled    *)
(* $(GRAPH_PATH) if every host has a directory: the list is unfilled only  *)
(* until the first goroutine stores it, and none reads it for longer than  *)
(* that to store it again.                                                 *)
PlaceholderStaysHome ==
    (\A h \in DockerHosts : GraphOf[h] # NoGraph) =>
        \A h \in DockerHosts : Placeholder \notin {dockerConf[h], daemon[h]}
=============================================================================
