------------------------- MODULE DockerApplyProofs -------------------------
(***************************************************************************)
(* For every set of hosts and of directories: however the goroutines of    *)
(* applyDockerRegistry race for the list, no host gets an unfilled command *)
(* as long as every host has a directory; and a host whose goroutine meets *)
(* no other is configured with its own.                                    *)
(***************************************************************************)
EXTENDS DockerApply, Naturals, TLAPS

AllHaveGraphs == \A h \in DockerHosts : GraphOf[h] # NoGraph

Clean(list) == \A i \in DOMAIN list : list[i].graph # Placeholder

Past == {"append", "percent", "send", "sending", "done", "failed"}

(* From the first store on the list is filled, and so is every copy of it  *)
(* that a goroutine holds.                                                 *)
ListFilled ==
    /\ dockerMode = "extend" => Clean(cmdList)
    /\ \A h \in DockerHosts :
         /\ dg[h].pc \in Past => Clean(cmdList)
         /\ dg[h].read \/ dg[h].pc = "sending" => Clean(dg[h].list)
         /\ Placeholder \notin {dockerConf[h], daemon[h]}

(* A goroutine holds a copy only between the read and the store of a stage, *)
(* and there is none before the loop.                                      *)
CopyHeld ==
    \A h \in DockerHosts :
        /\ dg[h].read => dg[h].pc \in {"fill", "append", "percent"}
        /\ dockerMode = "" => dg[h].pc = "off"

DockerInv == DockerTypeOK /\ CopyHeld /\ (AllHaveGraphs => ListFilled)

-----------------------------------------------------------------------------
LEMMA FileListType == FileList \in Seq(DockerCmds)
<1>1. Options(Placeholder) \in DockerCmds /\ Restarting \in DockerCmds
  BY DEF DockerCmds
<1> QED
  BY <1>1 DEF FileList

LEMMA CmdType ==
    ASSUME NEW c \in DockerCmds
    PROVE  c.restart \in BOOLEAN /\ c.graph \in HostGraphs \cup {NoGraph, Placeholder}
<1>1. CASE c = Restarting
  BY <1>1 DEF Restarting
<1>2. CASE c # Restarting
  <2>1. PICK g \in HostGraphs \cup {NoGraph, Placeholder} : c = Options(g)
    BY <1>2 DEF DockerCmds
  <2> QED
    BY <2>1 DEF Options
<1> QED
  BY <1>1, <1>2

LEMMA FilledType ==
    ASSUME NEW list \in Seq(DockerCmds), NEW g \in HostGraphs
    PROVE  Filled(list, g) \in Seq(DockerCmds)
<1>1. DOMAIN list = 1..Len(list) /\ Len(list) \in Nat
  OBVIOUS
<1>2. \A i \in 1..Len(list) : list[i] \in DockerCmds
  BY <1>1
<1>3. Options(g) \in DockerCmds
  BY DEF DockerCmds
<1>4. Filled(list, g) \in [1..Len(list) -> DockerCmds]
  BY <1>1, <1>2, <1>3 DEF Filled
<1> QED
  BY <1>1, <1>4

(* Filling in a directory leaves no placeholder. *)
LEMMA FilledIsClean ==
    ASSUME NEW list \in Seq(DockerCmds), NEW g, g # NoGraph, g # Placeholder
    PROVE  Clean(Filled(list, g))
<1>1. DOMAIN Filled(list, g) = DOMAIN list
  BY DEF Filled
<1>2. ASSUME NEW i \in DOMAIN list PROVE Filled(list, g)[i].graph # Placeholder
  <2>1. list[i] \in DockerCmds
    OBVIOUS
  <2>2. CASE list[i] = Options(Placeholder)
    <3>1. Filled(list, g)[i] = Options(g)
      BY <2>2 DEF Filled
    <3> QED
      BY <3>1 DEF Options
  <2>3. CASE list[i] # Options(Placeholder)
    <3>1. Filled(list, g)[i] = list[i]
      BY <2>3 DEF Filled
    <3>2. list[i].graph # Placeholder
      BY <2>1, <2>3, GraphAssumption DEF DockerCmds, Options, Restarting
    <3> QED
      BY <3>1, <3>2
  <2> QED
    BY <2>2, <2>3
<1> QED
  BY <1>1, <1>2 DEF Clean

LEMMA AppendIsClean ==
    ASSUME NEW list \in Seq(DockerCmds), NEW g \in HostGraphs
    PROVE  /\ Append(list, Options(g)) \in Seq(DockerCmds)
           /\ Clean(list) /\ g # Placeholder => Clean(Append(list, Options(g)))
<1>1. Options(g) \in DockerCmds /\ Options(g).graph = g
  BY DEF DockerCmds, Options
<1>2. Append(list, Options(g)) \in Seq(DockerCmds)
  BY <1>1
<1>3. DOMAIN Append(list, Options(g)) = 1..(Len(list) + 1) /\ DOMAIN list = 1..Len(list) /\ Len(list) \in Nat
  BY <1>1
<1>4. \A i \in 1..Len(list) : Append(list, Options(g))[i] = list[i]
  BY <1>1
<1>5. Append(list, Options(g))[Len(list) + 1] = Options(g)
  BY <1>1
<1>6. \A i \in 1..(Len(list) + 1) : i \in 1..Len(list) \/ i = Len(list) + 1
  BY <1>3
<1> QED
  BY <1>1, <1>2, <1>3, <1>4, <1>5, <1>6 DEF Clean

LEMMA TailIsClean ==
    ASSUME NEW list \in Seq(DockerCmds), list # <<>>
    PROVE  /\ Head(list) \in DockerCmds /\ Tail(list) \in Seq(DockerCmds)
           /\ Clean(list) => Head(list).graph # Placeholder /\ Clean(Tail(list))
<1>1. DOMAIN list = 1..Len(list) /\ Len(list) \in Nat \ {0} /\ Head(list) = list[1]
  OBVIOUS
<1>2. Tail(list) \in Seq(DockerCmds) /\ DOMAIN Tail(list) = 1..(Len(list) - 1)
  BY <1>1
<1>3. \A i \in 1..(Len(list) - 1) : Tail(list)[i] = list[i + 1]
  BY <1>1
<1>4. \A i \in 1..(Len(list) - 1) : i + 1 \in 1..Len(list)
  BY <1>1
<1>5. Clean(list) => Clean(Tail(list))
  BY <1>1, <1>2, <1>3, <1>4 DEF Clean
<1>6. 1 \in 1..Len(list)
  BY <1>1
<1>7. Clean(list) => Head(list).graph # Placeholder
  BY <1>1, <1>6 DEF Clean
<1> QED
  BY <1>1, <1>2, <1>5, <1>7

LEMMA GraphType == \A h \in DockerHosts : GraphOf[h] \in HostGraphs /\ GraphOf[h] # Placeholder
BY GraphAssumption

(* What a goroutine makes of the list. *)
LEMMA EditType ==
    ASSUME DockerTypeOK, NEW h \in DockerHosts, dg[h].pc \in {"fill", "append", "percent"}
    PROVE  /\ Edit(h) \in Seq(DockerCmds)
           /\ GraphOf[h] # NoGraph /\ (dg[h].pc # "fill" => Clean(cmdList)) => Clean(Edit(h))
<1> USE GraphType
<1>1. cmdList \in Seq(DockerCmds)
  BY DEF DockerTypeOK
<1>2. CASE dg[h].pc = "fill"
  <2>1. Edit(h) = Filled(cmdList, GraphOf[h])
    BY <1>2 DEF Edit
  <2> QED
    BY <1>1, <1>2, <2>1, FilledType, FilledIsClean
<1>3. CASE dg[h].pc = "append"
  <2>1. Edit(h) = Append(cmdList, Options(GraphOf[h]))
    BY <1>3 DEF Edit
  <2> QED
    BY <1>1, <1>3, <2>1, AppendIsClean
<1>4. CASE dg[h].pc = "percent"
  BY <1>1, <1>4 DEF Edit
<1> QED
  BY <1>2, <1>3, <1>4

LEMMA DockerInitInv == DockerInit => DockerInv
<1> SUFFICES ASSUME DockerInit PROVE DockerInv
  OBVIOUS
<1>1. <<>> \in Seq(DockerCmds)
  OBVIOUS
<1>2. DefaultGraph \in HostGraphs \cup {NoGraph, Placeholder} /\ DefaultGraph # Placeholder
  BY GraphAssumption DEF HostGraphs
<1>3. DockerTypeOK
  BY <1>1, <1>2, FileListType DEF DockerInit, DockerTypeOK
<1>4. ListFilled
  BY <1>2 DEF DockerInit, ListFilled, Past
<1>5. CopyHeld
  BY DEF DockerInit, CopyHeld
<1> QED
  BY <1>3, <1>4, <1>5 DEF DockerInv

(* Every step of the spawner, of a goroutine and of a host preserves it.   *)
LEMMA DockerStepInv == DockerInv /\ [DockerNext]_dockerVars => DockerInv'
<1> SUFFICES ASSUME DockerInv, [DockerNext]_dockerVars PROVE DockerInv'
  OBVIOUS
<1> USE DEF DockerInv
<1>0. AllHaveGraphs' = AllHaveGraphs
  BY DEF AllHaveGraphs
<1>1. ASSUME NEW mode \in {"install", "extend"}, Apply(mode) PROVE DockerInv'
  <2>1. cmdList' \in Seq(DockerCmds)
    BY <1>1, FileListType, FilledType DEF Apply, HostGraphs
  <2>2. mode = "extend" => Clean(cmdList')
    BY <1>1, FileListType, FilledIsClean, GraphAssumption DEF Apply
  <2>3. \A h \in DockerHosts : dg'[h].pc = "spawned" /\ dg'[h].read = dg[h].read /\ dg'[h].list = dg[h].list
    BY <1>1 DEF Apply, DockerTypeOK
  <2>4. DockerTypeOK'
    BY <1>1, <2>1 DEF Apply, DockerTypeOK
  <2>5. ListFilled => ListFilled'
    BY <1>1, <2>2, <2>3 DEF Apply, ListFilled, Past
  <2>6. CopyHeld'
    <3>1. \A h \in DockerHosts : dg[h].pc = "off" /\ ~dg[h].read
      BY <1>1 DEF Apply, CopyHeld
    <3>2. dockerMode' = mode
      BY <1>1 DEF Apply
    <3> QED
      BY <2>3, <3>1, <3>2 DEF CopyHeld
  <2> QED
    BY <1>0, <2>4, <2>5, <2>6
<1>2. ASSUME NEW h \in DockerHosts, Enter(h) PROVE DockerInv'
  <2>1. DockerTypeOK'
    BY <1>2, ZenonT(60) DEF Enter, DockerTypeOK
  <2>2. dockerMode \in {"", "install", "extend"}
    BY DEF DockerTypeOK
  <2>3. ListFilled => ListFilled'
    <3>1. dockerMode # "" /\ ~dg[h].read
      BY <1>2 DEF Enter, CopyHeld
    <3>2. \A k \in DockerHosts \ {h} : dg'[k] = dg[k]
      BY <1>2 DEF Enter, DockerTypeOK
    <3>3. dg'[h].pc = (IF dockerMode = "install" THEN "fill" ELSE "append") /\ dg'[h].read = dg[h].read
      BY <1>2 DEF Enter, DockerTypeOK
    <3>4. UNCHANGED <<cmdList, dockerMode, dockerConf, daemon>>
      BY <1>2 DEF Enter
    <3> QED
      BY <2>2, <3>1, <3>2, <3>3, <3>4 DEF ListFilled, Past
  <2>4. CopyHeld'
    BY <1>2 DEF Enter, CopyHeld, DockerTypeOK
  <2> QED
    BY <1>0, <2>1, <2>3, <2>4
<1>3. ASSUME NEW h \in DockerHosts, ReadList(h) PROVE DockerInv'
  <2>1. dg[h].pc \in {"fill", "append", "percent"}
    BY <1>3 DEF ReadList
  <2>2. dg' = [dg EXCEPT ![h].read = TRUE, ![h].list = Edit(h)]
        /\ UNCHANGED <<cmdList, dockerMode, dockerConf, daemon, together>>
    BY <1>3 DEF ReadList
  <2>3. Edit(h) \in Seq(DockerCmds)
    BY <2>1, EditType
  <2>4. DockerTypeOK'
    BY <2>2, <2>3, ZenonT(60) DEF DockerTypeOK
  <2>5. AllHaveGraphs /\ ListFilled => Clean(Edit(h))
    BY <2>1, EditType DEF AllHaveGraphs, ListFilled, Past
  <2>6. \A k \in DockerHosts \ {h} : dg'[k] = dg[k]
    BY <2>2 DEF DockerTypeOK
  <2>7. dg'[h].pc = dg[h].pc /\ dg'[h].list = Edit(h) /\ dg'[h].read
    BY <2>2 DEF DockerTypeOK
  <2>8. AllHaveGraphs /\ ListFilled => ListFilled'
    BY <2>1, <2>2, <2>5, <2>6, <2>7 DEF ListFilled
  <2>9. CopyHeld'
    BY <2>1, <2>2, <2>6, <2>7 DEF CopyHeld
  <2> QED
    BY <1>0, <2>4, <2>8, <2>9
<1>4. ASSUME NEW h \in DockerHosts, StoreList(h) PROVE DockerInv'
  <2>1. dg[h].read /\ cmdList' = dg[h].list /\ UNCHANGED <<dockerMode, dockerConf, daemon, together>>
        /\ dg' = [dg EXCEPT ![h] = [pc |-> NextStage(@.pc), read |-> FALSE, list |-> <<>>]]
    BY <1>4 DEF StoreList
  <2>2. dg[h].pc \in {"fill", "append", "percent"} /\ (ListFilled => Clean(cmdList'))
    BY <2>1 DEF ListFilled, CopyHeld
  <2>3. \A k \in DockerHosts \ {h} : dg'[k] = dg[k]
    BY <2>1 DEF DockerTypeOK
  <2>4. dg'[h] = [pc |-> NextStage(dg[h].pc), read |-> FALSE, list |-> <<>>]
    BY <2>1 DEF DockerTypeOK
  <2>5. NextStage(dg[h].pc) \in {"append", "percent", "send"}
    BY <2>2 DEF NextStage
  <2>6. ListFilled => ListFilled'
    BY <2>1, <2>2, <2>3, <2>4, <2>5 DEF ListFilled, DockerTypeOK
  <2>7. DockerTypeOK'
    <3>0. <<>> \in Seq(DockerCmds)
      OBVIOUS
    <3>1. dg[h].list \in Seq(DockerCmds)
      BY DEF DockerTypeOK
    <3>2. [pc |-> NextStage(dg[h].pc), read |-> FALSE, list |-> <<>>]
            \in [pc : {"off", "spawned", "fill", "append", "percent", "send", "sending",
                       "done", "failed"},
                 read : BOOLEAN, list : Seq(DockerCmds)]
      BY <2>5, <3>0
    <3> QED
      BY <2>1, <3>1, <3>2 DEF DockerTypeOK
  <2>8. CopyHeld'
    <3>1. dockerMode # ""
      BY <2>2 DEF CopyHeld
    <3>2. ~dg'[h].read
      BY <2>4
    <3> QED
      BY <2>1, <2>3, <3>1, <3>2 DEF CopyHeld
  <2> QED
    BY <1>0, <2>6, <2>7, <2>8
<1>5. ASSUME NEW h \in DockerHosts, SendList(h) PROVE DockerInv'
  <2>1. DockerTypeOK'
    BY <1>5, ZenonT(60) DEF SendList, DockerTypeOK
  <2>2. ListFilled => ListFilled'
    BY <1>5 DEF SendList, ListFilled, Past, DockerTypeOK
  <2>3. CopyHeld'
    BY <1>5 DEF SendList, CopyHeld, DockerTypeOK
  <2> QED
    BY <1>0, <2>1, <2>2, <2>3
<1>6. ASSUME NEW h \in DockerHosts, HostRuns(h) PROVE DockerInv'
  <2> DEFINE c == Head(dg[h].list)
  <2>1. dg[h].pc = "sending" /\ dg[h].list \in Seq(DockerCmds) /\ dg[h].list # <<>>
    BY <1>6 DEF HostRuns, DockerTypeOK
  <2>2. c \in DockerCmds /\ Tail(dg[h].list) \in Seq(DockerCmds)
    BY <2>1, TailIsClean
  <2>3. ListFilled => c.graph # Placeholder /\ Clean(Tail(dg[h].list))
    BY <2>1, TailIsClean DEF ListFilled
  <2>4. c.restart \in BOOLEAN /\ c.graph \in HostGraphs \cup {NoGraph, Placeholder}
    BY <2>2, CmdType
  <2>5. /\ daemon' = IF c.restart THEN [daemon EXCEPT ![h] = dockerConf[h]] ELSE daemon
        /\ dockerConf' = IF c.restart THEN dockerConf ELSE [dockerConf EXCEPT ![h] = c.graph]
        /\ dg' = [dg EXCEPT ![h].list = Tail(dg[h].list)]
        /\ UNCHANGED <<cmdList, dockerMode, together>>
    BY <1>6 DEF HostRuns, DockerTypeOK
  <2> HIDE DEF c
  <2>6. DockerTypeOK'
    BY <2>2, <2>4, <2>5 DEF DockerTypeOK
  <2>7. \A k \in DockerHosts : dg'[k].pc = dg[k].pc /\ (dg'[k].read <=> dg[k].read)
                               /\ dg'[k].list = IF k = h THEN Tail(dg[h].list) ELSE dg[k].list
    BY <2>5 DEF DockerTypeOK
  <2>8. ListFilled => \A k \in DockerHosts : Placeholder \notin {dockerConf'[k], daemon'[k]}
    BY <2>3, <2>4, <2>5 DEF DockerTypeOK, ListFilled
  <2>9. ListFilled => ListFilled'
    <3>1. ListFilled => \A k \in DockerHosts :
            dg'[k].read \/ dg'[k].pc = "sending" => Clean(dg'[k].list)
      BY <2>3, <2>7 DEF ListFilled
    <3> QED
      BY <2>5, <2>7, <2>8, <3>1 DEF ListFilled
  <2>10. CopyHeld'
    BY <2>5, <2>7 DEF CopyHeld
  <2> QED
    BY <1>0, <2>6, <2>9, <2>10
<1>7. ASSUME NEW h \in DockerHosts, CommandFails(h) PROVE DockerInv'
  <2>1. DockerTypeOK'
    BY <1>7 DEF CommandFails, DockerTypeOK
  <2>2. ListFilled => ListFilled'
    BY <1>7 DEF CommandFails, ListFilled, Past, DockerTypeOK
  <2>3. CopyHeld'
    BY <1>7 DEF CommandFails, CopyHeld, DockerTypeOK
  <2> QED
    BY <1>0, <2>1, <2>2, <2>3
<1>8. ASSUME NEW h \in DockerHosts, Applied(h) PROVE DockerInv'
  <2>1. DockerTypeOK'
    BY <1>8 DEF Applied, DockerTypeOK
  <2>2. ListFilled => ListFilled'
    BY <1>8 DEF Applied, ListFilled, Past, DockerTypeOK
  <2>3. CopyHeld'
    BY <1>8 DEF Applied, CopyHeld, DockerTypeOK
  <2> QED
    BY <1>0, <2>1, <2>2, <2>3
<1>9. CASE UNCHANGED dockerVars
  BY <1>9 DEF dockerVars, DockerTypeOK, AllHaveGraphs, ListFilled, CopyHeld, Clean
<1> QED
  BY <1>1, <1>2, <1>3, <1>4, <1>5, <1>6, <1>7, <1>8, <1>9 DEF DockerNext

(* The variables keep their types. *)
THEOREM DockerTypeCorrect == DockerSpec => []DockerTypeOK
<1>1. DockerInv => DockerTypeOK
  BY DEF DockerInv
<1> QED
  BY <1>1, DockerInitInv, DockerStepInv, PTL DEF DockerSpec

(* $(GRAPH_PATH) never gets into the configuration of a host, whatever the *)
(* order in which the goroutines of any number of hosts read and store the *)
(* list, if every host has a directory of its own or by default.           *)
THEOREM NoHostGetsPlaceholder == DockerSpec => []PlaceholderStaysHome
<1>1. DockerInv => PlaceholderStaysHome
  BY DEF DockerInv, AllHaveGraphs, ListFilled, PlaceholderStaysHome
<1> QED
  BY <1>1, DockerInitInv, DockerStepInv, PTL DEF DockerSpec

(***************************************************************************)
(* The directory of each host, when no two goroutines worked on the list   *)
(* at a time. The one that works on it has put its own options at the end, *)
(* and from the sending on its host works through a copy that ends so: the *)
(* commands of the hosts before it, which are in the list too, come first. *)
(***************************************************************************)
EndsWith(list, g) == list # <<>> /\ list[Len(list)] = Options(g)

OwnIsLast ==
    /\ \A h, k \in Building : h = k
    /\ \A h \in DockerHosts :
         /\ dg[h].pc \in {"percent", "send"} => EndsWith(cmdList, GraphOf[h])
         /\ dg[h].pc \in {"append", "percent"} /\ dg[h].read => EndsWith(dg[h].list, GraphOf[h])
         /\ dg[h].pc = "sending" =>
              IF dg[h].list = <<>> THEN dockerConf[h] = GraphOf[h]
              ELSE EndsWith(dg[h].list, GraphOf[h])
         /\ dg[h].pc = "done" => dockerConf[h] = GraphOf[h]

OwnInv == DockerTypeOK /\ CopyHeld /\ (~together => OwnIsLast)

LEMMA AppendEnds ==
    ASSUME NEW list \in Seq(DockerCmds), NEW g \in HostGraphs
    PROVE  EndsWith(Append(list, Options(g)), g)
<1>1. Options(g) \in DockerCmds
  BY DEF DockerCmds
<1>2. /\ Len(Append(list, Options(g))) = Len(list) + 1
      /\ Append(list, Options(g))[Len(list) + 1] = Options(g)
      /\ Append(list, Options(g)) # <<>>
  BY <1>1
<1> QED
  BY <1>2 DEF EndsWith

LEMMA TailEnds ==
    ASSUME NEW list \in Seq(DockerCmds), NEW g, EndsWith(list, g)
    PROVE  IF Tail(list) = <<>> THEN Head(list) = Options(g) ELSE EndsWith(Tail(list), g)
<1>1. list # <<>> /\ list[Len(list)] = Options(g)
  BY DEF EndsWith
<1>2. /\ Len(list) \in Nat \ {0} /\ Head(list) = list[1]
      /\ Tail(list) \in Seq(DockerCmds) /\ Len(Tail(list)) = Len(list) - 1
  BY <1>1
<1>3. CASE Tail(list) = <<>>
  <2>1. Len(Tail(list)) = 0
    BY <1>2, <1>3
  <2> DEFINE n == Len(list)
             m == Len(Tail(list))
  <2>2. n \in Nat /\ m = n - 1 /\ m = 0
    BY <1>2, <2>1
  <2> HIDE DEF n, m
  <2>3. n = 1
    BY <2>2
  <2>4. Len(list) = 1
    BY <2>3 DEF n
  <2> QED
    BY <1>1, <1>2, <1>3, <2>4
<1>4. CASE Tail(list) # <<>>
  <2>1. Len(Tail(list)) \in 1..(Len(list) - 1)
    BY <1>2, <1>4
  <2>2. Tail(list)[Len(Tail(list))] = list[Len(Tail(list)) + 1]
    BY <1>1, <1>2, <2>1
  <2>3. Len(Tail(list)) + 1 = Len(list)
    BY <1>2
  <2> QED
    BY <1>1, <1>4, <2>2, <2>3 DEF EndsWith
<1> QED
  BY <1>3, <1>4

(* What the invariant says of a host is about its goroutine, its           *)
(* configuration and the list: a step that leaves these alone keeps it.    *)
LEMMA OwnStepInv == DockerInv /\ OwnInv /\ [DockerNext]_dockerVars => (~together' => OwnIsLast')
<1> SUFFICES ASSUME DockerInv, OwnInv, [DockerNext]_dockerVars, ~together' PROVE OwnIsLast'
  OBVIOUS
<1> USE DEF OwnInv, DockerTypeOK
<1>0. ~together
  BY DEF dockerVars, DockerNext, Apply, Enter, ReadList, StoreList, SendList, HostRuns,
         CommandFails, Applied
<1>1. OwnIsLast
  BY <1>0
<1>2. ASSUME NEW mode \in {"install", "extend"}, Apply(mode) PROVE OwnIsLast'
  <2>1. \A h \in DockerHosts : dg'[h].pc = "spawned"
    BY <1>2 DEF Apply
  <2> QED
    BY <2>1 DEF OwnIsLast, Building
<1>3. ASSUME NEW h \in DockerHosts, Enter(h) PROVE OwnIsLast'
  <2>1. Building = {}
    BY <1>3 DEF Enter
  <2>2. /\ \A k \in DockerHosts : k # h => dg'[k] = dg[k]
        /\ dg'[h].pc \in {"fill", "append"} /\ ~dg'[h].read
    BY <1>3 DEF Enter, CopyHeld
  <2> QED
    BY <1>1, <1>3, <2>1, <2>2 DEF Enter, OwnIsLast, Building
<1>4. ASSUME NEW h \in DockerHosts, ReadList(h) PROVE OwnIsLast'
  <2>1. dg' = [dg EXCEPT ![h].read = TRUE, ![h].list = Edit(h)]
    BY <1>4 DEF ReadList
  <2>2. \A k \in DockerHosts : dg'[k].pc = dg[k].pc /\ (k # h => dg'[k] = dg[k])
    BY <2>1
  <2>3. dg'[h].list = Edit(h)
    BY <2>1, <1>4, EditType DEF ReadList
  <2>4. dg[h].pc = "append" => EndsWith(Edit(h), GraphOf[h])
    BY AppendEnds, GraphType DEF Edit
  <2>5. dg[h].pc = "percent" => EndsWith(Edit(h), GraphOf[h])
    BY <1>1 DEF Edit, OwnIsLast
  <2>6. dg[h].pc # "sending" /\ UNCHANGED <<cmdList, dockerConf>>
    BY <1>4 DEF ReadList
  <2>7. Building' = Building
    BY <2>2 DEF Building
  <2> QED
    BY <1>1, <2>2, <2>3, <2>4, <2>5, <2>6, <2>7, ZenonT(60) DEF OwnIsLast
<1>5. ASSUME NEW h \in DockerHosts, StoreList(h) PROVE OwnIsLast'
  <2>1. /\ dg' = [dg EXCEPT ![h] = [pc |-> NextStage(dg[h].pc), read |-> FALSE, list |-> <<>>]]
        /\ cmdList' = dg[h].list /\ UNCHANGED dockerConf
        /\ dg[h].read /\ dg[h].pc \in {"fill", "append", "percent"}
    BY <1>5 DEF StoreList, CopyHeld
  <2>2. NextStage(dg[h].pc) \in {"append", "percent", "send"}
        /\ (NextStage(dg[h].pc) # "append" => dg[h].pc \in {"append", "percent"})
    <3>1. dg[h].pc = "fill" => NextStage(dg[h].pc) = "append"
      BY DEF NextStage
    <3>2. dg[h].pc = "append" => NextStage(dg[h].pc) = "percent"
      BY DEF NextStage
    <3>3. dg[h].pc = "percent" => NextStage(dg[h].pc) = "send"
      BY DEF NextStage
    <3> QED
      BY <2>1, <3>1, <3>2, <3>3
  <2>3. \A k \in DockerHosts : k # h => dg'[k] = dg[k] /\ k \notin Building
    BY <1>1, <2>1 DEF OwnIsLast, Building
  <2>4. dg'[h].pc = NextStage(dg[h].pc) /\ ~dg'[h].read
    BY <2>1
  <2> HIDE DEF NextStage
  <2>5. dg'[h].pc \in {"percent", "send"} => EndsWith(cmdList', GraphOf[h])
    BY <1>1, <2>1, <2>2, <2>4 DEF OwnIsLast
  <2>6. \A k \in Building' : k = h
    BY <2>3 DEF Building
  <2> QED
    BY <1>1, <2>1, <2>2, <2>3, <2>4, <2>5, <2>6, ZenonT(60) DEF OwnIsLast, Building
<1>6. ASSUME NEW h \in DockerHosts, SendList(h) PROVE OwnIsLast'
  <2>1. /\ dg' = [dg EXCEPT ![h].pc = "sending", ![h].list = cmdList]
        /\ dg[h].pc = "send" /\ UNCHANGED <<cmdList, dockerConf>>
    BY <1>6 DEF SendList
  <2>2. /\ \A k \in DockerHosts : k # h => dg'[k] = dg[k]
        /\ dg'[h].pc = "sending" /\ dg'[h].list = cmdList
    BY <2>1
  <2>3. EndsWith(cmdList, GraphOf[h])
    BY <1>1, <2>1 DEF OwnIsLast
  <2>4. Building' \subseteq Building
    BY <2>2 DEF Building
  <2>5. cmdList # <<>>
    BY <2>3 DEF EndsWith
  <2> QED
    BY <1>1, <2>1, <2>2, <2>3, <2>4, <2>5 DEF OwnIsLast
<1>7. ASSUME NEW h \in DockerHosts, HostRuns(h) PROVE OwnIsLast'
  <2> DEFINE c == Head(dg[h].list)
  <2>1. /\ dockerConf' = IF c.restart THEN dockerConf ELSE [dockerConf EXCEPT ![h] = c.graph]
        /\ dg' = [dg EXCEPT ![h].list = Tail(dg[h].list)]
        /\ UNCHANGED cmdList
        /\ dg[h].pc = "sending" /\ dg[h].list # <<>>
    BY <1>7 DEF HostRuns
  <2>2. EndsWith(dg[h].list, GraphOf[h])
    BY <1>1, <2>1 DEF OwnIsLast
  <2>3. IF Tail(dg[h].list) = <<>> THEN c = Options(GraphOf[h])
        ELSE EndsWith(Tail(dg[h].list), GraphOf[h])
    BY <2>2, TailEnds
  <2> HIDE DEF c
  <2>4. /\ \A k \in DockerHosts : k # h => dg'[k] = dg[k] /\ dockerConf'[k] = dockerConf[k]
        /\ dg'[h].pc = "sending" /\ dg'[h].list = Tail(dg[h].list)
    BY <2>1
  <2>5. ASSUME c = Options(GraphOf[h]) PROVE dockerConf'[h] = GraphOf[h]
    <3>1. c.restart = FALSE /\ c.graph = GraphOf[h]
      BY <2>5 DEF Options
    <3> QED
      BY <2>1, <3>1
  <2>6. Building' = Building
    BY <2>1, <2>4 DEF Building
  <2> QED
    BY <1>1, <2>1, <2>3, <2>4, <2>5, <2>6 DEF OwnIsLast
<1>8. ASSUME NEW h \in DockerHosts, CommandFails(h) \/ Applied(h) PROVE OwnIsLast'
  <2>1. /\ \A k \in DockerHosts : k # h => dg'[k] = dg[k]
        /\ dg'[h].pc \in {"failed", "done"} /\ UNCHANGED <<cmdList, dockerConf>>
        /\ dg'[h].pc = "done" => dg[h].pc = "sending" /\ dg[h].list = <<>>
    BY <1>8 DEF CommandFails, Applied
  <2>2. Building' \subseteq Building
    BY <2>1 DEF Building
  <2> QED
    BY <1>1, <2>1, <2>2 DEF OwnIsLast
<1>9. CASE UNCHANGED dockerVars
  BY <1>1, <1>9 DEF dockerVars, OwnIsLast, Building
<1> QED
  BY <1>2, <1>3, <1>4, <1>5, <1>6, <1>7, <1>8, <1>9 DEF DockerNext

(* A host whose goroutine met no other one over the shared list ends with  *)
(* its own directory in docker's configuration, not with that of a host    *)
(* before it, whose options the list still has.                            *)
THEOREM UnracedHostsGetTheirOwn == DockerSpec => []ConfIsOwnWithoutRaces
<1>1. DockerInit => OwnInv
  <2>1. DockerInit => DockerTypeOK /\ CopyHeld
    BY DockerInitInv DEF DockerInv
  <2>2. DockerInit => OwnIsLast
    <3>1. SUFFICES ASSUME DockerInit PROVE OwnIsLast
      OBVIOUS
    <3>2. \A h \in DockerHosts : dg[h].pc = "off" /\ ~dg[h].read
      BY <3>1 DEF DockerInit
    <3>3. Building = {}
      BY <3>2 DEF Building
    <3> QED
      BY <3>2, <3>3 DEF OwnIsLast
  <2> QED
    BY <2>1, <2>2 DEF OwnInv
<1>2. DockerInv /\ OwnInv /\ [DockerNext]_dockerVars => OwnInv'
  BY DockerStepInv, OwnStepInv DEF DockerInv, OwnInv
<1>3. OwnInv => ConfIsOwnWithoutRaces
  BY DEF OwnInv, OwnIsLast, ConfIsOwnWithoutRaces
<1> QED
  BY <1>1, <1>2, <1>3, DockerInitInv, DockerStepInv, PTL DEF DockerSpec
=============================================================================
