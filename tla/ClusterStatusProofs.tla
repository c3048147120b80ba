------------------------ MODULE ClusterStatusProofs ------------------------
(***************************************************************************)
(* The cluster status and step 9, for every set of hosts, jobs and plans   *)
(* and every bound. The programs of the jobs are first turned into a table *)
(* of places, and each action is shown to be taken at its places only and  *)
(* to lead to the next one; the invariants speak of places. StatusInv, at  *)
(* the end, is their conjunction; the theorems follow from it.             *)
(***************************************************************************)
EXTENDS K8sModules, TLAPS

AllKinds == {"yum", "rpms", "docker", "dockerGiven", "etcd", "master",
             "join", "joinEX", "remove", "ceph", "k8s"}

(* A place is a kind of job and a position in its program.                 *)
Place(rec) == <<rec.kind, rec.at>>

SavePlaces == {<<"yum", 4>>, <<"rpms", 3>>, <<"docker", 4>>, <<"etcd", 2>>, <<"master", 3>>,
               <<"join", 3>>, <<"joinEX", 4>>, <<"remove", 3>>, <<"ceph", 4>>}
MasterLogins == {<<"master", 2>>}
JoinLogins == {<<"join", 2>>, <<"joinEX", 3>>}
AppendPlaces == {<<"join", 1>>, <<"joinEX", 1>>}
LostPlaces == {<<"joinEX", 2>>}
RemovePlaces == {<<"remove", 1>>, <<"remove", 2>>}
DurablePlaces == {<<"yum", 3>>, <<"docker", 3>>, <<"etcd", 1>>, <<"ceph", 3>>}
QuitPlaces == {<<"yum", 2>>, <<"docker", 2>>, <<"docker", 6>>, <<"dockerGiven", 2>>, <<"ceph", 2>>}
OtherSets == {<<"yum", 1>>, <<"docker", 1>>, <<"docker", 5>>, <<"docker", 7>>,
              <<"dockerGiven", 1>>, <<"dockerGiven", 3>>, <<"ceph", 1>>}
LastPlaces == {<<"yum", 4>>, <<"rpms", 3>>, <<"docker", 7>>, <<"dockerGiven", 3>>, <<"etcd", 2>>,
               <<"master", 3>>, <<"join", 3>>, <<"joinEX", 4>>, <<"remove", 3>>, <<"ceph", 4>>,
               <<"k8s", 1>>}

(* The name and the field of a statement. *)
LEMMA StatementFields ==
    /\ \A o, f : Op(o, f).op = o /\ Op(o, f).field = f
    /\ Quit.op = "quit" /\ Quit.field = "" /\ Save.op = "save" /\ Save.field = ""
    /\ \A f : Set(f).op = "set" /\ Set(f).field = f
BY DEF Op, Quit, Save, Set

(* The program of each kind. *)
LEMMA ProgramOf ==
    /\ Program("yum") = Yum /\ Program("rpms") = Rpms /\ Program("docker") = Docker
    /\ Program("dockerGiven") = DockerGiven /\ Program("etcd") = Etcd
    /\ Program("master") = Master /\ Program("join") = Join /\ Program("joinEX") = JoinEX
    /\ Program("remove") = Remove /\ Program("ceph") = Ceph /\ Program("k8s") = K8sMod
BY Zenon DEF Program

(* What is done where, read off the programs. *)
StatementAt(s, p) ==
    \/ s.op = "save" /\ p \in SavePlaces
    \/ s.op = "masters" /\ p = <<"master", 1>>
    \/ s.op = "logins" /\ s.field = "keep" /\ p \in MasterLogins
    \/ s.op = "logins" /\ s.field = "make" /\ p \in JoinLogins
    \/ s.op = "append" /\ p \in AppendPlaces
    \/ s.op = "quitIfLost" /\ p \in LostPlaces
    \/ s.op = "forget" /\ p = <<"remove", 1>>
    \/ s.op = "replace" /\ p = <<"remove", 2>>
    \/ s.op = "apps" /\ p = <<"k8s", 1>>
    \/ s.op = "unless" /\ s.field = "entry" /\ p = <<"rpms", 1>>
    \/ s.op = "set" /\ s.field = "entry" /\ p = <<"rpms", 2>>
    \/ s.op = "set" /\ s.field \in Durable \ {"entry"} /\ p \in DurablePlaces
    \/ s.op \in {"set", "maybe"} /\ s.field \in Fields \ Durable /\ p \in OtherSets
    \/ s.op = "quit" /\ p \in QuitPlaces
    \/ s.op = "quitSetting" /\ s.field \in Fields \ Durable /\ p \in QuitPlaces

LEMMA StatementsOf ==
    /\ \A p \in SavePlaces : StatementAt(Save, p)
    /\ \A p \in QuitPlaces : StatementAt(Quit, p)
    /\ \A p \in QuitPlaces, f \in Fields \ Durable : StatementAt(Op("quitSetting", f), p)
    /\ \A p \in OtherSets, f \in Fields \ Durable :
         StatementAt(Set(f), p) /\ StatementAt(Op("maybe", f), p)
    /\ \A p \in DurablePlaces, f \in Durable \ {"entry"} : StatementAt(Set(f), p)
    /\ StatementAt(Op("unless", "entry"), <<"rpms", 1>>)
    /\ StatementAt(Set("entry"), <<"rpms", 2>>)
    /\ StatementAt(Op("masters", ""), <<"master", 1>>)
    /\ \A p \in MasterLogins : StatementAt(Op("logins", "keep"), p)
    /\ \A p \in JoinLogins : StatementAt(Op("logins", "make"), p)
    /\ \A p \in AppendPlaces : StatementAt(Op("append", ""), p)
    /\ \A p \in LostPlaces : StatementAt(Op("quitIfLost", ""), p)
    /\ StatementAt(Op("forget", ""), <<"remove", 1>>)
    /\ StatementAt(Op("replace", ""), <<"remove", 2>>)
    /\ StatementAt(Op("apps", ""), <<"k8s", 1>>)
<1>1. \A p \in SavePlaces : StatementAt(Save, p)
  BY StatementFields DEF StatementAt
<1>2. \A p \in QuitPlaces : StatementAt(Quit, p)
  BY StatementFields DEF StatementAt
<1>3. ASSUME NEW p \in QuitPlaces, NEW f \in Fields \ Durable
      PROVE  StatementAt(Op("quitSetting", f), p)
  <2>1. Op("quitSetting", f).op = "quitSetting" /\ Op("quitSetting", f).field \in Fields \ Durable
    BY DEF Op, Set
  <2> QED  BY <2>1 DEF StatementAt
<1>4. ASSUME NEW p \in OtherSets, NEW f \in Fields \ Durable
      PROVE  StatementAt(Set(f), p) /\ StatementAt(Op("maybe", f), p)
  <2>1. Set(f).op \in {"set", "maybe"} /\ Set(f).field \in Fields \ Durable
    BY DEF Op, Set
  <2>2. Op("maybe", f).op \in {"set", "maybe"} /\ Op("maybe", f).field \in Fields \ Durable
    BY DEF Op, Set
  <2>3. StatementAt(Set(f), p)  BY <2>1 DEF StatementAt
  <2>4. StatementAt(Op("maybe", f), p)  BY <2>2 DEF StatementAt
  <2> QED  BY <2>3, <2>4
<1>5. \A p \in DurablePlaces, f \in Durable \ {"entry"} : StatementAt(Set(f), p)
  BY StatementFields DEF StatementAt
<1>6. StatementAt(Op("unless", "entry"), <<"rpms", 1>>)
  BY StatementFields, ZenonT(60) DEF StatementAt
<1>7. StatementAt(Set("entry"), <<"rpms", 2>>)
  BY StatementFields DEF StatementAt
<1>8. StatementAt(Op("masters", ""), <<"master", 1>>)
  BY StatementFields DEF StatementAt
<1>9. \A p \in MasterLogins : StatementAt(Op("logins", "keep"), p)
  BY StatementFields DEF StatementAt
<1>10. \A p \in JoinLogins : StatementAt(Op("logins", "make"), p)
  BY StatementFields DEF StatementAt
<1>11. \A p \in AppendPlaces : StatementAt(Op("append", ""), p)
  BY StatementFields DEF StatementAt
<1>12. \A p \in LostPlaces : StatementAt(Op("quitIfLost", ""), p)
  BY StatementFields DEF StatementAt
<1>13. StatementAt(Op("forget", ""), <<"remove", 1>>)
  BY StatementFields DEF StatementAt
<1>14. StatementAt(Op("replace", ""), <<"remove", 2>>)
  BY StatementFields DEF StatementAt
<1>15. StatementAt(Op("apps", ""), <<"k8s", 1>>)
  BY StatementFields DEF StatementAt
<1> QED  BY <1>1, <1>2, <1>3, <1>4, <1>5, <1>6, <1>7, <1>8, <1>9, <1>10, <1>11,
            <1>12, <1>13, <1>14, <1>15

LEMMA FieldSorts ==
    /\ {"yumHost", "storage", "registryHost", "useSwap", "deploy"} \subseteq Fields \ Durable
    /\ {"yumRepo", "registry", "etcd", "ceph"} \subseteq Durable \ {"entry"}
    /\ Durable \subseteq Fields
BY DEF Fields, Durable

LEMMA ProgramTable ==
    ASSUME NEW kind \in AllKinds, NEW i \in 1..Len(Program(kind))
    PROVE  /\ StatementAt(Program(kind)[i], <<kind, i>>)
           /\ Len(Program(kind)) \in Nat \ {0}
           /\ (i = Len(Program(kind)) <=> <<kind, i>> \in LastPlaces)
<1>1. CASE kind = "yum"
  <2>1. Program(kind) = Yum  BY ProgramOf, <1>1
  <2>2. /\ Len(Yum) = 4 /\ Yum[1] = Op("maybe", "yumHost") /\ Yum[2] = Quit
        /\ Yum[3] = Set("yumRepo") /\ Yum[4] = Save
    BY DEF Yum
  <2>3. Len(Program(kind)) = 4  BY <2>1, <2>2
  <2>4. Len(Program(kind)) \in Nat \ {0} /\ i \in 1..4  BY <2>3
  <2>5. i = 1 \/ i = 2 \/ i = 3 \/ i = 4  BY <2>4
  <2>6. i = Len(Program(kind)) <=> <<kind, i>> \in LastPlaces  BY <2>3, <2>5, <1>1 DEF LastPlaces
  <2>7. StatementAt(Yum[1], <<"yum", 1>>)
    BY <2>2, StatementsOf, FieldSorts DEF OtherSets
  <2>8. StatementAt(Yum[2], <<"yum", 2>>)
    BY <2>2, StatementsOf DEF QuitPlaces
  <2>9. StatementAt(Yum[3], <<"yum", 3>>)
    BY <2>2, StatementsOf, FieldSorts DEF DurablePlaces
  <2>10. StatementAt(Yum[4], <<"yum", 4>>)
    BY <2>2, StatementsOf DEF SavePlaces
  <2>11. StatementAt(Program(kind)[i], <<kind, i>>)
    BY Zenon, <1>1, <2>1, <2>5, <2>7, <2>8, <2>9, <2>10
  <2> QED  BY <2>4, <2>6, <2>11
<1>2. CASE kind = "rpms"
  <2>1. Program(kind) = Rpms  BY ProgramOf, <1>2
  <2>2. /\ Len(Rpms) = 3 /\ Rpms[1] = Op("unless", "entry") /\ Rpms[2] = Set("entry")
        /\ Rpms[3] = Save
    BY DEF Rpms
  <2>3. Len(Program(kind)) = 3  BY <2>1, <2>2
  <2>4. Len(Program(kind)) \in Nat \ {0} /\ i \in 1..3  BY <2>3
  <2>5. i = 1 \/ i = 2 \/ i = 3  BY <2>4
  <2>6. i = Len(Program(kind)) <=> <<kind, i>> \in LastPlaces  BY <2>3, <2>5, <1>2 DEF LastPlaces
  <2>7. StatementAt(Rpms[1], <<"rpms", 1>>)
    BY <2>2, StatementsOf
  <2>8. StatementAt(Rpms[2], <<"rpms", 2>>)
    BY <2>2, StatementsOf, FieldSorts
  <2>9. StatementAt(Rpms[3], <<"rpms", 3>>)
    BY <2>2, StatementsOf DEF SavePlaces
  <2>10. StatementAt(Program(kind)[i], <<kind, i>>)
    BY Zenon, <1>2, <2>1, <2>5, <2>7, <2>8, <2>9
  <2> QED  BY <2>4, <2>6, <2>10
<1>3. CASE kind = "docker"
  <2>1. Program(kind) = Docker  BY ProgramOf, <1>3
  <2>2. /\ Len(Docker) = 7 /\ Docker[1] = Set("storage")
        /\ Docker[2] = Op("quitSetting", "registryHost") /\ Docker[3] = Set("registry")
        /\ Docker[4] = Save /\ Docker[5] = Set("registryHost") /\ Docker[6] = Quit
        /\ Docker[7] = Set("useSwap")
    BY DEF Docker
  <2>3. Len(Program(kind)) = 7  BY <2>1, <2>2
  <2>4. Len(Program(kind)) \in Nat \ {0} /\ i \in 1..7  BY <2>3
  <2>5. i = 1 \/ i = 2 \/ i = 3 \/ i = 4 \/ i = 5 \/ i = 6 \/ i = 7  BY <2>4
  <2>6. i = Len(Program(kind)) <=> <<kind, i>> \in LastPlaces  BY <2>3, <2>5, <1>3 DEF LastPlaces
  <2>7. StatementAt(Docker[1], <<"docker", 1>>)
    BY <2>2, StatementsOf, FieldSorts DEF OtherSets
  <2>8. StatementAt(Docker[2], <<"docker", 2>>)
    BY <2>2, StatementsOf, FieldSorts DEF QuitPlaces
  <2>9. StatementAt(Docker[3], <<"docker", 3>>)
    BY <2>2, StatementsOf, FieldSorts DEF DurablePlaces
  <2>10. StatementAt(Docker[4], <<"docker", 4>>)
    BY <2>2, StatementsOf DEF SavePlaces
  <2>11. StatementAt(Docker[5], <<"docker", 5>>)
    BY <2>2, StatementsOf, FieldSorts DEF OtherSets
  <2>12. StatementAt(Docker[6], <<"docker", 6>>)
    BY <2>2, StatementsOf DEF QuitPlaces
  <2>13. StatementAt(Docker[7], <<"docker", 7>>)
    BY <2>2, StatementsOf, FieldSorts DEF OtherSets
  <2>14. StatementAt(Program(kind)[i], <<kind, i>>)
    BY Zenon, <1>3, <2>1, <2>5, <2>7, <2>8, <2>9, <2>10, <2>11, <2>12, <2>13
  <2> QED  BY <2>4, <2>6, <2>14
<1>4. CASE kind = "dockerGiven"
  <2>1. Program(kind) = DockerGiven  BY ProgramOf, <1>4
  <2>2. /\ Len(DockerGiven) = 3 /\ DockerGiven[1] = Set("storage") /\ DockerGiven[2] = Quit
        /\ DockerGiven[3] = Set("useSwap")
    BY DEF DockerGiven
  <2>3. Len(Program(kind)) = 3  BY <2>1, <2>2
  <2>4. Len(Program(kind)) \in Nat \ {0} /\ i \in 1..3  BY <2>3
  <2>5. i = 1 \/ i = 2 \/ i = 3  BY <2>4
  <2>6. i = Len(Program(kind)) <=> <<kind, i>> \in LastPlaces  BY <2>3, <2>5, <1>4 DEF LastPlaces
  <2>7. StatementAt(DockerGiven[1], <<"dockerGiven", 1>>)
    BY <2>2, StatementsOf, FieldSorts DEF OtherSets
  <2>8. StatementAt(DockerGiven[2], <<"dockerGiven", 2>>)
    BY <2>2, StatementsOf DEF QuitPlaces
  <2>9. StatementAt(DockerGiven[3], <<"dockerGiven", 3>>)
    BY <2>2, StatementsOf, FieldSorts DEF OtherSets
  <2>10. StatementAt(Program(kind)[i], <<kind, i>>)
    BY Zenon, <1>4, <2>1, <2>5, <2>7, <2>8, <2>9
  <2> QED  BY <2>4, <2>6, <2>10
<1>5. CASE kind = "etcd"
  <2>1. Program(kind) = Etcd  BY ProgramOf, <1>5
  <2>2. Len(Etcd) = 2 /\ Etcd[1] = Set("etcd") /\ Etcd[2] = Save
    BY DEF Etcd
  <2>3. Len(Program(kind)) = 2  BY <2>1, <2>2
  <2>4. Len(Program(kind)) \in Nat \ {0} /\ i \in 1..2  BY <2>3
  <2>5. i = 1 \/ i = 2  BY <2>4
  <2>6. i = Len(Program(kind)) <=> <<kind, i>> \in LastPlaces  BY <2>3, <2>5, <1>5 DEF LastPlaces
  <2>7. StatementAt(Etcd[1], <<"etcd", 1>>)
    BY <2>2, StatementsOf, FieldSorts DEF DurablePlaces
  <2>8. StatementAt(Etcd[2], <<"etcd", 2>>)
    BY <2>2, StatementsOf DEF SavePlaces
  <2>9. StatementAt(Program(kind)[i], <<kind, i>>)
    BY Zenon, <1>5, <2>1, <2>5, <2>7, <2>8
  <2> QED  BY <2>4, <2>6, <2>9
<1>6. CASE kind = "master"
  <2>1. Program(kind) = Master  BY ProgramOf, <1>6
  <2>2. /\ Len(Master) = 3 /\ Master[1] = Op("masters", "")
        /\ Master[2] = Op("logins", "keep") /\ Master[3] = Save
    BY DEF Master
  <2>3. Len(Program(kind)) = 3  BY <2>1, <2>2
  <2>4. Len(Program(kind)) \in Nat \ {0} /\ i \in 1..3  BY <2>3
  <2>5. i = 1 \/ i = 2 \/ i = 3  BY <2>4
  <2>6. i = Len(Program(kind)) <=> <<kind, i>> \in LastPlaces  BY <2>3, <2>5, <1>6 DEF LastPlaces
  <2>7. StatementAt(Master[1], <<"master", 1>>)
    BY <2>2, StatementsOf
  <2>8. StatementAt(Master[2], <<"master", 2>>)
    BY <2>2, StatementsOf DEF MasterLogins
  <2>9. StatementAt(Master[3], <<"master", 3>>)
    BY <2>2, StatementsOf DEF SavePlaces
  <2>10. StatementAt(Program(kind)[i], <<kind, i>>)
    BY Zenon, <1>6, <2>1, <2>5, <2>7, <2>8, <2>9
  <2> QED  BY <2>4, <2>6, <2>10
<1>7. CASE kind = "join"
  <2>1. Program(kind) = Join  BY ProgramOf, <1>7
  <2>2. /\ Len(Join) = 3 /\ Join[1] = Op("append", "") /\ Join[2] = Op("logins", "make")
        /\ Join[3] = Save
    BY DEF Join
  <2>3. Len(Program(kind)) = 3  BY <2>1, <2>2
  <2>4. Len(Program(kind)) \in Nat \ {0} /\ i \in 1..3  BY <2>3
  <2>5. i = 1 \/ i = 2 \/ i = 3  BY <2>4
  <2>6. i = Len(Program(kind)) <=> <<kind, i>> \in LastPlaces  BY <2>3, <2>5, <1>7 DEF LastPlaces
  <2>7. StatementAt(Join[1], <<"join", 1>>)
    BY <2>2, StatementsOf DEF AppendPlaces
  <2>8. StatementAt(Join[2], <<"join", 2>>)
    BY <2>2, StatementsOf DEF JoinLogins
  <2>9. StatementAt(Join[3], <<"join", 3>>)
    BY <2>2, StatementsOf DEF SavePlaces
  <2>10. StatementAt(Program(kind)[i], <<kind, i>>)
    BY Zenon, <1>7, <2>1, <2>5, <2>7, <2>8, <2>9
  <2> QED  BY <2>4, <2>6, <2>10
<1>8. CASE kind = "joinEX"
  <2>1. Program(kind) = JoinEX  BY ProgramOf, <1>8
  <2>2. /\ Len(JoinEX) = 4 /\ JoinEX[1] = Op("append", "") /\ JoinEX[2] = Op("quitIfLost", "")
        /\ JoinEX[3] = Op("logins", "make") /\ JoinEX[4] = Save
    BY DEF JoinEX
  <2>3. Len(Program(kind)) = 4  BY <2>1, <2>2
  <2>4. Len(Program(kind)) \in Nat \ {0} /\ i \in 1..4  BY <2>3
  <2>5. i = 1 \/ i = 2 \/ i = 3 \/ i = 4  BY <2>4
  <2>6. i = Len(Program(kind)) <=> <<kind, i>> \in LastPlaces  BY <2>3, <2>5, <1>8 DEF LastPlaces
  <2>7. StatementAt(JoinEX[1], <<"joinEX", 1>>)
    BY <2>2, StatementsOf DEF AppendPlaces
  <2>8. StatementAt(JoinEX[2], <<"joinEX", 2>>)
    BY <2>2, StatementsOf DEF LostPlaces
  <2>9. StatementAt(JoinEX[3], <<"joinEX", 3>>)
    BY <2>2, StatementsOf DEF JoinLogins
  <2>10. StatementAt(JoinEX[4], <<"joinEX", 4>>)
    BY <2>2, StatementsOf DEF SavePlaces
  <2>11. StatementAt(Program(kind)[i], <<kind, i>>)
    BY Zenon, <1>8, <2>1, <2>5, <2>7, <2>8, <2>9, <2>10
  <2> QED  BY <2>4, <2>6, <2>11
<1>9. CASE kind = "remove"
  <2>1. Program(kind) = Remove  BY ProgramOf, <1>9
  <2>2. /\ Len(Remove) = 3 /\ Remove[1] = Op("forget", "") /\ Remove[2] = Op("replace", "")
        /\ Remove[3] = Save
    BY DEF Remove
  <2>3. Len(Program(kind)) = 3  BY <2>1, <2>2
  <2>4. Len(Program(kind)) \in Nat \ {0} /\ i \in 1..3  BY <2>3
  <2>5. i = 1 \/ i = 2 \/ i = 3  BY <2>4
  <2>6. i = Len(Program(kind)) <=> <<kind, i>> \in LastPlaces  BY <2>3, <2>5, <1>9 DEF LastPlaces
  <2>7. StatementAt(Remove[1], <<"remove", 1>>)
    BY <2>2, StatementsOf
  <2>8. StatementAt(Remove[2], <<"remove", 2>>)
    BY <2>2, StatementsOf
  <2>9. StatementAt(Remove[3], <<"remove", 3>>)
    BY <2>2, StatementsOf DEF SavePlaces
  <2>10. StatementAt(Program(kind)[i], <<kind, i>>)
    BY Zenon, <1>9, <2>1, <2>5, <2>7, <2>8, <2>9
  <2> QED  BY <2>4, <2>6, <2>10
<1>10. CASE kind = "ceph"
  <2>1. Program(kind) = Ceph  BY ProgramOf, <1>10
  <2>2. /\ Len(Ceph) = 4 /\ Ceph[1] = Set("deploy") /\ Ceph[2] = Quit /\ Ceph[3] = Set("ceph")
        /\ Ceph[4] = Save
    BY DEF Ceph
  <2>3. Len(Program(kind)) = 4  BY <2>1, <2>2
  <2>4. Len(Program(kind)) \in Nat \ {0} /\ i \in 1..4  BY <2>3
  <2>5. i = 1 \/ i = 2 \/ i = 3 \/ i = 4  BY <2>4
  <2>6. i = Len(Program(kind)) <=> <<kind, i>> \in LastPlaces  BY <2>3, <2>5, <1>10 DEF LastPlaces
  <2>7. StatementAt(Ceph[1], <<"ceph", 1>>)
    BY <2>2, StatementsOf, FieldSorts DEF OtherSets
  <2>8. StatementAt(Ceph[2], <<"ceph", 2>>)
    BY <2>2, StatementsOf DEF QuitPlaces
  <2>9. StatementAt(Ceph[3], <<"ceph", 3>>)
    BY <2>2, StatementsOf, FieldSorts DEF DurablePlaces
  <2>10. StatementAt(Ceph[4], <<"ceph", 4>>)
    BY <2>2, StatementsOf DEF SavePlaces
  <2>11. StatementAt(Program(kind)[i], <<kind, i>>)
    BY Zenon, <1>10, <2>1, <2>5, <2>7, <2>8, <2>9, <2>10
  <2> QED  BY <2>4, <2>6, <2>11
<1>11. CASE kind = "k8s"
  <2>1. Program(kind) = K8sMod  BY ProgramOf, <1>11
  <2>2. Len(K8sMod) = 1 /\ K8sMod[1] = Op("apps", "")
    BY DEF K8sMod
  <2>3. Len(Program(kind)) = 1  BY <2>1, <2>2
  <2>4. Len(Program(kind)) \in Nat \ {0} /\ i \in 1..1  BY <2>3
  <2>5. i = 1  BY <2>4
  <2>6. i = Len(Program(kind)) <=> <<kind, i>> \in LastPlaces  BY <2>3, <2>5, <1>11 DEF LastPlaces
  <2>7. StatementAt(K8sMod[1], <<"k8s", 1>>)
    BY <2>2, StatementsOf
  <2>8. StatementAt(Program(kind)[i], <<kind, i>>)
    BY Zenon, <1>11, <2>1, <2>5, <2>7
  <2> QED  BY <2>4, <2>6, <2>8
<1> QED  BY <1>1, <1>2, <1>3, <1>4, <1>5, <1>6, <1>7, <1>8, <1>9, <1>10, <1>11 DEF AllKinds

-----------------------------------------------------------------------------
(* The types. A job that is not busy is Idle, and one that is stands at a  *)
(* statement of its program.                                               *)
JobRec == [kind : AllKinds \cup {""}, hosts : SUBSET Hosts, todo : SUBSET Hosts, lost : BOOLEAN,
           at : Nat, write : {"", "marshal", "open", "write"},
           handle : {"", "linked", "unlinked"}, snap : Statuses]
JobOK(rec) ==
    /\ rec \in JobRec
    /\ rec.at > 0 => /\ rec.kind \in Kinds /\ rec.at \in 1..Len(Program(rec.kind))
                     /\ rec.todo \subseteq rec.hosts
    /\ rec.at = 0 => rec = Idle

JobsOK == /\ job \in [Jobs -> JobRec]
          /\ \A j \in Jobs : JobOK(job[j])
MemoryOK == mem \in Statuses /\ file \in {NoFile, Torn} \cup Statuses
CountersOK == up \in BOOLEAN /\ jobs \in 0..MaxJobs /\ crashes \in 0..MaxCrashes /\ entries \in Nat
DownIsIdle == ~up => \A j \in Jobs : job[j] = Idle
StatusTypes == JobsOK /\ MemoryOK /\ CountersOK /\ DownIsIdle

LEMMA DefaultIsStatus == Default \in Statuses
BY DEF Default, Statuses

LEMMA IdleIsOK == JobOK(Idle) /\ Idle \in JobRec /\ Idle.at = 0 /\ Place(Idle) = <<"", 0>>
<1>1. Idle \in JobRec /\ Idle.kind = "" /\ Idle.at = 0  BY DefaultIsStatus DEF Idle, JobRec
<1>0. Idle.at = 0  BY DEF Idle
<1>2. ~(Idle.at > 0)  BY <1>0
<1>3. JobOK(Idle)  BY <1>1, <1>2 DEF JobOK
<1> QED  BY <1>1, <1>3 DEF Place

LEMMA ProgramLength ==
    ASSUME NEW kind \in AllKinds
    PROVE  Len(Program(kind)) \in Nat \ {0}
<1>1. /\ Len(Yum) = 4 /\ Len(Rpms) = 3 /\ Len(Docker) = 7 /\ Len(DockerGiven) = 3
      /\ Len(Etcd) = 2 /\ Len(Master) = 3 /\ Len(Join) = 3 /\ Len(JoinEX) = 4 /\ Len(Remove) = 3
      /\ Len(Ceph) = 4 /\ Len(K8sMod) = 1
  BY DEF Yum, Rpms, Docker, DockerGiven, Etcd, Master, Join, JoinEX, Remove, Ceph, K8sMod
<1>2. \/ Program(kind) = Yum \/ Program(kind) = Rpms \/ Program(kind) = Docker
      \/ Program(kind) = DockerGiven \/ Program(kind) = Etcd \/ Program(kind) = Master
      \/ Program(kind) = Join \/ Program(kind) = JoinEX \/ Program(kind) = Remove
      \/ Program(kind) = Ceph \/ Program(kind) = K8sMod
  BY ProgramOf, Zenon DEF AllKinds
<1>3. Len(Program(kind)) \in {1, 2, 3, 4, 7}  BY Zenon, <1>1, <1>2
<1> QED  BY <1>3

(* Where a busy job stands. *)
LEMMA BusyAt ==
    ASSUME NEW rec, JobOK(rec), rec.at > 0
    PROVE  /\ rec.kind \in AllKinds /\ rec.at \in Nat \ {0}
           /\ StatementAt(Program(rec.kind)[rec.at], Place(rec))
           /\ Len(Program(rec.kind)) \in Nat
           /\ (rec.at = Len(Program(rec.kind)) <=> Place(rec) \in LastPlaces)
<1>1. rec.kind \in AllKinds  BY KindsAssumption DEF JobOK, AllKinds
<1>2. rec.at \in 1..Len(Program(rec.kind))  BY DEF JobOK
<1>3. rec.at \in Nat  BY DEF JobOK, JobRec
<1> QED  BY <1>1, <1>2, <1>3, ProgramTable DEF Place

(* The end of a statement. *)
LEMMA PastOK ==
    ASSUME NEW rec, JobOK(rec), rec.at > 0
    PROVE  /\ JobOK(Past(rec))
           /\ Place(rec) \in LastPlaces => Past(rec) = Idle
           /\ Place(rec) \notin LastPlaces =>
                /\ Past(rec) = [rec EXCEPT !.at = rec.at + 1, !.todo = {}, !.write = "",
                                           !.handle = "", !.snap = Default]
                /\ Place(Past(rec)) = <<rec.kind, rec.at + 1>>
                /\ Past(rec).hosts = rec.hosts /\ Past(rec).write = ""
<1>0. rec \in JobRec /\ rec.at \in Nat  BY DEF JobOK, JobRec
<1>1. /\ rec.kind \in AllKinds /\ Len(Program(rec.kind)) \in Nat
      /\ (rec.at = Len(Program(rec.kind)) <=> Place(rec) \in LastPlaces)
  BY BusyAt
<1>2. CASE Place(rec) \in LastPlaces
  <2>1. Past(rec) = Idle  BY <1>0, <1>1, <1>2 DEF Past
  <2> QED  BY <1>2, <2>1, IdleIsOK
<1>3. CASE Place(rec) \notin LastPlaces
  <2> DEFINE new == [rec EXCEPT !.at = rec.at + 1, !.todo = {}, !.write = "",
                                !.handle = "", !.snap = Default]
  <2>1. rec.at < Len(Program(rec.kind))  BY <1>0, <1>1, <1>3 DEF JobOK
  <2>2. Past(rec) = new  BY <2>1 DEF Past
  <2>3. new \in JobRec
    <3>1. \A n \in Nat : [rec EXCEPT !.at = n, !.todo = {}, !.write = "", !.handle = "",
                                     !.snap = Default] \in JobRec
      BY <1>0, DefaultIsStatus DEF JobRec
    <3>2. rec.at + 1 \in Nat  BY <1>0
    <3> QED  BY <3>1, <3>2
  <2>4. new.at = rec.at + 1 /\ new.kind = rec.kind /\ new.todo = {} /\ new.hosts = rec.hosts
        /\ new.write = ""
    BY <1>0 DEF JobRec
  <2>5. JobOK(new)  BY <1>0, <1>1, <2>1, <2>3, <2>4 DEF JobOK
  <2> QED  BY <1>3, <2>2, <2>4, <2>5 DEF Place
<1> QED  BY <1>2, <1>3

-----------------------------------------------------------------------------
(* Where the statements are. *)
LEMMA PlaceOf ==
    ASSUME StatusTypes, NEW j \in Jobs, Busy(j)
    PROVE  LET p == Place(job[j])
               f == This(j).field
           IN  /\ This(j).op = "save" => p \in SavePlaces
               /\ This(j).op = "masters" => p = <<"master", 1>>
               /\ This(j).op = "logins" =>
                    \/ f = "keep" /\ p \in MasterLogins
                    \/ f = "make" /\ p \in JoinLogins
               /\ This(j).op = "append" => p \in AppendPlaces
               /\ This(j).op = "quitIfLost" => p \in LostPlaces
               /\ This(j).op = "forget" => p = <<"remove", 1>>
               /\ This(j).op = "replace" => p = <<"remove", 2>>
               /\ This(j).op = "apps" => p = <<"k8s", 1>>
               /\ This(j).op = "unless" => f = "entry" /\ p = <<"rpms", 1>>
               /\ This(j).op \in {"set", "maybe"} =>
                    \/ This(j).op = "set" /\ f = "entry" /\ p = <<"rpms", 2>>
                    \/ This(j).op = "set" /\ f \in Durable \ {"entry"} /\ p \in DurablePlaces
                    \/ f \in Fields \ Durable /\ p \in OtherSets
               /\ This(j).op = "quit" => p \in QuitPlaces
               /\ This(j).op = "quitSetting" => f \in Fields \ Durable /\ p \in QuitPlaces
<1>1. JobOK(job[j]) /\ job[j].at > 0  BY DEF StatusTypes, JobsOK, Busy
<1>2. StatementAt(This(j), Place(job[j]))  BY <1>1, BusyAt DEF This
<1> QED  BY <1>2 DEF StatementAt

LEMMA PlanHostsOK ==
    ASSUME NEW kind, NEW H \in PlanHosts(kind)
    PROVE  H \in SUBSET Hosts
<1>1. CASE kind = "master"
  <2>1. PlanHosts(kind) = {{h} : h \in Masters}  BY <1>1 DEF PlanHosts
  <2> QED  BY <2>1 DEF Hosts
<1>2. CASE kind \in {"join", "joinEX"}
  <2>1. PlanHosts(kind) = (SUBSET Nodes) \ {{}}  BY Zenon, <1>2 DEF PlanHosts
  <2> QED  BY <2>1 DEF Hosts
<1>3. CASE kind = "remove"
  <2>1. PlanHosts(kind) = SUBSET Nodes  BY <1>3 DEF PlanHosts
  <2> QED  BY <2>1 DEF Hosts
<1>4. CASE kind \notin {"master", "join", "joinEX", "remove"}
  <2>1. PlanHosts(kind) = {{}}  BY Zenon, <1>4 DEF PlanHosts
  <2> QED  BY <2>1
<1> QED  BY <1>1, <1>2, <1>3, <1>4

(* A step that changes the record of one job. *)
LEMMA JobChange ==
    ASSUME JobsOK, NEW j \in Jobs, NEW rec, JobOK(rec), job' = [job EXCEPT ![j] = rec]
    PROVE  /\ JobsOK' /\ job'[j] = rec
           /\ \A k \in Jobs \ {j} : job'[k] = job[k]
<1>1. rec \in JobRec  BY DEF JobOK
<1>2. job' \in [Jobs -> JobRec] /\ job'[j] = rec /\ \A k \in Jobs \ {j} : job'[k] = job[k]
  BY <1>1 DEF JobsOK
<1>3. ASSUME NEW k \in Jobs PROVE JobOK(job'[k])
  BY <1>2, IdleIsOK DEF JobsOK
<1> QED  BY <1>2, <1>3 DEF JobsOK

LEMMA GoStep ==
    ASSUME JobsOK, NEW j \in Jobs, Busy(j), Go(j)
    PROVE  /\ JobsOK' /\ job'[j] = Past(job[j])
           /\ \A k \in Jobs \ {j} : job'[k] = job[k]
<1>1. JobOK(Past(job[j]))  BY PastOK DEF JobsOK, Busy
<1> QED  BY <1>1, JobChange DEF Go

LEMMA LeaveStep ==
    ASSUME JobsOK, NEW j \in Jobs, Leave(j)
    PROVE  /\ JobsOK' /\ job'[j] = Idle
           /\ \A k \in Jobs \ {j} : job'[k] = job[k]
BY IdleIsOK, JobChange DEF Leave

LEMMA StartStep ==
    ASSUME JobsOK, NEW j \in Jobs, NEW kind \in Kinds, NEW H \in PlanHosts(kind), Start(j, kind, H)
    PROVE  /\ JobsOK' /\ job[j] = Idle
           /\ Place(job'[j]) = <<kind, 1>> /\ job'[j].hosts = H /\ job'[j].write = ""
           /\ \A k \in Jobs \ {j} : job'[k] = job[k]
<1> DEFINE rec == [Idle EXCEPT !.kind = kind, !.hosts = H, !.todo = H, !.at = 1]
<1>1. H \in SUBSET Hosts /\ kind \in AllKinds  BY PlanHostsOK, KindsAssumption DEF AllKinds
<1>2. rec \in JobRec  BY <1>1, IdleIsOK DEF JobRec
<1>3. rec.kind = kind /\ rec.at = 1 /\ rec.hosts = H /\ rec.todo = H /\ rec.write = ""
  BY DEF Idle
<1>4. Len(Program(kind)) \in Nat \ {0}
  BY <1>1, Zenon, ProgramLength
<1>5. 1 \in 1..Len(Program(kind))  BY <1>4
<1>9. rec.at = 1  BY DEF Idle
<1>6. JobOK(rec)
  <2> HIDE DEF rec
  <2>1. rec.at \in 1..Len(Program(rec.kind))  BY Zenon, <1>3, <1>5
  <2>2. rec.kind \in Kinds /\ rec.todo \subseteq rec.hosts  BY <1>3
  <2>3. rec.at # 0  BY <1>9
  <2> QED  BY <1>2, <2>1, <2>2, <2>3 DEF JobOK
<1>7. job' = [job EXCEPT ![j] = rec] /\ ~Busy(j)  BY DEF Start
<1>8. job[j] = Idle
  <2>1. job[j].at \in Nat /\ JobOK(job[j])  BY DEF JobsOK, JobRec
  <2>2. job[j].at = 0  BY <1>7, <2>1 DEF Busy
  <2> QED  BY <2>1, <2>2 DEF JobOK
<1> QED  BY <1>3, <1>6, <1>7, <1>8, JobChange DEF Place

(* A host of a loop is done. *)
LEMMA ServedStep ==
    ASSUME JobsOK, NEW j \in Jobs, Busy(j), NEW todo \in SUBSET job[j].todo, NEW lost \in BOOLEAN,
           job' = [job EXCEPT ![j] = Served([job[j] EXCEPT !.todo = todo, !.lost = lost])]
    PROVE  /\ JobsOK' /\ \A k \in Jobs \ {j} : job'[k] = job[k]
           /\ \/ /\ Place(job'[j]) = Place(job[j])
                 /\ job'[j].hosts = job[j].hosts /\ job'[j].write = job[j].write
                 /\ job'[j].snap = job[j].snap
              \/ /\ Place(job[j]) \in LastPlaces /\ job'[j] = Idle
              \/ /\ Place(job[j]) \notin LastPlaces
                 /\ Place(job'[j]) = <<job[j].kind, job[j].at + 1>>
                 /\ job'[j].hosts = job[j].hosts /\ job'[j].write = ""
<1> DEFINE rec == [job[j] EXCEPT !.todo = todo, !.lost = lost]
<1>1. job[j] \in JobRec /\ JobOK(job[j]) /\ job[j].at > 0  BY DEF JobsOK, Busy
<1>2. rec \in JobRec /\ rec.at = job[j].at /\ rec.kind = job[j].kind /\ rec.hosts = job[j].hosts
      /\ rec.todo = todo /\ rec.write = job[j].write /\ rec.snap = job[j].snap
  BY <1>1 DEF JobRec
<1>3. JobOK(rec) /\ rec.at > 0  BY <1>1, <1>2 DEF JobOK
<1>4. Place(rec) = Place(job[j])  BY <1>2 DEF Place
<1>5. CASE todo = {}
  <2>1. Served(rec) = Past(rec)  BY <1>2, <1>5 DEF Served
  <2>2. JobOK(Past(rec))  BY <1>3, PastOK
  <2>3. JobsOK' /\ job'[j] = Past(rec) /\ \A k \in Jobs \ {j} : job'[k] = job[k]
    BY <2>1, <2>2, JobChange
  <2> HIDE DEF rec
  <2>4. CASE Place(rec) \in LastPlaces
    <3>1. Past(rec) = Idle  BY <1>3, <2>4, PastOK
    <3> QED  BY <1>4, <2>3, <2>4, <3>1
  <2>5. CASE Place(rec) \notin LastPlaces
    <3>1. /\ Place(Past(rec)) = <<rec.kind, rec.at + 1>>
          /\ Past(rec).hosts = rec.hosts /\ Past(rec).write = ""
      BY <1>3, <2>5, PastOK
    <3> QED  BY <1>2, <1>4, <2>3, <2>5, <3>1
  <2> QED  BY <2>4, <2>5
<1>6. CASE todo # {}
  <2>1. Served(rec) = rec  BY <1>2, <1>6 DEF Served
  <2>2. JobsOK' /\ job'[j] = rec /\ \A k \in Jobs \ {j} : job'[k] = job[k]
    BY <1>3, <2>1, JobChange
  <2> QED  BY <1>2, <1>4, <2>2
<1> QED  BY <1>5, <1>6

(* The stages of runconf.Write. *)
Kept(new, old) == Place(new) = Place(old) /\ new.hosts = old.hosts

LEMMA RemoveFileJobs ==
    ASSUME JobsOK, NEW j \in Jobs, RemoveFile(j)
    PROVE  /\ JobsOK'
           /\ \A k \in Jobs : Kept(job'[k], job[k]) /\ job'[k].snap = job[k].snap
           /\ \A k \in Jobs \ {j} : job'[k].write = job[k].write
           /\ job'[j].write = "marshal"
<1>1. job[j].at > 0  BY DEF RemoveFile, At, Busy
<1>2. ASSUME NEW k \in Jobs
      PROVE  /\ JobOK(job'[k]) /\ Kept(job'[k], job[k]) /\ job'[k].snap = job[k].snap
             /\ k # j => job'[k].write = job[k].write
             /\ k = j => job'[k].write = "marshal"
  <2> DEFINE marshal == [job[k] EXCEPT !.write = "marshal"]
             unlinked == [job[k] EXCEPT !.handle = "unlinked"]
  <2>1. job[k] \in JobRec /\ JobOK(job[k])  BY DEF JobsOK
  <2>2. \/ k = j /\ job'[k] = marshal
        \/ k # j /\ job[k].handle = "linked" /\ job'[k] = unlinked
        \/ k # j /\ job'[k] = job[k]
    BY DEF RemoveFile
  <2>3. marshal \in JobRec /\ Kept(marshal, job[k]) /\ marshal.write = "marshal"
        /\ marshal.snap = job[k].snap /\ marshal.todo = job[k].todo
        /\ marshal.at = job[k].at /\ marshal.kind = job[k].kind
    BY <2>1 DEF JobRec, Kept, Place
  <2>4. unlinked \in JobRec /\ Kept(unlinked, job[k]) /\ unlinked.write = job[k].write
        /\ unlinked.snap = job[k].snap /\ unlinked.todo = job[k].todo
        /\ unlinked.at = job[k].at /\ unlinked.kind = job[k].kind
    BY <2>1 DEF JobRec, Kept, Place
  <2>5. job[k].handle = "linked" => job[k].at > 0
    <3>1. Idle.handle = ""  BY DEF Idle
    <3>2. job[k].at \in Nat  BY <2>1 DEF JobRec
    <3>3. job[k].at = 0 => job[k] = Idle  BY <2>1 DEF JobOK
    <3>4. job[k].handle = "linked" => job[k].at # 0  BY <3>1, <3>3
    <3> QED  BY <3>2, <3>4
  <2> HIDE DEF marshal, unlinked
  <2>6. job[k].at > 0 => JobOK(marshal) /\ JobOK(unlinked)
    <3>1. SUFFICES ASSUME job[k].at > 0 PROVE JobOK(marshal) /\ JobOK(unlinked)  OBVIOUS
    <3>2. job[k].at \in Nat /\ job[k].at # 0
      <4>1. job[k].at \in Nat  BY <2>1 DEF JobRec
      <4> QED  BY <3>1, <4>1
    <3>3. /\ job[k].kind \in Kinds /\ job[k].at \in 1..Len(Program(job[k].kind))
          /\ job[k].todo \subseteq job[k].hosts
      BY <2>1, <3>1 DEF JobOK
    <3>4. JobOK(marshal)  BY <2>3, <3>2, <3>3 DEF JobOK, Kept
    <3>5. JobOK(unlinked)  BY <2>4, <3>2, <3>3 DEF JobOK, Kept
    <3> QED  BY <3>4, <3>5
  <2>7. Kept(job[k], job[k])  BY DEF Kept
  <2> QED  BY <1>1, <2>1, <2>2, <2>3, <2>4, <2>5, <2>6, <2>7
<1>3. job' \in [Jobs -> JobRec]
  <2>1. \A k \in Jobs : job'[k] \in JobRec  BY <1>2 DEF JobOK
  <2>2. job' = [k \in Jobs |-> job'[k]]  BY DEF RemoveFile
  <2> QED  BY <2>1, <2>2
<1> QED  BY <1>2, <1>3 DEF JobsOK

LEMMA MarshalJobs ==
    ASSUME JobsOK, mem \in Statuses, NEW j \in Jobs, Marshal(j)
    PROVE  /\ JobsOK'
           /\ \A k \in Jobs \ {j} : job'[k] = job[k]
           /\ Kept(job'[j], job[j]) /\ job'[j].write = "open" /\ job'[j].snap = mem
<1> DEFINE rec == [job[j] EXCEPT !.write = "open", !.snap = mem]
<1>1. job[j] \in JobRec /\ JobOK(job[j]) /\ job[j].at > 0  BY DEF JobsOK, Marshal, At, Busy
<1>2. rec \in JobRec /\ Kept(rec, job[j]) /\ rec.write = "open" /\ rec.snap = mem
      /\ rec.todo = job[j].todo /\ rec.kind = job[j].kind /\ rec.at = job[j].at
  BY <1>1 DEF JobRec, Kept, Place
<1>3. job' = [job EXCEPT ![j] = rec]  BY <1>1 DEF Marshal, JobsOK, JobRec
<1> HIDE DEF rec
<1>4. JobOK(rec)
  <2>1. job[j].at \in Nat /\ job[j].at # 0
    <3>1. job[j].at > 0  BY <1>1
    <3>2. job[j].at \in Nat  BY <1>1 DEF JobRec
    <3> QED  BY <3>1, <3>2
  <2>2. /\ job[j].kind \in Kinds /\ job[j].at \in 1..Len(Program(job[j].kind))
        /\ job[j].todo \subseteq job[j].hosts
    BY <1>1 DEF JobOK
  <2> QED  BY <1>2, <2>1, <2>2 DEF JobOK, Kept
<1> QED  BY <1>2, <1>3, <1>4, JobChange

LEMMA OpenFileJobs ==
    ASSUME JobsOK, NEW j \in Jobs, OpenFile(j)
    PROVE  /\ JobsOK'
           /\ \A k \in Jobs \ {j} : job'[k] = job[k]
           /\ Kept(job'[j], job[j]) /\ job'[j].write = "write" /\ job'[j].snap = job[j].snap
           /\ job'[j].handle = "linked"
<1> DEFINE rec == [job[j] EXCEPT !.write = "write", !.handle = "linked"]
<1>1. job[j] \in JobRec /\ JobOK(job[j]) /\ job[j].at > 0  BY DEF JobsOK, OpenFile, At, Busy
<1>2. rec \in JobRec /\ Kept(rec, job[j]) /\ rec.write = "write" /\ rec.snap = job[j].snap
      /\ rec.todo = job[j].todo /\ rec.kind = job[j].kind /\ rec.at = job[j].at
      /\ rec.handle = "linked"
  BY <1>1 DEF JobRec, Kept, Place
<1>3. job' = [job EXCEPT ![j] = rec]  BY <1>1 DEF OpenFile, JobsOK, JobRec
<1> HIDE DEF rec
<1>4. JobOK(rec)
  <2>1. job[j].at \in Nat /\ job[j].at # 0
    <3>1. job[j].at > 0  BY <1>1
    <3>2. job[j].at \in Nat  BY <1>1 DEF JobRec
    <3> QED  BY <3>1, <3>2
  <2>2. /\ job[j].kind \in Kinds /\ job[j].at \in 1..Len(Program(job[j].kind))
        /\ job[j].todo \subseteq job[j].hosts
    BY <1>1 DEF JobOK
  <2> QED  BY <1>2, <2>1, <2>2 DEF JobOK, Kept
<1> QED  BY <1>2, <1>3, <1>4, JobChange

LEMMA BusyMeansUp ==
    ASSUME StatusTypes, NEW j \in Jobs, Busy(j)
    PROVE  up
<1>1. ASSUME ~up PROVE FALSE
  <2>1. job[j] = Idle  BY <1>1 DEF StatusTypes, DownIsIdle
  <2>2. Idle.at = 0  BY DEF Idle
  <2>3. job[j].at > 0  BY DEF Busy
  <2>4. job[j].at = 0  BY <2>1, <2>2
  <2> QED  BY <2>3, <2>4
<1> QED  BY <1>1

LEMMA KnownOK ==
    ASSUME mem \in Statuses, NEW f \in Fields, Known(f)
    PROVE  /\ mem' \in Statuses
           /\ mem'.known = mem.known \cup {f}
           /\ mem'.masters = mem.masters /\ mem'.nodes = mem.nodes /\ mem'.ssh = mem.ssh
BY DEF Known, Statuses

LEMMA HostsOf ==
    ASSUME StatusTypes, NEW j \in Jobs
    PROVE  job[j].hosts \in SUBSET Hosts /\ job[j].todo \in SUBSET Hosts
BY DEF StatusTypes, JobsOK, JobRec

LEMMA JobStepTypes ==
    ASSUME StatusTypes, NEW j \in Jobs, JobStep(j)
    PROVE  StatusTypes'
<1> USE DEF StatusTypes
<1>1. ASSUME NEW kind \in Kinds, NEW H \in PlanHosts(kind), Start(j, kind, H)
      PROVE  StatusTypes'
  <2>1. JobsOK'  BY <1>1, StartStep
  <2>2. MemoryOK' /\ up' /\ DownIsIdle'  BY <1>1 DEF Start, MemoryOK, CountersOK, DownIsIdle
  <2>3. CountersOK'  BY <1>1, BoundsAssumption DEF Start, CountersOK
  <2> QED  BY <2>1, <2>2, <2>3
<1>2. ASSUME Busy(j), JobsOK', MemoryOK', up' = up, jobs' = jobs, crashes' = crashes,
             entries' \in Nat
      PROVE  StatusTypes'
  <2>1. up  BY <1>2, BusyMeansUp
  <2> QED  BY <1>2, <2>1 DEF CountersOK, DownIsIdle
<1> USE DEF MemoryOK
<1>3. CASE Assign(j)
  <2>1. Busy(j) /\ Go(j)  BY <1>3 DEF Assign
  <2>2. mem' = mem \/ Known(This(j).field)  BY <1>3 DEF Assign
  <2>5. This(j).field \in Fields
    <3>1. This(j).op \in {"set", "maybe"}  BY <1>3 DEF Assign
    <3>2. This(j).field \in Durable \/ This(j).field \in Fields
      BY <2>1, <3>1, PlaceOf, "entry" \in Durable DEF Durable
    <3> QED  BY <3>2, FieldSorts
  <2>3. mem' \in Statuses  BY <2>2, <2>5, KnownOK
  <2>4. entries' \in Nat  BY <1>3 DEF Assign, CountersOK
  <2> QED  BY <1>2, <1>3, <2>1, <2>3, <2>4, GoStep DEF Assign
<1>4. CASE Return(j)
  <2>1. Busy(j) /\ Leave(j)  BY <1>4 DEF Return
  <2>2. mem' = mem \/ (This(j).field \in Fields /\ Known(This(j).field))
    BY <1>4, <2>1, PlaceOf, FieldSorts DEF Return
  <2>3. mem' \in Statuses  BY <2>2, KnownOK
  <2> QED  BY <1>2, <1>4, <2>1, <2>3, LeaveStep DEF Return, CountersOK
<1>5. CASE GoOn(j)
  BY <1>2, <1>5, GoStep DEF GoOn, CountersOK
<1>6. CASE SetMasters(j)
  <2>1. mem' \in Statuses  BY <1>6, HostsOf DEF SetMasters, Statuses
  <2> QED  BY <1>2, <1>6, <2>1, GoStep DEF SetMasters, CountersOK
<1>7. CASE AddLogins(j)
  <2>1. mem' \in Statuses  BY <1>7, HostsOf DEF AddLogins, Statuses
  <2> QED  BY <1>2, <1>7, <2>1, GoStep DEF AddLogins, CountersOK
<1>8. ASSUME NEW h \in Nodes, NEW ok \in BOOLEAN, AppendNode(j, h, ok)
      PROVE  StatusTypes'
  <2>1. Busy(j)  BY <1>8 DEF AppendNode
  <2>2. mem' \in Statuses  BY <1>8 DEF AppendNode, Statuses, Hosts
  <2>3. job[j].todo \ {h} \in SUBSET job[j].todo /\ (job[j].lost \/ ~ok) \in BOOLEAN  OBVIOUS
  <2>4. job' = [job EXCEPT ![j] = Served([job[j] EXCEPT !.todo = job[j].todo \ {h},
                                                        !.lost = job[j].lost \/ ~ok])]
    BY <1>8 DEF AppendNode
  <2>5. JobsOK'  BY <2>1, <2>3, <2>4, ServedStep
  <2> QED  BY <1>2, <1>8, <2>1, <2>2, <2>5 DEF AppendNode, CountersOK
<1>9. ASSUME NEW h \in Nodes, ForgetNode(j, h)
      PROVE  StatusTypes'
  <2>1. Busy(j)  BY <1>9 DEF ForgetNode
  <2>2. mem' \in Statuses  BY <1>9 DEF ForgetNode, Statuses, Hosts
  <2>3. job[j].todo \ {h} \in SUBSET job[j].todo /\ job[j].lost \in BOOLEAN /\ job[j] \in JobRec
    BY DEF JobsOK, JobRec
  <2>4. job' = [job EXCEPT ![j] = Served([job[j] EXCEPT !.todo = job[j].todo \ {h},
                                                        !.lost = job[j].lost])]
    <3>1. [job[j] EXCEPT !.todo = job[j].todo \ {h}]
            = [job[j] EXCEPT !.todo = job[j].todo \ {h}, !.lost = job[j].lost]
      BY <2>3 DEF JobRec
    <3> QED  BY <1>9, <3>1 DEF ForgetNode
  <2>5. JobsOK'  BY <2>1, <2>3, <2>4, ServedStep
  <2> QED  BY <1>2, <1>9, <2>1, <2>2, <2>5 DEF ForgetNode, CountersOK
<1>10. CASE ForgetNobody(j)
  BY <1>2, <1>10, GoStep DEF ForgetNobody, CountersOK
<1>11. CASE ReplaceLogins(j)
  <2>1. mem' \in Statuses  BY <1>11, HostsOf DEF ReplaceLogins, Statuses
  <2> QED  BY <1>2, <1>11, <2>1, GoStep DEF ReplaceLogins, CountersOK
<1>12. CASE RemoveFile(j)
  <2>1. Busy(j)  BY <1>12 DEF RemoveFile, At
  <2>2. JobsOK'  BY <1>12, RemoveFileJobs
  <2> QED  BY <1>2, <1>12, <2>1, <2>2 DEF RemoveFile, CountersOK
<1>13. CASE Marshal(j)
  <2>1. Busy(j)  BY <1>13 DEF Marshal, At
  <2>2. JobsOK'  BY <1>13, MarshalJobs
  <2> QED  BY <1>2, <1>13, <2>1, <2>2 DEF Marshal, CountersOK
<1>14. CASE OpenFile(j)
  <2>1. Busy(j)  BY <1>14 DEF OpenFile, At
  <2>2. JobsOK'  BY <1>14, OpenFileJobs
  <2> QED  BY <1>2, <1>14, <2>1, <2>2 DEF OpenFile, CountersOK
<1>15. CASE WriteFile(j)
  <2>1. Busy(j) /\ Go(j)  BY <1>15 DEF WriteFile, WriteFails, At
  <2>2. file' \in {NoFile, Torn} \cup Statuses
    BY <1>15 DEF WriteFile, JobsOK, JobRec
  <2> QED  BY <1>2, <1>15, <2>1, <2>2, GoStep DEF WriteFile, CountersOK
<1>16. CASE WriteFails(j)
  <2>1. Busy(j) /\ Go(j)  BY <1>16 DEF WriteFails, At
  <2> QED  BY <1>2, <1>16, <2>1, GoStep DEF WriteFails, CountersOK
<1> QED
  BY <1>1, <1>3, <1>4, <1>5, <1>6, <1>7, <1>8, <1>9, <1>10, <1>11, <1>12,
     <1>13, <1>14, <1>15, <1>16 DEF JobStep

LEMMA OnFileOK ==
    ASSUME MemoryOK
    PROVE  /\ OnFile \in Statuses
           /\ file \in {NoFile, Torn} => OnFile = Default
           /\ file \in Statuses => OnFile = file
BY DefaultIsStatus, NoFileAssumption DEF MemoryOK, OnFile

LEMMA CrashTypes ==
    ASSUME StatusTypes, Crash
    PROVE  StatusTypes' /\ ~up' /\ \A j \in Jobs : job'[j] = Idle
<1> USE DEF StatusTypes
<1>1. ~up' /\ job' = [j \in Jobs |-> Idle]  BY DEF Crash
<1>2. JobsOK' /\ \A j \in Jobs : job'[j] = Idle  BY <1>1, IdleIsOK DEF JobsOK
<1>3. MemoryOK'  BY DefaultIsStatus DEF Crash, MemoryOK
<1>4. CountersOK'
  <2>1. up' \in BOOLEAN  BY DEF Crash
  <2>2. jobs' \in 0..MaxJobs /\ crashes' \in 0..MaxCrashes /\ entries' \in Nat
    BY BoundsAssumption DEF Crash, CountersOK
  <2> QED  BY <2>1, <2>2 DEF CountersOK
<1>5. DownIsIdle'  BY <1>2 DEF DownIsIdle
<1> QED  BY <1>1, <1>2, <1>3, <1>4, <1>5

LEMMA RestartTypes ==
    ASSUME StatusTypes, Restart
    PROVE  /\ StatusTypes' /\ up'
           /\ job' = job /\ \A j \in Jobs : job[j] = Idle
           /\ mem'.known = OnFile.known /\ mem'.masters = OnFile.masters
           /\ mem'.nodes = OnFile.nodes
           /\ mem'.ssh = IF OnFile.ssh = NoMap THEN {} ELSE OnFile.ssh
           /\ mem'.ssh # NoMap
<1> USE DEF StatusTypes
<1>0. OnFile \in Statuses  BY OnFileOK
<1>1. mem' = [OnFile EXCEPT !.ssh = IF OnFile.ssh = NoMap THEN {} ELSE OnFile.ssh]
  BY DEF Restart
<1>2. /\ mem' \in Statuses
      /\ mem'.known = OnFile.known /\ mem'.masters = OnFile.masters
      /\ mem'.nodes = OnFile.nodes
      /\ mem'.ssh = IF OnFile.ssh = NoMap THEN {} ELSE OnFile.ssh
  BY <1>0, <1>1 DEF Statuses
<1>3. mem'.ssh # NoMap
  <2>1. {} \in SUBSET (Masters \cup Nodes)  OBVIOUS
  <2>2. {} # NoMap  BY <2>1, NoMapAssumption
  <2> QED  BY <1>2, <2>2
<1>4. MemoryOK'  BY <1>2 DEF MemoryOK, Restart
<1>5. job' = job /\ up' /\ \A j \in Jobs : job[j] = Idle  BY DEF Restart, DownIsIdle
<1>6. JobsOK'  BY <1>5 DEF JobsOK
<1>7. CountersOK' /\ DownIsIdle'  BY <1>5 DEF Restart, CountersOK, DownIsIdle
<1> QED  BY <1>2, <1>3, <1>4, <1>5, <1>6, <1>7

(* Step 9, as far as the status is concerned: its one statement is done.   *)
LEMMA AppsStep ==
    ASSUME StatusTypes, NEW j \in Jobs, InstallK8sModules(j)
    PROVE  /\ StatusTypes' /\ job'[j] = Idle /\ Place(job[j]) = <<"k8s", 1>>
           /\ \A k \in Jobs \ {j} : job'[k] = job[k]
<1> USE DEF StatusTypes
<1>1. Busy(j) /\ This(j).op = "apps" /\ Go(j)  BY DEF InstallK8sModules
<1>2. Place(job[j]) = <<"k8s", 1>>  BY <1>1, PlaceOf
<1>3. Place(job[j]) \in LastPlaces  BY <1>2 DEF LastPlaces
<1>4. Past(job[j]) = Idle  BY <1>1, <1>3, PastOK DEF JobsOK, Busy
<1>5. up  BY <1>1, BusyMeansUp
<1>6. MemoryOK' /\ CountersOK' /\ DownIsIdle'
  BY <1>5 DEF InstallK8sModules, MemoryOK, CountersOK, DownIsIdle
<1> QED  BY <1>1, <1>2, <1>4, <1>6, GoStep

-----------------------------------------------------------------------------
(* The steps of K8sModules, as far as the status is concerned: a step of a *)
(* job, the end of step 9, a crash, a restart, or nothing.                 *)
LEMMA StatusSteps ==
    ASSUME K8sNext
    PROVE  \/ \E j \in Jobs : JobStep(j)
           \/ \E j \in Jobs : InstallK8sModules(j)
           \/ Crash \/ Restart \/ UNCHANGED svars
<1>1. ASSUME NEW j \in Jobs, Install(j)
      PROVE  InstallK8sModules(j) \/ Crash \/ UNCHANGED svars
  BY <1>1 DEF Install, Begin, Choose, CallNil, LeaveOut, Check, PushDockerImage, ModifyYaml,
     Build, End
<1>2. ASSUME Die PROVE Crash  BY <1>2 DEF Die, Panic
<1> QED  BY <1>1, <1>2 DEF K8sNext

LEMMA UnchangedTypes ==
    ASSUME StatusTypes, UNCHANGED svars
    PROVE  StatusTypes'
BY DEF svars, StatusTypes, JobsOK, MemoryOK, CountersOK, DownIsIdle

LEMMA StepTypes ==
    ASSUME StatusTypes, [K8sNext]_<<svars, kvars>>
    PROVE  StatusTypes'
<1>1. CASE K8sNext
  BY <1>1, StatusSteps, JobStepTypes, AppsStep, CrashTypes, RestartTypes, UnchangedTypes
<1>2. CASE UNCHANGED <<svars, kvars>>
  BY <1>2, UnchangedTypes
<1> QED  BY <1>1, <1>2

LEMMA InitTypes ==
    ASSUME K8sInit
    PROVE  StatusTypes
<1> USE DEF K8sInit, StatusInit
<1>1. JobsOK  BY IdleIsOK DEF JobsOK
<1>2. MemoryOK /\ DownIsIdle  BY DefaultIsStatus DEF MemoryOK, DownIsIdle
<1>3. CountersOK  BY BoundsAssumption DEF CountersOK
<1> QED  BY <1>1, <1>2, <1>3 DEF StatusTypes

-----------------------------------------------------------------------------
(* What a job's step leaves of the other jobs. *)
LEMMA OthersKept ==
    ASSUME StatusTypes, NEW j \in Jobs, JobStep(j)
    PROVE  \A k \in Jobs \ {j} : /\ Kept(job'[k], job[k])
                                 /\ job'[k].write = job[k].write /\ job'[k].snap = job[k].snap
<1> USE DEF StatusTypes
<1>1. SUFFICES ASSUME \/ \A k \in Jobs \ {j} : job'[k] = job[k]
                      \/ RemoveFile(j)
               PROVE  \A k \in Jobs \ {j} : /\ Kept(job'[k], job[k])
                                            /\ job'[k].write = job[k].write
                                            /\ job'[k].snap = job[k].snap
  <2>1. ASSUME NEW kind \in Kinds, NEW H \in PlanHosts(kind), Start(j, kind, H)
        PROVE  \A k \in Jobs \ {j} : job'[k] = job[k]
    BY <2>1, StartStep
  <2>2. Assign(j) \/ GoOn(j) \/ SetMasters(j) \/ AddLogins(j) \/ ForgetNobody(j) \/ ReplaceLogins(j)
        \/ WriteFile(j) \/ WriteFails(j) => Go(j) /\ Busy(j)
    BY DEF Assign, GoOn, SetMasters, AddLogins, ForgetNobody, ReplaceLogins, WriteFile,
       WriteFails, At
  <2>3. Return(j) => Leave(j)  BY DEF Return
  <2>4. ASSUME NEW h \in Nodes, NEW ok \in BOOLEAN, AppendNode(j, h, ok)
        PROVE  \A k \in Jobs \ {j} : job'[k] = job[k]
    BY <2>4 DEF AppendNode, JobsOK
  <2>5. ASSUME NEW h \in Nodes, ForgetNode(j, h)
        PROVE  \A k \in Jobs \ {j} : job'[k] = job[k]
    BY <2>5 DEF ForgetNode, JobsOK
  <2>6. Marshal(j) \/ OpenFile(j) => \A k \in Jobs \ {j} : job'[k] = job[k]
    BY MarshalJobs, OpenFileJobs DEF MemoryOK
  <2> QED  BY <2>1, <2>2, <2>3, <2>4, <2>5, <2>6, GoStep, LeaveStep DEF JobStep
<1> QED  BY <1>1, RemoveFileJobs DEF Kept

(* Step 9 stands at its one statement, at which no step of a job is taken. *)
LEMMA AtAppsPlace ==
    ASSUME StatusTypes, NEW j \in Jobs
    PROVE  AtApps(j) <=> Place(job[j]) = <<"k8s", 1>>
<1>1. ASSUME Place(job[j]) = <<"k8s", 1>> PROVE AtApps(j)
  <2>1. job[j].kind = "k8s" /\ job[j].at = 1  BY <1>1 DEF Place
  <2>2. This(j) = K8sMod[1]  BY <2>1, ProgramOf DEF This
  <2>3. This(j).op = "apps"  BY <2>2, StatementFields, ZenonT(60) DEF K8sMod
  <2>4. Busy(j)  BY <2>1 DEF Busy
  <2> QED  BY <2>3, <2>4 DEF AtApps
<1> QED  BY <1>1, PlaceOf DEF AtApps

LEMMA AppsWait ==
    ASSUME StatusTypes, NEW j \in Jobs, JobStep(j)
    PROVE  ~AtApps(j)
BY DEF JobStep, Start, Assign, Return, GoOn, SetMasters, AddLogins, AppendNode, ForgetNode,
   ForgetNobody, ReplaceLogins, RemoveFile, Marshal, OpenFile, WriteFile, WriteFails, At, AtApps

LEMMA AppsStay ==
    ASSUME StatusTypes, NEW j \in Jobs, JobStep(j), NEW k \in Jobs, AtApps(k)
    PROVE  AtApps(k)'
<1>1. k # j  BY AppsWait
<1>2. Place(job'[k]) = Place(job[k])  BY <1>1, OthersKept DEF Kept
<1>3. Place(job'[k]) = <<"k8s", 1>>  BY <1>2, AtAppsPlace
<1>4. job'[k].kind = "k8s" /\ job'[k].at = 1  BY <1>3 DEF Place
<1>5. This(k)' = K8sMod[1]  BY <1>4, ProgramOf DEF This
<1>6. This(k)'.op = "apps"  BY <1>5, StatementFields, ZenonT(60) DEF K8sMod
<1> QED  BY <1>4, <1>6 DEF AtApps, Busy

-----------------------------------------------------------------------------
(* The installers. What was asked for and is neither to do, nor missed,    *)
(* nor being worked on, is done; and what is past its images, and not      *)
(* missed, has them pushed.                                                *)
Apps == UNION AppSets
InstRec == [pc : {"off", "loop", "check", "push", "yaml", "build"},
            asked : SUBSET Apps, todo : SUBSET Apps, app : Installers \cup {NoApp},
            pushed : SUBSET Apps, built : SUBSET Apps, missed : SUBSET Apps]

Working == {"check", "push", "yaml", "build"}
HasBoth(i, app) == /\ "push" \in Does(app) => app \in i.pushed
                   /\ "build" \in Does(app) => app \in i.built

InstOK(i) ==
    /\ i \in InstRec
    /\ i.pushed \subseteq i.asked /\ i.built \subseteq i.asked
    /\ i.missed \subseteq i.asked /\ i.todo \subseteq i.asked
    /\ i.pc \in Working => i.app \in i.asked
    /\ i.pc \in {"yaml", "build"} =>
         (i.app \in i.missed \/ "push" \notin Does(i.app) \/ i.app \in i.pushed)
    /\ \A app \in i.asked \ (i.todo \cup i.missed) :
         HasBoth(i, app) \/ (i.pc \in Working /\ app = i.app)

InstallersOK ==
    /\ inst \in [Jobs -> InstRec]
    /\ \A j \in Jobs : InstOK(inst[j]) /\ (inst[j].pc # "off" => AtApps(j))

LEMMA OffIsOK == InstOK(Off) /\ Off.pc = "off"
<1>1. Off \in InstRec  BY DEF Off, InstRec
<1> QED  BY <1>1 DEF Off, InstOK, Working

LEMMA InstChange ==
    ASSUME InstallersOK, NEW j \in Jobs, NEW i, InstOK(i), inst' = [inst EXCEPT ![j] = i],
           UNCHANGED svars, AtApps(j)
    PROVE  InstallersOK'
<1>1. inst' \in [Jobs -> InstRec] /\ inst'[j] = i /\ \A k \in Jobs \ {j} : inst'[k] = inst[k]
  BY DEF InstallersOK, InstOK
<1>2. ASSUME NEW k \in Jobs PROVE InstOK(inst'[k])
  BY <1>1 DEF InstallersOK
<1>3. ASSUME NEW k \in Jobs, inst'[k].pc # "off" PROVE AtApps(k)'
  <2>1. AtApps(k)  BY <1>1, <1>3 DEF InstallersOK
  <2> QED  BY <2>1 DEF svars, AtApps, Busy, This
<1> QED  BY <1>1, <1>2, <1>3 DEF InstallersOK

(* The parts of InstOK. *)
LEMMA InstMade ==
    ASSUME NEW i \in InstRec,
           i.pushed \subseteq i.asked, i.built \subseteq i.asked,
           i.missed \subseteq i.asked, i.todo \subseteq i.asked,
           i.pc \in Working => i.app \in i.asked,
           i.pc \in {"yaml", "build"} =>
             (i.app \in i.missed \/ "push" \notin Does(i.app) \/ i.app \in i.pushed),
           \A app \in i.asked \ (i.todo \cup i.missed) :
             HasBoth(i, app) \/ (i.pc \in Working /\ app = i.app)
    PROVE  InstOK(i)
BY DEF InstOK

(* What was done stays done. *)
LEMMA DoneStays ==
    ASSUME NEW i, InstOK(i), NEW new \in InstRec, new.asked = i.asked,
           i.pushed \subseteq new.pushed, i.built \subseteq new.built,
           i.missed \subseteq new.missed,
           NEW app \in new.asked \ (i.todo \cup new.missed)
    PROVE  HasBoth(new, app) \/ (i.pc \in Working /\ app = i.app)
<1>1. app \in i.asked \ (i.todo \cup i.missed)  OBVIOUS
<1>2. HasBoth(i, app) \/ (i.pc \in Working /\ app = i.app)  BY <1>1 DEF InstOK
<1>3. HasBoth(i, app) => HasBoth(new, app)  BY DEF HasBoth
<1> QED  BY <1>2, <1>3

LEMMA BeginOK ==
    ASSUME NEW A \in AppSets
    PROVE  InstOK([Off EXCEPT !.pc = "loop", !.asked = A, !.todo = A])
<1> DEFINE new == [Off EXCEPT !.pc = "loop", !.asked = A, !.todo = A]
<1>1. A \in SUBSET Apps  BY DEF Apps
<1>2. new \in InstRec  BY <1>1, OffIsOK DEF InstOK, InstRec
<1>3. /\ new.pc = "loop" /\ new.asked = A /\ new.todo = A
      /\ new.pushed = {} /\ new.built = {} /\ new.missed = {}
  BY DEF Off
<1> HIDE DEF new
<1>4. new.pc \notin Working /\ new.pc \notin {"yaml", "build"}  BY <1>3 DEF Working
<1>5. new.asked \ (new.todo \cup new.missed) = {}  BY <1>3
<1>6. new.pushed \subseteq new.asked /\ new.built \subseteq new.asked
      /\ new.missed \subseteq new.asked /\ new.todo \subseteq new.asked
  BY <1>3
<1>9. InstOK(new)  BY <1>2, <1>4, <1>5, <1>6, InstMade
<1> QED  BY <1>9 DEF new

LEMMA ChooseOK ==
    ASSUME NEW i, InstOK(i), i.pc = "loop", NEW app \in i.todo \cap Installers
    PROVE  InstOK([i EXCEPT !.pc = "check", !.todo = i.todo \ {app}, !.app = app])
<1> DEFINE new == [i EXCEPT !.pc = "check", !.todo = i.todo \ {app}, !.app = app]
<1>1. i \in InstRec  BY DEF InstOK
<1>2. new \in InstRec  BY <1>1 DEF InstRec
<1>3. /\ new.pc = "check" /\ new.todo = i.todo \ {app} /\ new.app = app /\ new.asked = i.asked
      /\ new.pushed = i.pushed /\ new.built = i.built /\ new.missed = i.missed
  BY <1>1 DEF InstRec
<1> HIDE DEF new
<1>4. new.pushed \subseteq new.asked /\ new.built \subseteq new.asked
      /\ new.missed \subseteq new.asked /\ new.todo \subseteq new.asked
      /\ new.app \in new.asked
  BY <1>3 DEF InstOK
<1>5. new.pc \in Working /\ new.pc \notin {"yaml", "build"}  BY <1>3 DEF Working
<1>6. ASSUME NEW a \in new.asked \ (new.todo \cup new.missed)
      PROVE  HasBoth(new, a) \/ (new.pc \in Working /\ a = new.app)
  <2>1. CASE a = app  BY <1>3, <1>5, <2>1
  <2>2. CASE a # app
    <3>1. a \in new.asked \ (i.todo \cup new.missed)  BY <1>3, <2>2
    <3>2. i.pc \notin Working  BY DEF Working
    <3> QED  BY <1>2, <1>3, <3>1, <3>2, DoneStays
  <2> QED  BY <2>1, <2>2
<1>9. InstOK(new)  BY <1>2, <1>4, <1>5, <1>6, InstMade
<1> QED  BY <1>9 DEF new

(* An application that is given up. *)
LEMMA NoteOK ==
    ASSUME NEW i, InstOK(i), i.pc \in Working, NEW ok \in BOOLEAN
    PROVE  /\ Note(i, ok) \in InstRec
           /\ Note(i, ok).missed = (IF ok THEN i.missed ELSE i.missed \cup {i.app})
           /\ Note(i, ok).pc = i.pc /\ Note(i, ok).app = i.app /\ Note(i, ok).asked = i.asked
           /\ Note(i, ok).todo = i.todo /\ Note(i, ok).pushed = i.pushed
           /\ Note(i, ok).built = i.built
<1>1. i \in InstRec /\ i.app \in i.asked  BY DEF InstOK
<1>2. i.missed \cup {i.app} \in SUBSET Apps  BY <1>1 DEF InstRec
<1> QED  BY <1>1, <1>2 DEF Note, InstRec

LEMMA LeaveOutOK ==
    ASSUME NEW i, InstOK(i), i.pc \in Working
    PROVE  InstOK([Note(i, FALSE) EXCEPT !.pc = "loop", !.app = NoApp])
<1> DEFINE new == [Note(i, FALSE) EXCEPT !.pc = "loop", !.app = NoApp]
<1>1. i.app \in i.asked  BY DEF InstOK
<1>2. new \in InstRec  BY NoteOK DEF InstRec
<1>3. /\ new.pc = "loop" /\ new.todo = i.todo /\ new.asked = i.asked
      /\ new.pushed = i.pushed /\ new.built = i.built /\ new.missed = i.missed \cup {i.app}
  BY NoteOK DEF InstRec
<1> HIDE DEF new
<1>4. new.pushed \subseteq new.asked /\ new.built \subseteq new.asked
      /\ new.missed \subseteq new.asked /\ new.todo \subseteq new.asked
  BY <1>1, <1>3 DEF InstOK
<1>5. new.pc \notin Working /\ new.pc \notin {"yaml", "build"}  BY <1>3 DEF Working
<1>6. ASSUME NEW a \in new.asked \ (new.todo \cup new.missed) PROVE HasBoth(new, a)
  <2>1. a \in new.asked \ (i.todo \cup new.missed) /\ a # i.app  BY <1>3
  <2> QED  BY <1>2, <1>3, <2>1, DoneStays
<1>9. InstOK(new)  BY <1>2, <1>4, <1>5, <1>6, InstMade
<1> QED  BY <1>9 DEF new

LEMMA CheckOK ==
    ASSUME NEW i, InstOK(i), i.pc = "check"
    PROVE  InstOK([i EXCEPT !.pc = "push"])
<1> DEFINE new == [i EXCEPT !.pc = "push"]
<1>1. i \in InstRec  BY DEF InstOK
<1>2. /\ new \in InstRec /\ new.pc = "push" /\ new.todo = i.todo /\ new.app = i.app
      /\ new.asked = i.asked /\ new.pushed = i.pushed /\ new.built = i.built
      /\ new.missed = i.missed
  BY <1>1 DEF InstRec
<1> HIDE DEF new
<1>3. new.pushed \subseteq new.asked /\ new.built \subseteq new.asked
      /\ new.missed \subseteq new.asked /\ new.todo \subseteq new.asked
      /\ new.app \in new.asked
  BY <1>2 DEF InstOK, Working
<1>4. new.pc \in Working /\ new.pc \notin {"yaml", "build"}  BY <1>2 DEF Working
<1>5. ASSUME NEW a \in new.asked \ (new.todo \cup new.missed)
      PROVE  HasBoth(new, a) \/ (new.pc \in Working /\ a = new.app)
  <2>1. a \in new.asked \ (i.todo \cup new.missed)  BY <1>2
  <2> QED  BY <1>2, <1>4, <2>1, DoneStays
<1>9. InstOK(new)  BY <1>2, <1>3, <1>4, <1>5, InstMade
<1> QED  BY <1>9 DEF new

LEMMA PushOK ==
    ASSUME NEW i, InstOK(i), i.pc = "push", NEW ok \in BOOLEAN
    PROVE  InstOK([Note(i, ok) EXCEPT !.pc = "yaml",
                       !.pushed = IF ok THEN With(Note(i, ok).pushed, i.app, "push")
                                  ELSE Note(i, ok).pushed])
<1> DEFINE P == IF ok THEN With(i.pushed, i.app, "push") ELSE i.pushed
           new == [Note(i, ok) EXCEPT !.pc = "yaml", !.pushed = P]
<1>1. i \in InstRec /\ i.app \in i.asked /\ i.pc \in Working  BY DEF InstOK, Working
<1>2. /\ P \in SUBSET Apps /\ P \subseteq i.asked /\ i.pushed \subseteq P
      /\ ok => ("push" \notin Does(i.app) \/ i.app \in P)
  BY <1>1 DEF InstOK, InstRec, With
<1> HIDE DEF P
<1>3. /\ new \in InstRec /\ new.pc = "yaml" /\ new.todo = i.todo /\ new.app = i.app
      /\ new.asked = i.asked /\ new.pushed = P /\ new.built = i.built
      /\ new.missed = IF ok THEN i.missed ELSE i.missed \cup {i.app}
  BY <1>1, <1>2, NoteOK, ZenonT(60) DEF InstRec
<1>4. InstOK(new)
  <2> HIDE DEF new
  <2>1. new.pushed \subseteq new.asked /\ new.built \subseteq new.asked
        /\ new.missed \subseteq new.asked /\ new.todo \subseteq new.asked
        /\ new.app \in new.asked
    BY <1>1, <1>2, <1>3 DEF InstOK
  <2>2. new.pc \in Working  BY <1>3 DEF Working
  <2>3. new.app \in new.missed \/ "push" \notin Does(new.app) \/ new.app \in new.pushed
    BY <1>2, <1>3
  <2>4. ASSUME NEW a \in new.asked \ (new.todo \cup new.missed)
        PROVE  HasBoth(new, a) \/ (new.pc \in Working /\ a = new.app)
    <3>1. a \in new.asked \ (i.todo \cup new.missed) /\ i.missed \subseteq new.missed  BY <1>3
    <3> QED  BY <1>2, <1>3, <2>2, <3>1, DoneStays
  <2> QED  BY <1>3, <2>1, <2>2, <2>3, <2>4, InstMade
<1> QED  BY <1>1, <1>4, NoteOK DEF P

LEMMA YamlOK ==
    ASSUME NEW i, InstOK(i), i.pc = "yaml", NEW ok \in BOOLEAN
    PROVE  InstOK([Note(i, ok) EXCEPT !.pc = "build"])
<1> DEFINE new == [Note(i, ok) EXCEPT !.pc = "build"]
<1>1. i \in InstRec /\ i.app \in i.asked /\ i.pc \in Working  BY DEF InstOK, Working
<1>2. /\ new \in InstRec /\ new.pc = "build" /\ new.todo = i.todo /\ new.app = i.app
      /\ new.asked = i.asked /\ new.pushed = i.pushed /\ new.built = i.built
      /\ new.missed = IF ok THEN i.missed ELSE i.missed \cup {i.app}
  BY <1>1, NoteOK DEF InstRec
<1> HIDE DEF new
<1>3. new.pushed \subseteq new.asked /\ new.built \subseteq new.asked
      /\ new.missed \subseteq new.asked /\ new.todo \subseteq new.asked
      /\ new.app \in new.asked
  BY <1>1, <1>2 DEF InstOK
<1>4. new.pc \in Working  BY <1>2 DEF Working
<1>5. new.app \in new.missed \/ "push" \notin Does(new.app) \/ new.app \in new.pushed
  BY <1>2 DEF InstOK
<1>6. ASSUME NEW a \in new.asked \ (new.todo \cup new.missed)
      PROVE  HasBoth(new, a) \/ (new.pc \in Working /\ a = new.app)
  <2>1. a \in new.asked \ (i.todo \cup new.missed) /\ i.missed \subseteq new.missed  BY <1>2
  <2> QED  BY <1>2, <1>4, <2>1, DoneStays
<1>9. InstOK(new)  BY <1>2, <1>3, <1>4, <1>5, <1>6, InstMade
<1> QED  BY <1>9 DEF new

LEMMA BuildOK ==
    ASSUME NEW i, InstOK(i), i.pc = "build", NEW ok \in BOOLEAN
    PROVE  InstOK([Note(i, ok) EXCEPT !.pc = "loop", !.app = NoApp,
                       !.built = IF ok THEN With(Note(i, ok).built, i.app, "build")
                                 ELSE Note(i, ok).built])
<1> DEFINE B == IF ok THEN With(i.built, i.app, "build") ELSE i.built
           new == [Note(i, ok) EXCEPT !.pc = "loop", !.app = NoApp, !.built = B]
<1>1. i \in InstRec /\ i.app \in i.asked /\ i.pc \in Working  BY DEF InstOK, Working
<1>2. /\ B \in SUBSET Apps /\ B \subseteq i.asked /\ i.built \subseteq B
      /\ ok => ("build" \notin Does(i.app) \/ i.app \in B)
  BY <1>1 DEF InstOK, InstRec, With
<1> HIDE DEF B
<1>3. /\ new \in InstRec /\ new.pc = "loop" /\ new.todo = i.todo
      /\ new.asked = i.asked /\ new.pushed = i.pushed /\ new.built = B
      /\ new.missed = IF ok THEN i.missed ELSE i.missed \cup {i.app}
  <2>1. /\ Note(i, ok) \in InstRec /\ Note(i, ok).asked = i.asked
        /\ Note(i, ok).todo = i.todo /\ Note(i, ok).pushed = i.pushed
        /\ Note(i, ok).missed = IF ok THEN i.missed ELSE i.missed \cup {i.app}
    BY <1>1, NoteOK
  <2>2. new \in InstRec /\ new.pc = "loop" /\ new.built = B
        /\ new.asked = Note(i, ok).asked /\ new.todo = Note(i, ok).todo
        /\ new.pushed = Note(i, ok).pushed /\ new.missed = Note(i, ok).missed
    BY <1>2, <2>1 DEF InstRec
  <2> HIDE DEF new
  <2> QED  BY <2>1, <2>2
<1>4. InstOK(new)
  <2> HIDE DEF new
  <2>1. new.pushed \subseteq new.asked /\ new.built \subseteq new.asked
        /\ new.missed \subseteq new.asked /\ new.todo \subseteq new.asked
    BY <1>1, <1>2, <1>3 DEF InstOK
  <2>2. new.pc \notin Working /\ new.pc \notin {"yaml", "build"}  BY <1>3 DEF Working
  <2>3. ASSUME NEW a \in new.asked \ (new.todo \cup new.missed) PROVE HasBoth(new, a)
    <3>1. a \in new.asked \ (i.todo \cup new.missed) /\ i.missed \subseteq new.missed  BY <1>3
    <3>2. HasBoth(new, a) \/ a = i.app  BY <1>2, <1>3, <3>1, DoneStays
    <3>3. ASSUME a = i.app PROVE HasBoth(new, a)
      <4>1. ok /\ i.app \notin i.missed  BY <1>3, <3>3
      <4>2. "push" \notin Does(i.app) \/ i.app \in i.pushed  BY <4>1 DEF InstOK
      <4>3. "build" \notin Does(i.app) \/ i.app \in new.built  BY <1>2, <1>3, <4>1
      <4> QED  BY <1>3, <3>3, <4>2, <4>3 DEF HasBoth
    <3> QED  BY <3>2, <3>3
  <2> QED  BY <1>3, <2>1, <2>2, <2>3, InstMade
<1> QED  BY <1>1, <1>4, NoteOK DEF B

LEMMA InstallersUnchanged ==
    ASSUME InstallersOK, UNCHANGED inst, \A j \in Jobs : AtApps(j) => AtApps(j)'
    PROVE  InstallersOK'
BY DEF InstallersOK

LEMMA InstallersGone ==
    ASSUME InstallersOK, inst' = [j \in Jobs |-> Off]
    PROVE  InstallersOK'
<1>1. inst' \in [Jobs -> InstRec] /\ \A j \in Jobs : inst'[j] = Off
  BY OffIsOK DEF InstOK
<1> QED  BY <1>1, OffIsOK DEF InstallersOK

LEMMA InstallStep ==
    ASSUME StatusTypes, InstallersOK, NEW j \in Jobs, Install(j)
    PROVE  InstallersOK'
<1>0. InstOK(inst[j]) /\ inst[j] \in InstRec  BY DEF InstallersOK
<1>1. ASSUME NEW A \in AppSets, Begin(j, A) PROVE InstallersOK'
  <2>1. AtApps(j) /\ UNCHANGED svars
        /\ inst' = [inst EXCEPT ![j] = [Off EXCEPT !.pc = "loop", !.asked = A, !.todo = A]]
    BY <1>1 DEF Begin, In
  <2> QED  BY <2>1, BeginOK, InstChange
<1>2. ASSUME NEW app \in Installers, Choose(j, app) PROVE InstallersOK'
  <2>1. AtApps(j) /\ UNCHANGED svars /\ inst[j].pc = "loop" /\ app \in inst[j].todo \cap Installers
    BY <1>2 DEF Choose, In
  <2>2. inst' = [inst EXCEPT ![j] = [inst[j] EXCEPT !.pc = "check", !.todo = inst[j].todo \ {app},
                                                    !.app = app]]
    BY <1>0, <1>2 DEF Choose, InstRec, InstallersOK
  <2>3. InstOK([inst[j] EXCEPT !.pc = "check", !.todo = inst[j].todo \ {app}, !.app = app])
    BY <1>0, <2>1, ChooseOK
  <2> QED  BY <2>1, <2>2, <2>3, InstChange
<1>3. CASE CallNil(j)
  BY <1>3, InstallersGone DEF CallNil
<1>4. CASE LeaveOut(j)
  <2>1. AtApps(j) /\ UNCHANGED svars /\ inst[j].pc \in Working
    BY <1>4 DEF LeaveOut, In, Working
  <2>2. inst' = [inst EXCEPT ![j] = [Note(inst[j], FALSE) EXCEPT !.pc = "loop", !.app = NoApp]]
    BY <1>4 DEF LeaveOut
  <2>3. InstOK([Note(inst[j], FALSE) EXCEPT !.pc = "loop", !.app = NoApp])
    BY <1>0, <2>1, LeaveOutOK
  <2> QED  BY <2>1, <2>2, <2>3, InstChange
<1>5. CASE Check(j)
  <2>1. AtApps(j) /\ UNCHANGED svars /\ inst[j].pc = "check"  BY <1>5 DEF Check, In
  <2>2. inst' = [inst EXCEPT ![j] = [inst[j] EXCEPT !.pc = "push"]]
    BY <1>0, <1>5 DEF Check, InstRec, InstallersOK
  <2>3. InstOK([inst[j] EXCEPT !.pc = "push"])  BY <1>0, <2>1, CheckOK
  <2> QED  BY <2>1, <2>2, <2>3, InstChange
<1>6. ASSUME NEW ok \in BOOLEAN, PushDockerImage(j, ok) PROVE InstallersOK'
  <2> DEFINE new == [Note(inst[j], ok) EXCEPT !.pc = "yaml",
                       !.pushed = IF ok THEN With(Note(inst[j], ok).pushed, inst[j].app, "push")
                                  ELSE Note(inst[j], ok).pushed]
  <2>1. AtApps(j) /\ UNCHANGED svars /\ inst[j].pc = "push"  BY <1>6 DEF PushDockerImage, In
  <2>2. inst' = [inst EXCEPT ![j] = new]  BY <1>6 DEF PushDockerImage
  <2>3. InstOK(new)  BY <1>0, <2>1, PushOK
  <2> HIDE DEF new
  <2> QED  BY <2>1, <2>2, <2>3, InstChange
<1>7. ASSUME NEW ok \in BOOLEAN, ModifyYaml(j, ok) PROVE InstallersOK'
  <2> DEFINE new == [Note(inst[j], ok) EXCEPT !.pc = "build"]
  <2>1. AtApps(j) /\ UNCHANGED svars /\ inst[j].pc = "yaml"  BY <1>7 DEF ModifyYaml, In
  <2>2. inst' = [inst EXCEPT ![j] = new]  BY <1>7 DEF ModifyYaml
  <2>3. InstOK(new)  BY <1>0, <2>1, YamlOK
  <2> HIDE DEF new
  <2> QED  BY <2>1, <2>2, <2>3, InstChange
<1>8. ASSUME NEW ok \in BOOLEAN, Build(j, ok) PROVE InstallersOK'
  <2> DEFINE new == [Note(inst[j], ok) EXCEPT !.pc = "loop", !.app = NoApp,
                       !.built = IF ok THEN With(Note(inst[j], ok).built, inst[j].app, "build")
                                 ELSE Note(inst[j], ok).built]
  <2>1. AtApps(j) /\ UNCHANGED svars /\ inst[j].pc = "build"  BY <1>8 DEF Build, In
  <2>2. inst' = [inst EXCEPT ![j] = new]  BY <1>8 DEF Build
  <2>3. InstOK(new)  BY <1>0, <2>1, BuildOK
  <2> HIDE DEF new
  <2> QED  BY <2>1, <2>2, <2>3, InstChange
<1>9. CASE End(j)
  <2>1. inst' = [inst EXCEPT ![j] = Off] /\ InstallK8sModules(j)  BY <1>9 DEF End
  <2>2. inst' \in [Jobs -> InstRec] /\ inst'[j] = Off /\ \A k \in Jobs \ {j} : inst'[k] = inst[k]
    BY <2>1, OffIsOK DEF InstallersOK, InstOK
  <2>3. \A k \in Jobs \ {j} : job'[k] = job[k]  BY <2>1, AppsStep
  <2>4. \A k \in Jobs \ {j} : AtApps(k) => AtApps(k)'  BY <2>3 DEF AtApps, Busy, This
  <2> QED  BY <2>2, <2>4, OffIsOK DEF InstallersOK
<1> QED  BY <1>1, <1>2, <1>3, <1>4, <1>5, <1>6, <1>7, <1>8, <1>9 DEF Install

LEMMA InstallersStep ==
    ASSUME StatusTypes, InstallersOK, [K8sNext]_<<svars, kvars>>
    PROVE  InstallersOK'
<1>1. ASSUME NEW j \in Jobs, JobStep(j), UNCHANGED kvars PROVE InstallersOK'
  BY <1>1, AppsStay, InstallersUnchanged DEF kvars
<1>2. ASSUME NEW j \in Jobs, Install(j) PROVE InstallersOK'
  BY <1>2, InstallStep
<1>3. CASE Die
  BY <1>3, InstallersGone DEF Die
<1>4. CASE Restart /\ UNCHANGED kvars
  BY <1>4, InstallersUnchanged DEF kvars, Restart, AtApps, Busy, This
<1>5. CASE UNCHANGED <<svars, kvars>>
  BY <1>5, InstallersUnchanged DEF kvars, svars, AtApps, Busy, This
<1> QED  BY <1>1, <1>2, <1>3, <1>4, <1>5 DEF K8sNext

-----------------------------------------------------------------------------
(* What has happened. *)
HistoryOK ==
    /\ "overlap" \notin seen => \A j, k \in Jobs : Busy(j) /\ Busy(k) => j = k
    /\ ~up /\ "overlap" \in seen => "crashAfterOverlap" \in seen
    /\ "crashAfterOverlap" \in seen => "overlap" \in seen
    /\ \A j \in Jobs : job[j].kind = "remove" => "removal" \in seen

Clear(events) == seen \cap events = {}

LEMMA IdleOrBusy ==
    ASSUME StatusTypes, NEW j \in Jobs, ~Busy(j)
    PROVE  job[j] = Idle
<1>1. JobOK(job[j]) /\ job[j].at \in Nat  BY DEF StatusTypes, JobsOK, JobRec
<1>2. job[j].at = 0  BY <1>1 DEF Busy
<1> QED  BY <1>1, <1>2 DEF JobOK

LEMMA Alone ==
    ASSUME StatusTypes, HistoryOK, "overlap" \notin seen, NEW j \in Jobs, Busy(j)
    PROVE  \A k \in Jobs \ {j} : job[k] = Idle
<1>1. \A k \in Jobs \ {j} : ~Busy(k)  BY DEF HistoryOK
<1> QED  BY <1>1, IdleOrBusy

(* The kind of statement that is at a place. *)
LEMMA OpAt ==
    ASSUME StatusTypes, NEW j \in Jobs, Busy(j)
    PROVE  LET p == Place(job[j])
           IN  /\ p \in MasterLogins \cup JoinLogins => This(j).op = "logins"
               /\ p \in AppendPlaces => This(j).op = "append"
               /\ p \in LostPlaces => This(j).op = "quitIfLost"
               /\ p \in SavePlaces => This(j).op = "save"
               /\ p = <<"rpms", 1>> => This(j).op = "unless"
               /\ p = <<"remove", 1>> => This(j).op = "forget"
               /\ p = <<"remove", 2>> => This(j).op = "replace"
<1> DEFINE p == Place(job[j])
           s == This(j)
<1>1. JobOK(job[j]) /\ job[j].at > 0  BY DEF StatusTypes, JobsOK, Busy
<1>2. StatementAt(s, p)  BY <1>1, BusyAt DEF This
<1> HIDE DEF p, s
<1> USE DEF SavePlaces, MasterLogins, JoinLogins, AppendPlaces, LostPlaces, DurablePlaces,
            QuitPlaces, OtherSets
<1>3. p \in MasterLogins \cup JoinLogins => s.op = "logins"  BY <1>2 DEF StatementAt
<1>4. p \in AppendPlaces => s.op = "append"  BY <1>2 DEF StatementAt
<1>5. p \in LostPlaces => s.op = "quitIfLost"  BY <1>2 DEF StatementAt
<1>6. p \in SavePlaces => s.op = "save"  BY <1>2 DEF StatementAt
<1>7. p = <<"rpms", 1>> => s.op = "unless"  BY <1>2 DEF StatementAt
<1>8. p = <<"remove", 1>> => s.op = "forget"  BY <1>2 DEF StatementAt
<1>9. p = <<"remove", 2>> => s.op = "replace"  BY <1>2 DEF StatementAt
<1> QED  BY <1>3, <1>4, <1>5, <1>6, <1>7, <1>8, <1>9 DEF p, s

(* The step of a job is of one of four kinds: a start; one that stays at   *)
(* its statement; the end of the job; the way to the next statement.       *)
Starts(j) == \E kind \in Kinds : \E H \in PlanHosts(kind) : Start(j, kind, H)
Stays(j) == Busy(j) /\ Kept(job'[j], job[j])
Ends(j) == Busy(j) /\ job'[j] = Idle
Moves(j) == /\ Busy(j) /\ Place(job[j]) \notin LastPlaces
            /\ Place(job'[j]) = <<job[j].kind, job[j].at + 1>>
            /\ job'[j].hosts = job[j].hosts /\ job'[j].write = ""

LEMMA GoKinds ==
    ASSUME StatusTypes, NEW j \in Jobs, Busy(j), Go(j)
    PROVE  Ends(j) \/ Moves(j)
<1>1. job'[j] = Past(job[j]) /\ JobOK(job[j]) /\ job[j].at > 0
  BY GoStep DEF StatusTypes, JobsOK, Busy
<1> QED  BY <1>1, PastOK DEF Ends, Moves

LEMMA HostLoop ==
    ASSUME StatusTypes, NEW j \in Jobs
    PROVE  /\ \A h \in Nodes : \A ok \in BOOLEAN : AppendNode(j, h, ok) =>
                /\ Busy(j) /\ JobsOK' /\ \A k \in Jobs \ {j} : job'[k] = job[k]
                /\ Stays(j) \/ Ends(j) \/ Moves(j)
                /\ Place(job[j]) \in LastPlaces \/ ~Ends(j)
                /\ \/ job'[j].write = ""
                   \/ job'[j].write = job[j].write /\ job'[j].snap = job[j].snap
           /\ \A h \in Nodes : ForgetNode(j, h) =>
                /\ Busy(j) /\ JobsOK' /\ \A k \in Jobs \ {j} : job'[k] = job[k]
                /\ Stays(j) \/ Ends(j) \/ Moves(j)
                /\ Place(job[j]) \in LastPlaces \/ ~Ends(j)
                /\ \/ job'[j].write = ""
                   \/ job'[j].write = job[j].write /\ job'[j].snap = job[j].snap
<1> USE DEF StatusTypes
<1>0. job[j] \in JobRec  BY DEF JobsOK
<1>1. ASSUME NEW todo \in SUBSET job[j].todo, NEW lost \in BOOLEAN, Busy(j),
             job' = [job EXCEPT ![j] = Served([job[j] EXCEPT !.todo = todo, !.lost = lost])]
      PROVE  /\ JobsOK' /\ \A k \in Jobs \ {j} : job'[k] = job[k]
             /\ Stays(j) \/ Ends(j) \/ Moves(j)
             /\ Place(job[j]) \in LastPlaces \/ ~Ends(j)
             /\ \/ job'[j].write = ""
                \/ job'[j].write = job[j].write /\ job'[j].snap = job[j].snap
  <2>1. /\ JobsOK' /\ \A k \in Jobs \ {j} : job'[k] = job[k]
        /\ \/ /\ Place(job'[j]) = Place(job[j])
              /\ job'[j].hosts = job[j].hosts /\ job'[j].write = job[j].write
              /\ job'[j].snap = job[j].snap
           \/ /\ Place(job[j]) \in LastPlaces /\ job'[j] = Idle
           \/ /\ Place(job[j]) \notin LastPlaces
              /\ Place(job'[j]) = <<job[j].kind, job[j].at + 1>>
              /\ job'[j].hosts = job[j].hosts /\ job'[j].write = ""
    BY <1>1, ServedStep
  <2>2. Stays(j) \/ Ends(j) \/ Moves(j)  BY <1>1, <2>1 DEF Stays, Ends, Moves, Kept
  <2>3. Place(job[j]) \notin LastPlaces => ~Ends(j)
    <3>1. SUFFICES ASSUME Place(job[j]) \notin LastPlaces, job'[j] = Idle PROVE FALSE
      BY DEF Ends
    <3>2. Idle.at = 0 /\ job[j].at \in Nat  BY <1>0 DEF Idle, JobRec
    <3>3. job[j].at > 0  BY <1>1 DEF Busy
    <3>4. job'[j].at = job[j].at \/ job'[j].at = job[j].at + 1  BY <2>1, <3>1 DEF Place
    <3>5. 0 = job[j].at \/ 0 = job[j].at + 1  BY <3>1, <3>2, <3>4
    <3>6. job[j].at \in Nat  BY <3>2
    <3> QED  BY <3>3, <3>5, <3>6
  <2>4. \/ job'[j].write = ""
        \/ job'[j].write = job[j].write /\ job'[j].snap = job[j].snap
    <3>1. Idle.write = ""  BY DEF Idle
    <3> QED  BY <2>1, <3>1
  <2> QED  BY <2>1, <2>2, <2>3, <2>4
<1>2. ASSUME NEW h \in Nodes, NEW ok \in BOOLEAN, AppendNode(j, h, ok)
      PROVE  /\ Busy(j) /\ JobsOK' /\ \A k \in Jobs \ {j} : job'[k] = job[k]
             /\ Stays(j) \/ Ends(j) \/ Moves(j)
             /\ Place(job[j]) \in LastPlaces \/ ~Ends(j)
             /\ \/ job'[j].write = ""
                \/ job'[j].write = job[j].write /\ job'[j].snap = job[j].snap
  <2>1. Busy(j)  BY <1>2 DEF AppendNode
  <2>2. job[j].todo \ {h} \in SUBSET job[j].todo /\ (job[j].lost \/ ~ok) \in BOOLEAN  OBVIOUS
  <2>3. job' = [job EXCEPT ![j] = Served([job[j] EXCEPT !.todo = job[j].todo \ {h},
                                                        !.lost = job[j].lost \/ ~ok])]
    BY <1>2 DEF AppendNode
  <2> QED  BY <1>1, <2>1, <2>2, <2>3
<1>3. ASSUME NEW h \in Nodes, ForgetNode(j, h)
      PROVE  /\ Busy(j) /\ JobsOK' /\ \A k \in Jobs \ {j} : job'[k] = job[k]
             /\ Stays(j) \/ Ends(j) \/ Moves(j)
             /\ Place(job[j]) \in LastPlaces \/ ~Ends(j)
             /\ \/ job'[j].write = ""
                \/ job'[j].write = job[j].write /\ job'[j].snap = job[j].snap
  <2>1. Busy(j)  BY <1>3 DEF ForgetNode
  <2>2. job[j].todo \ {h} \in SUBSET job[j].todo /\ job[j].lost \in BOOLEAN
    BY <1>0 DEF JobRec
  <2>3. job' = [job EXCEPT ![j] = Served([job[j] EXCEPT !.todo = job[j].todo \ {h},
                                                        !.lost = job[j].lost])]
    <3>1. [job[j] EXCEPT !.todo = job[j].todo \ {h}]
            = [job[j] EXCEPT !.todo = job[j].todo \ {h}, !.lost = job[j].lost]
      BY <1>0 DEF JobRec
    <3> QED  BY <1>3, <3>1 DEF ForgetNode
  <2> QED  BY <1>1, <2>1, <2>2, <2>3
<1> QED  BY <1>2, <1>3

LEMMA StepKinds ==
    ASSUME StatusTypes, NEW j \in Jobs, JobStep(j)
    PROVE  Starts(j) \/ Stays(j) \/ Ends(j) \/ Moves(j)
<1> USE DEF StatusTypes
<1>1. Starts(j) => Starts(j)  OBVIOUS
<1>2. Assign(j) \/ GoOn(j) \/ SetMasters(j) \/ AddLogins(j) \/ ForgetNobody(j) \/ ReplaceLogins(j)
        \/ WriteFile(j) \/ WriteFails(j) => Go(j) /\ Busy(j)
  BY DEF Assign, GoOn, SetMasters, AddLogins, ForgetNobody, ReplaceLogins, WriteFile, WriteFails, At
<1>3. Return(j) => Leave(j) /\ Busy(j)  BY DEF Return
<1>4. ASSUME NEW h \in Nodes, NEW ok \in BOOLEAN, AppendNode(j, h, ok)
      PROVE  Stays(j) \/ Ends(j) \/ Moves(j)
  BY <1>4, HostLoop
<1>5. ASSUME NEW h \in Nodes, ForgetNode(j, h)
      PROVE  Stays(j) \/ Ends(j) \/ Moves(j)
  BY <1>5, HostLoop
<1>6. RemoveFile(j) \/ Marshal(j) \/ OpenFile(j) => Stays(j)
  BY RemoveFileJobs, MarshalJobs, OpenFileJobs
     DEF Stays, RemoveFile, Marshal, OpenFile, At, MemoryOK
<1>7. Leave(j) /\ Busy(j) => Ends(j)  BY LeaveStep DEF Ends
<1> QED  BY <1>2, <1>3, <1>4, <1>5, <1>6, <1>7, GoKinds DEF JobStep, Starts

(* What a job's step does to the history.                                  *)
LEMMA JobStepHistory ==
    ASSUME StatusTypes, NEW j \in Jobs, JobStep(j)
    PROVE  /\ up /\ up' /\ seen \subseteq seen'
           /\ "crashAfterOverlap" \in seen' => "crashAfterOverlap" \in seen
           /\ "unsaved" \in seen' => "unsaved" \in seen
<1>1. up'
  <2>1. Busy(j) => up  BY BusyMeansUp
  <2>2. Busy(j) \/ up  BY StepKinds DEF Starts, Start, Stays, Ends, Moves
  <2>3. up' = up  BY DEF JobStep, Start, Assign, Return, GoOn, SetMasters, AddLogins, AppendNode,
     ForgetNode, ForgetNobody, ReplaceLogins, RemoveFile, Marshal, OpenFile,
       WriteFile, WriteFails
  <2> QED  BY <2>1, <2>2, <2>3
<1>2. \/ seen' = seen \/ seen' = seen \cup {"lostJoin"} \/ seen' = seen \cup {"unwritten"}
      \/ \E kind \in Kinds : seen' = seen \cup (IF Quiet THEN {} ELSE {"overlap"})
                                          \cup (IF kind = "remove" THEN {"removal"} ELSE {})
  BY DEF JobStep, Start, Assign, Return, GoOn, SetMasters, AddLogins, AppendNode,
     ForgetNode, ForgetNobody, ReplaceLogins, RemoveFile, Marshal, OpenFile,
       WriteFile, WriteFails
<1>3. up
  BY <1>1 DEF JobStep, Start, Assign, Return, GoOn, SetMasters, AddLogins, AppendNode,
     ForgetNode, ForgetNobody, ReplaceLogins, RemoveFile, Marshal, OpenFile,
       WriteFile, WriteFails
<1> QED  BY <1>1, <1>2, <1>3

LEMMA HistoryStep ==
    ASSUME StatusTypes, HistoryOK, [K8sNext]_<<svars, kvars>>
    PROVE  HistoryOK'
<1>0. Idle.at = 0 /\ Idle.kind = "" /\ ~(0 > 0)  BY DEF Idle
<1>1. ASSUME NEW j \in Jobs, JobStep(j) PROVE HistoryOK'
  <2>1. /\ up /\ up' /\ seen \subseteq seen'
        /\ "crashAfterOverlap" \in seen' => "crashAfterOverlap" \in seen
    BY <1>1, JobStepHistory
  <2>2. \A k \in Jobs \ {j} : Place(job'[k]) = Place(job[k])
    BY <1>1, OthersKept DEF Kept
  <2>3. \A k \in Jobs \ {j} : job'[k].kind = job[k].kind /\ job'[k].at = job[k].at
    BY <2>2 DEF Place
  <2>4. \A k \in Jobs \ {j} : Busy(k)' <=> Busy(k)  BY <2>3 DEF Busy
  <2>5. job'[j].kind = "remove" => "removal" \in seen'
    <3>1. CASE Starts(j)
      <4>0. PICK kind \in Kinds : \E H \in PlanHosts(kind) : Start(j, kind, H)  BY <3>1 DEF Starts
      <4>1. PICK H \in PlanHosts(kind) : Start(j, kind, H)  BY <4>0
      <4>2. Place(job'[j]) = <<kind, 1>>  BY <4>1, StartStep DEF StatusTypes
      <4>3. job'[j].kind = kind  BY <4>2 DEF Place
      <4> QED  BY <4>1, <4>3 DEF Start
    <3>2. CASE Stays(j)
      <4>1. job'[j].kind = job[j].kind  BY <3>2 DEF Stays, Kept, Place
      <4> QED  BY <2>1, <4>1 DEF HistoryOK
    <3>3. CASE Ends(j)  BY <1>0, <3>3 DEF Ends
    <3>4. CASE Moves(j)
      <4>1. job'[j].kind = job[j].kind  BY <3>4 DEF Moves, Place
      <4> QED  BY <2>1, <4>1 DEF HistoryOK
    <3> QED  BY <1>1, <3>1, <3>2, <3>3, <3>4, StepKinds
  <2>6. ASSUME "overlap" \notin seen' PROVE \A k \in Jobs \ {j} : ~Busy(k)
    <3>1. "overlap" \notin seen  BY <2>1, <2>6
    <3>2. CASE Starts(j)
      <4>0. PICK kind \in Kinds : \E H \in PlanHosts(kind) : Start(j, kind, H)  BY <3>2 DEF Starts
      <4>1. PICK H \in PlanHosts(kind) : Start(j, kind, H)  BY <4>0
      <4>2. Quiet  BY <2>6, <4>1 DEF Start
      <4> QED  BY <4>2 DEF Quiet
    <3>3. CASE Busy(j)  BY <3>1, <3>3 DEF HistoryOK
    <3> QED  BY <1>1, <3>2, <3>3, StepKinds DEF Stays, Ends, Moves
  <2>7. "overlap" \notin seen' => \A k, l \in Jobs : Busy(k)' /\ Busy(l)' => k = l
    BY <2>4, <2>6
  <2>8. "crashAfterOverlap" \in seen' => "overlap" \in seen'  BY <2>1 DEF HistoryOK
  <2>9. \A k \in Jobs : job'[k].kind = "remove" => "removal" \in seen'
    BY <2>1, <2>3, <2>5 DEF HistoryOK
  <2> QED  BY <2>1, <2>7, <2>8, <2>9 DEF HistoryOK
<1>2. ASSUME NEW j \in Jobs, InstallK8sModules(j) PROVE HistoryOK'
  <2>1. \A k \in Jobs : job'[k] = job[k] \/ job'[k] = Idle  BY <1>2, AppsStep
  <2>2. up' = up /\ seen' = seen  BY <1>2 DEF InstallK8sModules
  <2>3. \A k \in Jobs : Busy(k)' => Busy(k)  BY <1>0, <2>1 DEF Busy
  <2>4. \A k \in Jobs : job'[k].kind = job[k].kind \/ job'[k].kind = ""  BY <1>0, <2>1
  <2> QED  BY <2>2, <2>3, <2>4 DEF HistoryOK
<1>3. CASE Crash
  <2>1. ~up' /\ \A k \in Jobs : job'[k] = Idle  BY <1>3, CrashTypes
  <2>2. \A k \in Jobs : ~Busy(k)' /\ job'[k].kind = ""  BY <1>0, <2>1 DEF Busy
  <2>3. /\ seen \subseteq seen'
        /\ "overlap" \in seen' <=> "overlap" \in seen
        /\ "crashAfterOverlap" \in seen' <=> ("crashAfterOverlap" \in seen \/ "overlap" \in seen)
    BY <1>3 DEF Crash
  <2> QED  BY <2>1, <2>2, <2>3 DEF HistoryOK
<1>4. CASE Restart
  BY <1>4 DEF Restart, HistoryOK, Busy
<1>5. CASE UNCHANGED svars
  BY <1>5 DEF svars, HistoryOK, Busy
<1>6. CASE UNCHANGED <<svars, kvars>>
  BY <1>5, <1>6
<1> QED  BY <1>1, <1>2, <1>3, <1>4, <1>5, <1>6, StatusSteps

-----------------------------------------------------------------------------
(* The way from one statement to the next. *)
LEMMA GoPlace ==
    ASSUME StatusTypes, NEW j \in Jobs, Busy(j), Go(j), Place(job[j]) \notin LastPlaces
    PROVE  Moves(j)
<1>1. job'[j] = Past(job[j]) /\ JobOK(job[j]) /\ job[j].at > 0
  BY GoStep DEF StatusTypes, JobsOK, Busy
<1> QED  BY <1>1, PastOK DEF Moves

LEMMA NextPlace ==
    ASSUME NEW j \in Jobs, Moves(j)
    PROVE  LET p == Place(job[j])
               q == Place(job'[j])
           IN  /\ p \in DurablePlaces \cup {<<"rpms", 2>>, <<"remove", 2>>} \cup MasterLogins
                        \cup JoinLogins => q \in SavePlaces
               /\ p = <<"master", 1>> => q \in MasterLogins
               /\ p \in AppendPlaces => q \in LostPlaces \cup JoinLogins
               /\ p \in LostPlaces => q \in JoinLogins
               /\ p = <<"remove", 1>> => q = <<"remove", 2>>
<1> DEFINE p == Place(job[j])
           q == Place(job'[j])
<1>1. \A kind, i : p = <<kind, i>> => q = <<kind, i + 1>>  BY DEF Moves, Place
<1>2. 1 + 1 = 2 /\ 2 + 1 = 3 /\ 3 + 1 = 4  OBVIOUS
<1> HIDE DEF p, q
<1> USE DEF SavePlaces, MasterLogins, JoinLogins, AppendPlaces, LostPlaces, DurablePlaces
<1>3. p \in DurablePlaces => q \in SavePlaces  BY <1>1, <1>2
<1>4. p \in {<<"rpms", 2>>, <<"remove", 2>>} => q \in SavePlaces  BY <1>1, <1>2
<1>5. p \in MasterLogins \cup JoinLogins => q \in SavePlaces  BY <1>1, <1>2
<1>6. p = <<"master", 1>> => q \in MasterLogins  BY <1>1, <1>2
<1>7. p \in AppendPlaces => q \in LostPlaces \cup JoinLogins  BY <1>1, <1>2
<1>8. p \in LostPlaces => q \in JoinLogins  BY <1>1, <1>2
<1>9. p = <<"remove", 1>> => q = <<"remove", 2>>  BY <1>1, <1>2
<1> HIDE DEF SavePlaces, MasterLogins, JoinLogins, AppendPlaces, LostPlaces, DurablePlaces
<1>10. p \in DurablePlaces \cup {<<"rpms", 2>>, <<"remove", 2>>} \cup MasterLogins
                        \cup JoinLogins => q \in SavePlaces
  BY <1>3, <1>4, <1>5
<1> QED  BY <1>6, <1>7, <1>8, <1>9, <1>10 DEF p, q

(* What a job does where it stands. *)
LEMMA ActionAt ==
    ASSUME StatusTypes, NEW j \in Jobs, Busy(j), JobStep(j)
    PROVE  LET p == Place(job[j])
           IN  /\ p \in MasterLogins \cup JoinLogins => AddLogins(j)
               /\ p \in AppendPlaces => \E h \in Nodes : \E ok \in BOOLEAN : AppendNode(j, h, ok)
               /\ p \in LostPlaces \cup {<<"rpms", 1>>} => Return(j) \/ GoOn(j)
               /\ p \in SavePlaces => \/ RemoveFile(j) \/ Marshal(j) \/ OpenFile(j)
                                    \/ WriteFile(j) \/ WriteFails(j)
               /\ p = <<"remove", 1>> => (\E h \in Nodes : ForgetNode(j, h)) \/ ForgetNobody(j)
               /\ p = <<"remove", 2>> => ReplaceLogins(j)
<1>1. \/ This(j).op \in {"set", "maybe"}
      \/ This(j).op \in {"quit", "quitSetting", "unless", "quitIfLost"} /\ (Return(j) \/ GoOn(j))
      \/ This(j).op = "masters"
      \/ This(j).op = "logins" /\ AddLogins(j)
      \/ This(j).op = "append" /\ \E h \in Nodes : \E ok \in BOOLEAN : AppendNode(j, h, ok)
      \/ This(j).op = "forget" /\ ((\E h \in Nodes : ForgetNode(j, h)) \/ ForgetNobody(j))
      \/ This(j).op = "replace" /\ ReplaceLogins(j)
      \/ This(j).op = "save" /\ (\/ RemoveFile(j) \/ Marshal(j) \/ OpenFile(j)
                                  \/ WriteFile(j) \/ WriteFails(j))
  <2>1. RemoveFile(j) \/ Marshal(j) \/ OpenFile(j) \/ WriteFile(j) \/ WriteFails(j)
          => This(j).op = "save"
    BY DEF RemoveFile, Marshal, OpenFile, WriteFile, WriteFails, At
  <2>2. \A kind \in Kinds : \A H \in PlanHosts(kind) : ~Start(j, kind, H)
    BY DEF Start
  <2>3. /\ Assign(j) => This(j).op \in {"set", "maybe"}
        /\ Return(j) \/ GoOn(j) => This(j).op \in {"quit", "quitSetting", "unless", "quitIfLost"}
        /\ SetMasters(j) => This(j).op = "masters"
        /\ AddLogins(j) => This(j).op = "logins"
    BY DEF Assign, Return, GoOn, SetMasters, AddLogins
  <2>4. /\ (\E h \in Nodes : \E ok \in BOOLEAN : AppendNode(j, h, ok)) => This(j).op = "append"
        /\ (\E h \in Nodes : ForgetNode(j, h)) \/ ForgetNobody(j) => This(j).op = "forget"
        /\ ReplaceLogins(j) => This(j).op = "replace"
    BY DEF AppendNode, ForgetNode, ForgetNobody, ReplaceLogins
  <2> QED  BY <2>1, <2>2, <2>3, <2>4, ZenonT(30) DEF JobStep
<1> QED  BY <1>1, OpAt

-----------------------------------------------------------------------------
(* The entry: once it has been installed, its address is known to memory,  *)
(* or to the file while the server is down.                                *)
EntryOK ==
    Clear({"overlap", "unsaved"}) =>
        /\ entries <= 1
        /\ entries = 1 => "entry" \in (IF up THEN mem.known ELSE OnFile.known)
        /\ \A j \in Jobs : Place(job[j]) = <<"rpms", 2>> => entries = 0

LEMMA IdleIsNowhere ==
    /\ Place(Idle) # <<"rpms", 2>> /\ Place(Idle) \notin {<<"remove", 1>>, <<"remove", 2>>}
    /\ Place(Idle) \notin SavePlaces \cup MasterLogins \cup JoinLogins \cup AppendPlaces
                          \cup LostPlaces
<1>1. Place(Idle) = <<"", 0>>  BY IdleIsOK
<1>2. <<"", 0>> # <<"rpms", 2>> /\ <<"", 0>> \notin {<<"remove", 1>>, <<"remove", 2>>}
  OBVIOUS
<1>3. <<"", 0>> \notin SavePlaces  BY DEF SavePlaces
<1>4. <<"", 0>> \notin MasterLogins \cup JoinLogins \cup AppendPlaces \cup LostPlaces
  BY DEF MasterLogins, JoinLogins, AppendPlaces, LostPlaces
<1> QED  BY <1>1, <1>2, <1>3, <1>4

(* A step of a job forgets no field; the one that counts an entry knows it. *)
LEMMA KnownGrows ==
    ASSUME StatusTypes, NEW j \in Jobs, JobStep(j)
    PROVE  /\ mem.known \subseteq mem'.known
           /\ \/ entries' = entries
              \/ /\ Busy(j) /\ Place(job[j]) = <<"rpms", 2>> /\ Moves(j)
                 /\ entries' = entries + 1 /\ "entry" \in mem'.known
<1>1. mem \in Statuses  BY DEF StatusTypes, MemoryOK
<1>2. CASE Assign(j)
  <2>1. Busy(j) /\ Go(j) /\ This(j).op \in {"set", "maybe"}  BY <1>2 DEF Assign
  <2>2. mem' = mem \/ Known(This(j).field)  BY <1>2 DEF Assign
  <2>3. This(j).field \in Fields
    <3>1. This(j).field \in Durable \/ This(j).field \in Fields
      BY <2>1, PlaceOf, "entry" \in Durable DEF Durable
    <3> QED  BY <3>1, FieldSorts
  <2>4. mem.known \subseteq mem'.known  BY <1>1, <2>2, <2>3, KnownOK
  <2>5. CASE This(j).field = "entry"
    <3>1. This(j).op = "set" /\ Place(job[j]) = <<"rpms", 2>>
      BY <2>1, <2>5, PlaceOf, "entry" \in Durable DEF Durable
    <3>2. Known("entry") /\ entries' = entries + 1  BY <1>2, <2>5, <3>1 DEF Assign
    <3>3. "entry" \in mem'.known  BY <1>1, <2>3, <2>5, <3>2, KnownOK
    <3>4. Place(job[j]) \notin LastPlaces  BY <3>1 DEF LastPlaces
    <3>5. Moves(j)  BY <2>1, <3>4, GoPlace
    <3> QED  BY <2>1, <2>4, <3>1, <3>2, <3>3, <3>5
  <2>6. CASE This(j).field # "entry"
    <3>1. entries' = entries  BY <1>2, <2>6 DEF Assign
    <3> QED  BY <2>4, <3>1
  <2> QED  BY <2>5, <2>6
<1>3. CASE Return(j)
  <2>1. Busy(j) /\ entries' = entries  BY <1>3 DEF Return
  <2>2. mem' = mem \/ (This(j).field \in Fields /\ Known(This(j).field))
    BY <1>3, <2>1, PlaceOf, FieldSorts DEF Return
  <2> QED  BY <1>1, <2>1, <2>2, KnownOK
<1>4. CASE ~Assign(j) /\ ~Return(j)
  <2>1. entries' = entries
    BY <1>4 DEF JobStep, Start, GoOn, SetMasters, AddLogins, AppendNode, ForgetNode,
       ForgetNobody, ReplaceLogins, RemoveFile, Marshal, OpenFile,
       WriteFile, WriteFails
  <2>2. mem'.known = mem.known
    BY <1>1, <1>4 DEF JobStep, Start, GoOn, SetMasters, AddLogins, AppendNode, ForgetNode,
       ForgetNobody, ReplaceLogins, RemoveFile, Marshal, OpenFile, WriteFile, WriteFails, Statuses
  <2> QED  BY <2>1, <2>2
<1> QED  BY <1>2, <1>3, <1>4

LEMMA EntryJobStep ==
    ASSUME StatusTypes, HistoryOK, EntryOK, NEW j \in Jobs, JobStep(j)
    PROVE  EntryOK'
<1>1. /\ up /\ up' /\ seen \subseteq seen'
      /\ "unsaved" \in seen' => "unsaved" \in seen
  BY JobStepHistory
<1>2. SUFFICES ASSUME Clear({"overlap", "unsaved"})'
               PROVE  /\ entries' <= 1
                      /\ entries' = 1 => "entry" \in mem'.known
                      /\ \A k \in Jobs : Place(job'[k]) = <<"rpms", 2>> => entries' = 0
  BY <1>1 DEF EntryOK
<1>3. /\ "overlap" \notin seen
      /\ entries <= 1
      /\ entries = 1 => "entry" \in mem.known
      /\ \A k \in Jobs : Place(job[k]) = <<"rpms", 2>> => entries = 0
  BY <1>1, <1>2 DEF EntryOK, Clear
<1>4. mem.known \subseteq mem'.known  BY KnownGrows
<1>5. entries \in Nat  BY DEF StatusTypes, CountersOK
<1>6. \A k \in Jobs \ {j} : Place(job'[k]) = Place(job[k])  BY OthersKept DEF Kept
<1>7. CASE entries' = entries
  <2>1. ASSUME Place(job'[j]) = <<"rpms", 2>> PROVE entries' = 0
    <3>1. CASE Starts(j)
      <4>1. PICK kind \in Kinds : \E H \in PlanHosts(kind) : Start(j, kind, H)  BY <3>1 DEF Starts
      <4>2. PICK H \in PlanHosts(kind) : Start(j, kind, H)  BY <4>1
      <4>3. Place(job'[j]) = <<kind, 1>>  BY <4>2, StartStep DEF StatusTypes
      <4>4. 1 = 2  BY <2>1, <4>3
      <4> QED  BY <4>4
    <3>2. CASE Stays(j)  BY <1>3, <1>7, <2>1, <3>2 DEF Stays, Kept
    <3>3. CASE Ends(j)
      <4>1. Place(job'[j]) = Place(Idle)  BY <3>3 DEF Ends
      <4> QED  BY <2>1, <4>1, IdleIsNowhere
    <3>4. CASE Moves(j)
      <4>1. <<job[j].kind, job[j].at + 1>> = <<"rpms", 2>>  BY <2>1, <3>4 DEF Moves
      <4>2. job[j].at \in Nat  BY DEF StatusTypes, JobsOK, JobRec
      <4>3. job[j].kind = "rpms" /\ job[j].at = 1  BY <4>1, <4>2
      <4>4. Busy(j) /\ Place(job[j]) = <<"rpms", 1>>  BY <3>4, <4>3 DEF Moves, Place
      <4>5. This(j).op = "unless" /\ This(j).field = "entry"  BY <4>4, OpAt, PlaceOf
      <4>6. ~Return(j)
        <5>1. ASSUME Return(j) PROVE FALSE
          <6>1. job'[j] = Idle  BY <5>1, LeaveStep DEF Return, StatusTypes
          <6>2. Place(job'[j]) = Place(Idle)  BY <6>1
          <6> QED  BY <2>1, <6>2, IdleIsNowhere
        <5> QED  BY <5>1
      <4>7. GoOn(j)  BY <4>4, <4>6, ActionAt
      <4>8. "entry" \notin mem.known  BY <4>5, <4>7 DEF GoOn
      <4>9. entries # 1  BY <1>3, <4>8
      <4>10. entries = 0
        <5>1. entries \in Nat /\ entries <= 1 /\ entries # 1  BY <1>3, <1>5, <4>9
        <5> QED  BY <5>1
      <4> QED  BY <1>7, <4>10
    <3> QED  BY <3>1, <3>2, <3>3, <3>4, StepKinds
  <2>2. \A k \in Jobs : Place(job'[k]) = <<"rpms", 2>> => entries' = 0
    <3>1. \A k \in Jobs \ {j} : Place(job'[k]) = <<"rpms", 2>> => entries' = 0
      BY <1>3, <1>6, <1>7
    <3> QED  BY <2>1, <3>1
  <2>3. entries' <= 1  BY <1>3, <1>7
  <2>4. entries' = 1 => "entry" \in mem'.known  BY <1>3, <1>4, <1>7
  <2> QED  BY <2>2, <2>3, <2>4
<1>8. CASE entries' # entries
  <2>1. /\ Busy(j) /\ Place(job[j]) = <<"rpms", 2>> /\ Moves(j)
        /\ entries' = entries + 1 /\ "entry" \in mem'.known
    BY <1>8, KnownGrows
  <2>2. entries' = 1  BY <1>3, <2>1
  <2>3. \A k \in Jobs \ {j} : job[k] = Idle  BY <1>3, <2>1, Alone
  <2>5. \A k \in Jobs \ {j} : Place(job'[k]) # <<"rpms", 2>>
    BY <1>6, <2>3, IdleIsNowhere
  <2>6. Place(job'[j]) \in SavePlaces  BY <2>1, NextPlace
  <2>7. <<"rpms", 2>> \notin SavePlaces  BY DEF SavePlaces
  <2> QED  BY <2>1, <2>2, <2>5, <2>6, <2>7
<1> QED  BY <1>7, <1>8

LEMMA EntryStep ==
    ASSUME StatusTypes, HistoryOK, EntryOK, [K8sNext]_<<svars, kvars>>
    PROVE  EntryOK'
<1>0. Place(Idle) # <<"rpms", 2>>  BY IdleIsNowhere
<1>1. ASSUME NEW j \in Jobs, InstallK8sModules(j) PROVE EntryOK'
  <2>1. UNCHANGED <<mem, file, up, entries, seen>>  BY <1>1 DEF InstallK8sModules
  <2>2. \A k \in Jobs : job'[k] = job[k] \/ job'[k] = Idle  BY <1>1, AppsStep
  <2> QED  BY <1>0, <2>1, <2>2 DEF EntryOK, Clear, OnFile
<1>2. CASE Crash
  <2>1. /\ up /\ ~up' /\ entries' = entries /\ file' = file /\ seen \subseteq seen'
        /\ "unsaved" \notin seen' => ~Unsaved
    BY <1>2 DEF Crash
  <2>2. \A k \in Jobs : job'[k] = Idle  BY <1>2, CrashTypes
  <2>3. OnFile' = OnFile  BY <2>1 DEF OnFile
  <2>4. ~Unsaved /\ "entry" \in mem.known => "entry" \in OnFile.known
    BY DEF Unsaved, Durable
  <2> QED  BY <1>0, <2>1, <2>2, <2>3, <2>4 DEF EntryOK, Clear
<1>3. CASE Restart
  <2>1. ~up /\ up' /\ mem'.known = OnFile.known /\ job' = job  BY <1>3, RestartTypes DEF Restart
  <2>2. entries' = entries /\ seen' = seen  BY <1>3 DEF Restart
  <2> QED  BY <2>1, <2>2 DEF EntryOK, Clear
<1>4. CASE UNCHANGED svars
  BY <1>4 DEF svars, EntryOK, Clear, OnFile
<1>5. CASE UNCHANGED <<svars, kvars>>
  BY <1>4, <1>5
<1> QED  BY <1>1, <1>2, <1>3, <1>4, <1>5, EntryJobStep, StatusSteps

-----------------------------------------------------------------------------
(* What a job's step does to the file and to the snapshots.                *)
Snapped(j) == job[j].write \in {"open", "write"}

LEMMA WriteStage ==
    ASSUME StatusTypes, NEW j \in Jobs, JobStep(j),
           ~RemoveFile(j), ~Marshal(j), ~OpenFile(j)
    PROVE  \/ job'[j].write = ""
           \/ job'[j].write = job[j].write /\ job'[j].snap = job[j].snap
<1>0. Idle.write = ""  BY DEF Idle
<1>1. CASE Starts(j)
  <2>1. PICK kind \in Kinds : \E H \in PlanHosts(kind) : Start(j, kind, H)  BY <1>1 DEF Starts
  <2>2. PICK H \in PlanHosts(kind) : Start(j, kind, H)  BY <2>1
  <2> QED  BY <2>2, StartStep DEF StatusTypes
<1>2. ASSUME Busy(j), Go(j) PROVE job'[j].write = ""
  BY <1>0, <1>2, GoKinds DEF Ends, Moves
<1>3. Assign(j) \/ GoOn(j) \/ SetMasters(j) \/ AddLogins(j) \/ ForgetNobody(j) \/ ReplaceLogins(j)
        \/ WriteFile(j) \/ WriteFails(j) => Go(j) /\ Busy(j)
  BY DEF Assign, GoOn, SetMasters, AddLogins, ForgetNobody, ReplaceLogins, WriteFile, WriteFails, At
<1>4. Return(j) => job'[j] = Idle  BY LeaveStep DEF Return, StatusTypes
<1>5. ASSUME NEW h \in Nodes, NEW ok \in BOOLEAN, AppendNode(j, h, ok)
      PROVE  \/ job'[j].write = ""
             \/ job'[j].write = job[j].write /\ job'[j].snap = job[j].snap
  BY <1>5, HostLoop
<1>6. ASSUME NEW h \in Nodes, ForgetNode(j, h)
      PROVE  \/ job'[j].write = ""
             \/ job'[j].write = job[j].write /\ job'[j].snap = job[j].snap
  BY <1>6, HostLoop
<1> QED  BY <1>0, <1>1, <1>2, <1>3, <1>4, <1>5, <1>6 DEF JobStep, Starts

LEMMA FileEffects ==
    ASSUME StatusTypes, NEW j \in Jobs, JobStep(j)
    PROVE  /\ \/ OnFile' = OnFile
              \/ OnFile' = Default
              \/ job[j].write = "write" /\ OnFile' = job[j].snap
           /\ \A k \in Jobs :
                Snapped(k)' => \/ Snapped(k) /\ job'[k].snap = job[k].snap
                               \/ /\ k = j /\ Busy(j) /\ Place(job[j]) \in SavePlaces
                                  /\ job'[j].snap = mem /\ mem' = mem
<1> USE DEF StatusTypes
<1>1. \/ OnFile' = OnFile
      \/ OnFile' = Default
      \/ job[j].write = "write" /\ OnFile' = job[j].snap
  <2>1. CASE RemoveFile(j)
    <3>1. file' = NoFile  BY <2>1 DEF RemoveFile
    <3> QED  BY <3>1 DEF OnFile
  <2>2. CASE OpenFile(j)
    <3>1. file' = Torn  BY <2>2 DEF OpenFile
    <3> QED  BY <3>1 DEF OnFile
  <2>3. CASE WriteFile(j)
    <3>1. job[j].write = "write" /\ (file' = file \/ file' = job[j].snap \/ file' = Torn)
      BY <2>3 DEF WriteFile, WriteFails, At
    <3>2. job[j].snap \in Statuses  BY DEF JobsOK, JobRec
    <3>3. job[j].snap \notin {NoFile, Torn}  BY <3>2, NoFileAssumption
    <3> QED  BY <3>1, <3>3 DEF OnFile
  <2>4. CASE WriteFails(j)
    <3>1. file' = file \/ file' = Torn  BY <2>4 DEF WriteFails
    <3> QED  BY <3>1 DEF OnFile
  <2>5. CASE ~RemoveFile(j) /\ ~OpenFile(j) /\ ~WriteFile(j) /\ ~WriteFails(j)
    <3>1. file' = file
      BY <2>5 DEF JobStep, Start, Assign, Return, GoOn, SetMasters, AddLogins, AppendNode,
         ForgetNode, ForgetNobody, ReplaceLogins, Marshal
    <3> QED  BY <3>1 DEF OnFile
  <2> QED  BY <2>1, <2>2, <2>3, <2>4, <2>5
<1>2. ASSUME NEW k \in Jobs \ {j}, Snapped(k)'
      PROVE  Snapped(k) /\ job'[k].snap = job[k].snap
  BY <1>2, OthersKept DEF Snapped
<1>3. ASSUME Snapped(j)'
      PROVE  \/ Snapped(j) /\ job'[j].snap = job[j].snap
             \/ /\ Busy(j) /\ Place(job[j]) \in SavePlaces
                /\ job'[j].snap = mem /\ mem' = mem
  <2>1. CASE RemoveFile(j)
    <3>1. job'[j].write = "marshal"  BY <2>1, RemoveFileJobs
    <3> QED  BY <1>3, <3>1 DEF Snapped
  <2>2. CASE Marshal(j)
    <3>1. Busy(j) /\ This(j).op = "save" /\ mem' = mem  BY <2>2 DEF Marshal, At
    <3>2. Place(job[j]) \in SavePlaces  BY <3>1, PlaceOf
    <3>3. job'[j].snap = mem  BY <2>2, MarshalJobs DEF MemoryOK
    <3> QED  BY <3>1, <3>2, <3>3
  <2>3. CASE OpenFile(j)
    <3>1. job[j].write = "open"  BY <2>3 DEF OpenFile, At
    <3> QED  BY <2>3, <3>1, OpenFileJobs DEF Snapped
  <2>4. CASE ~RemoveFile(j) /\ ~Marshal(j) /\ ~OpenFile(j)
    <3>1. \/ job'[j].write = ""
          \/ job'[j].write = job[j].write /\ job'[j].snap = job[j].snap
      BY <2>4, WriteStage
    <3> QED  BY <1>3, <3>1 DEF Snapped
  <2> QED  BY <2>1, <2>2, <2>3, <2>4
<1> QED  BY <1>1, <1>2, <1>3

-----------------------------------------------------------------------------
(* The logins of masters and nodes. A host that is not in the table yet is *)
(* one of a job that will put it there.                                    *)
Joining == AppendPlaces \cup LostPlaces \cup JoinLogins
Coming(h, places) == \E j \in Jobs : Place(job[j]) \in places /\ h \in job[j].hosts
KnowsMasters(s) == s.ssh # NoMap /\ s.masters \subseteq s.ssh
KnowsNodes(s) == s.ssh # NoMap /\ s.nodes \subseteq s.ssh

MapOK == up /\ "removal" \notin seen => mem.ssh # NoMap
MastersOK ==
    /\ up /\ Clear({"removal", "crashAfterOverlap"}) =>
        \A h \in mem.masters : h \in mem.ssh \/ Coming(h, MasterLogins)
    /\ Clear({"removal", "overlap"}) =>
        /\ KnowsMasters(OnFile)
        /\ \A j \in Jobs : Snapped(j) => KnowsMasters(job[j].snap)
NodesOK ==
    /\ up /\ Clear({"removal", "lostJoin", "crashAfterOverlap"}) =>
        \A h \in mem.nodes : h \in mem.ssh \/ Coming(h, Joining)
    /\ Clear({"removal", "lostJoin", "overlap"}) =>
        /\ KnowsNodes(OnFile)
        /\ \A j \in Jobs : Snapped(j) => KnowsNodes(job[j].snap)
LoginsOK == MapOK /\ MastersOK /\ NodesOK

LEMMA SomeMap == \A H \in SUBSET Hosts : H # NoMap
BY NoMapAssumption DEF Hosts

LEMMA DefaultKnows == KnowsMasters(Default) /\ KnowsNodes(Default)
<1>1. {} # NoMap  BY SomeMap
<1> QED  BY <1>1 DEF Default, KnowsMasters, KnowsNodes

LEMMA Settled ==
    ASSUME LoginsOK, up
    PROVE  /\ /\ Clear({"removal", "crashAfterOverlap"})
              /\ \A j \in Jobs : Place(job[j]) \notin MasterLogins
              => KnowsMasters(mem)
           /\ /\ Clear({"removal", "lostJoin", "crashAfterOverlap"})
              /\ \A j \in Jobs : Place(job[j]) \notin Joining
              => KnowsNodes(mem)
BY DEF LoginsOK, MapOK, MastersOK, NodesOK, Clear, Coming, KnowsMasters, KnowsNodes

(* A job that removes nobody: what it may do to masters, nodes and logins. *)
LEMMA LoginEffects ==
    ASSUME StatusTypes, NEW j \in Jobs, JobStep(j), job[j].kind # "remove"
    PROVE  \/ SetMasters(j)
           \/ AddLogins(j)
           \/ \E h \in Nodes : \E ok \in BOOLEAN : AppendNode(j, h, ok)
           \/ /\ mem'.masters = mem.masters /\ mem'.nodes = mem.nodes /\ mem'.ssh = mem.ssh
              /\ Place(job[j]) \notin MasterLogins \cup JoinLogins \cup AppendPlaces
<1> SUFFICES ASSUME ~SetMasters(j), ~AddLogins(j),
                    ~\E h \in Nodes : \E ok \in BOOLEAN : AppendNode(j, h, ok)
             PROVE  /\ mem'.masters = mem.masters /\ mem'.nodes = mem.nodes /\ mem'.ssh = mem.ssh
                    /\ Place(job[j]) \notin MasterLogins \cup JoinLogins \cup AppendPlaces
  OBVIOUS
<1>1. Place(job[j]) \notin MasterLogins \cup JoinLogins \cup AppendPlaces
  <2>1. CASE Busy(j)  BY <2>1, ActionAt
  <2>2. CASE ~Busy(j)  BY <2>2, IdleOrBusy, IdleIsNowhere
  <2> QED  BY <2>1, <2>2
<1>2. mem \in Statuses  BY DEF StatusTypes, MemoryOK
<1>3. Place(job[j]) # <<"remove", 1>> /\ Place(job[j]) # <<"remove", 2>>  BY DEF Place
<1>4. ~ReplaceLogins(j) /\ ~ForgetNobody(j) /\ ~\E h \in Nodes : ForgetNode(j, h)
  BY <1>3, PlaceOf DEF ReplaceLogins, ForgetNobody, ForgetNode
<1>5. CASE \E f : Known(f)
  BY <1>1, <1>2, <1>5 DEF Known, Statuses
<1>6. CASE ~\E f : Known(f)
  <2>1. mem' = mem
    BY <1>4, <1>6 DEF JobStep, Start, Assign, Return, GoOn, RemoveFile, Marshal, OpenFile,
       WriteFile, WriteFails
  <2> QED  BY <1>1, <2>1
<1> QED  BY <1>5, <1>6

(* Where a job goes on from the statements that leave something to save.   *)
LEMMA PlacesFlow ==
    ASSUME StatusTypes, NEW j \in Jobs, JobStep(j)
    PROVE  LET p == Place(job[j])
               q == Place(job'[j])
           IN  /\ p \in MasterLogins \cup JoinLogins => q \in SavePlaces
               /\ p \in AppendPlaces => q \in Joining /\ job'[j].hosts = job[j].hosts
               /\ p \in LostPlaces =>
                    \/ q \in Joining /\ job'[j].hosts = job[j].hosts
                    \/ "lostJoin" \in seen'
               /\ p \in RemovePlaces => q \in RemovePlaces \cup SavePlaces
<1>1. ASSUME ~Busy(j)
      PROVE  Place(job[j]) \notin MasterLogins \cup JoinLogins \cup AppendPlaces \cup LostPlaces
                                    \cup RemovePlaces
  BY <1>1, IdleOrBusy, IdleIsNowhere DEF RemovePlaces
<1>2. ASSUME Busy(j), Place(job[j]) \in MasterLogins \cup JoinLogins
      PROVE  Place(job'[j]) \in SavePlaces
  <2>1. Go(j)  BY <1>2, ActionAt DEF AddLogins
  <2>2. Place(job[j]) \notin LastPlaces  BY <1>2 DEF MasterLogins, JoinLogins, LastPlaces
  <2> QED  BY <1>2, <2>1, <2>2, GoPlace, NextPlace
<1>3. ASSUME Busy(j), Place(job[j]) \in AppendPlaces
      PROVE  Place(job'[j]) \in Joining /\ job'[j].hosts = job[j].hosts
  <2>1. \E g \in Nodes : \E ok \in BOOLEAN : AppendNode(j, g, ok)  BY <1>3, ActionAt
  <2>2. Place(job[j]) \notin LastPlaces  BY <1>3 DEF AppendPlaces, LastPlaces
  <2>3. Stays(j) \/ Moves(j)  BY <2>1, <2>2, HostLoop
  <2> QED  BY <1>3, <2>3, NextPlace DEF Stays, Moves, Kept, Joining
<1>4. ASSUME Busy(j), Place(job[j]) \in LostPlaces, "lostJoin" \notin seen'
      PROVE  Place(job'[j]) \in Joining /\ job'[j].hosts = job[j].hosts
  <2>1. Return(j) \/ GoOn(j)  BY <1>4, ActionAt
  <2>2. ~Return(j)
    <3>1. ASSUME Return(j) PROVE FALSE
      <4>1. This(j).op = "quitIfLost"  BY <1>4, OpAt
      <4>2. "lostJoin" \in seen'  BY <3>1, <4>1 DEF Return
      <4> QED  BY <1>4, <4>2
    <3> QED  BY <3>1
  <2>3. Go(j)  BY <2>1, <2>2 DEF GoOn
  <2>4. Place(job[j]) \notin LastPlaces  BY <1>4 DEF LostPlaces, LastPlaces
  <2>5. Moves(j)  BY <1>4, <2>3, <2>4, GoPlace
  <2> QED  BY <1>4, <2>5, NextPlace DEF Moves, Joining
<1>5. ASSUME Busy(j), Place(job[j]) = <<"remove", 1>>
      PROVE  Place(job'[j]) \in RemovePlaces
  <2>1. Place(job[j]) \notin LastPlaces  BY <1>5 DEF LastPlaces
  <2>2. (\E h \in Nodes : ForgetNode(j, h)) \/ ForgetNobody(j)  BY <1>5, ActionAt
  <2>3. Stays(j) \/ Moves(j)  BY <1>5, <2>1, <2>2, HostLoop, GoPlace DEF ForgetNobody
  <2> QED  BY <1>5, <2>3, NextPlace DEF Stays, Kept, RemovePlaces
<1>6. ASSUME Busy(j), Place(job[j]) = <<"remove", 2>>
      PROVE  Place(job'[j]) \in SavePlaces
  <2>1. Go(j)  BY <1>6, ActionAt DEF ReplaceLogins
  <2>2. Place(job[j]) \notin LastPlaces  BY <1>6 DEF LastPlaces
  <2> QED  BY <1>6, <2>1, <2>2, GoPlace, NextPlace
<1>7. Place(job[j]) \in RemovePlaces
        => Place(job[j]) = <<"remove", 1>> \/ Place(job[j]) = <<"remove", 2>>
  BY DEF RemovePlaces
<1> QED  BY <1>1, <1>2, <1>3, <1>4, <1>5, <1>6, <1>7

(* What AddLogins leaves behind, if there is a map. *)
LEMMA LoginsAdded ==
    ASSUME StatusTypes, NEW j \in Jobs, AddLogins(j), mem.ssh # NoMap
    PROVE  /\ mem'.masters = mem.masters /\ mem'.nodes = mem.nodes
           /\ mem'.ssh = mem.ssh \cup job[j].hosts /\ mem'.ssh # NoMap
<1>1. mem \in Statuses  BY DEF StatusTypes, MemoryOK
<1>2. /\ mem'.masters = mem.masters /\ mem'.nodes = mem.nodes
      /\ mem'.ssh = mem.ssh \cup job[j].hosts
  BY <1>1 DEF AddLogins, Statuses
<1>3. mem.ssh \cup job[j].hosts \in SUBSET Hosts  BY <1>1, HostsOf DEF Statuses
<1>4. mem'.ssh # NoMap  BY <1>2, <1>3, SomeMap
<1> QED  BY <1>2, <1>4

LEMMA MapJobStep ==
    ASSUME StatusTypes, HistoryOK, MapOK, NEW j \in Jobs, JobStep(j)
    PROVE  MapOK'
<1>1. up /\ seen \subseteq seen'  BY JobStepHistory
<1>2. SUFFICES ASSUME "removal" \notin seen' PROVE mem'.ssh # NoMap  BY DEF MapOK
<1>3. "removal" \notin seen /\ mem.ssh # NoMap  BY <1>1, <1>2 DEF MapOK
<1>4. job[j].kind # "remove"  BY <1>3 DEF HistoryOK
<1>5. mem \in Statuses  BY DEF StatusTypes, MemoryOK
<1>6. SetMasters(j) => mem'.ssh = mem.ssh  BY <1>5 DEF SetMasters, Statuses
<1>7. \A h, ok : AppendNode(j, h, ok) => mem'.ssh = mem.ssh  BY <1>5 DEF AppendNode, Statuses
<1> QED  BY <1>3, <1>4, <1>6, <1>7, LoginEffects, LoginsAdded

LEMMA MastersJobStep ==
    ASSUME StatusTypes, HistoryOK, LoginsOK, NEW j \in Jobs, JobStep(j)
    PROVE  MastersOK'
<1>0. mem \in Statuses  BY DEF StatusTypes, MemoryOK
<1>1. /\ up /\ seen \subseteq seen'
      /\ "crashAfterOverlap" \in seen' => "crashAfterOverlap" \in seen
  BY JobStepHistory
<1>2. \A k \in Jobs \ {j} : Kept(job'[k], job[k])  BY OthersKept
<1>3. ASSUME Clear({"removal", "crashAfterOverlap"})', NEW h \in mem'.masters
      PROVE  h \in mem'.ssh \/ Coming(h, MasterLogins)'
  <2>1. Clear({"removal", "crashAfterOverlap"})  BY <1>1, <1>3 DEF Clear
  <2>2. job[j].kind # "remove" /\ mem.ssh # NoMap
    BY <1>1, <2>1 DEF Clear, HistoryOK, LoginsOK, MapOK
  <2>3. \A g \in mem.masters : g \in mem.ssh \/ Coming(g, MasterLogins)
    BY <1>1, <2>1 DEF LoginsOK, MastersOK
  <2>4. CASE SetMasters(j)
    <3>1. Busy(j) /\ Go(j) /\ This(j).op = "masters" /\ mem'.masters = job[j].hosts
      BY <1>0, <2>4 DEF SetMasters, Statuses
    <3>2. Place(job[j]) = <<"master", 1>>  BY <3>1, PlaceOf
    <3>3. Place(job[j]) \notin LastPlaces  BY <3>2 DEF LastPlaces
    <3>4. Moves(j)  BY <3>1, <3>3, GoPlace
    <3>5. Place(job'[j]) \in MasterLogins  BY <3>2, <3>4, NextPlace
    <3>6. job'[j].hosts = job[j].hosts  BY <3>4 DEF Moves
    <3> QED  BY <1>3, <3>1, <3>5, <3>6 DEF Coming
  <2>5. CASE AddLogins(j)
    <3>1. mem'.masters = mem.masters /\ mem'.ssh = mem.ssh \cup job[j].hosts
      BY <2>2, <2>5, LoginsAdded
    <3>2. SUFFICES ASSUME h \notin mem'.ssh PROVE Coming(h, MasterLogins)'  OBVIOUS
    <3>3. Coming(h, MasterLogins)  BY <1>3, <2>3, <3>1, <3>2
    <3>4. PICK k \in Jobs : Place(job[k]) \in MasterLogins /\ h \in job[k].hosts
      BY <3>3 DEF Coming
    <3>5. k # j  BY <3>1, <3>2, <3>4
    <3> QED  BY <1>2, <3>4, <3>5 DEF Kept, Coming
  <2>6. CASE /\ mem'.masters = mem.masters /\ mem'.ssh = mem.ssh
             /\ Place(job[j]) \notin MasterLogins
    <3>1. SUFFICES ASSUME h \notin mem'.ssh PROVE Coming(h, MasterLogins)'  OBVIOUS
    <3>2. Coming(h, MasterLogins)  BY <1>3, <2>3, <2>6, <3>1
    <3>3. PICK k \in Jobs : Place(job[k]) \in MasterLogins /\ h \in job[k].hosts
      BY <3>2 DEF Coming
    <3>4. k # j  BY <2>6, <3>3
    <3> QED  BY <1>2, <3>3, <3>4 DEF Kept, Coming
  <2>7. ASSUME NEW g \in Nodes, NEW ok \in BOOLEAN, AppendNode(j, g, ok)
        PROVE  /\ mem'.masters = mem.masters /\ mem'.ssh = mem.ssh
               /\ Place(job[j]) \notin MasterLogins
    <3>1. mem'.masters = mem.masters /\ mem'.ssh = mem.ssh
      BY <1>0, <2>7 DEF AppendNode, Statuses
    <3>2. Place(job[j]) \in AppendPlaces  BY <2>7, PlaceOf DEF AppendNode
    <3> QED  BY <3>1, <3>2 DEF AppendPlaces, MasterLogins
  <2> QED  BY <2>2, <2>4, <2>5, <2>6, <2>7, LoginEffects
<1>4. ASSUME Clear({"removal", "overlap"})'
      PROVE  /\ KnowsMasters(OnFile)'
             /\ \A k \in Jobs : Snapped(k)' => KnowsMasters(job'[k].snap)
  <2>1. Clear({"removal", "overlap"}) /\ Clear({"removal", "crashAfterOverlap"})
    BY <1>1, <1>4 DEF Clear, HistoryOK
  <2>2. /\ KnowsMasters(OnFile)
        /\ \A k \in Jobs : Snapped(k) => KnowsMasters(job[k].snap)
    BY <2>1 DEF LoginsOK, MastersOK
  <2>3. KnowsMasters(OnFile')
    <3>1. job[j].write = "write" => KnowsMasters(job[j].snap)  BY <2>2 DEF Snapped
    <3> QED  BY <2>2, <3>1, FileEffects, DefaultKnows
  <2>4. ASSUME Busy(j), Place(job[j]) \in SavePlaces PROVE KnowsMasters(mem)
    <3>1. \A k \in Jobs \ {j} : job[k] = Idle  BY <2>1, <2>4, Alone DEF Clear
    <3>2. \A k \in Jobs : Place(job[k]) \notin MasterLogins
      BY <2>4, <3>1, IdleIsNowhere DEF SavePlaces, MasterLogins
    <3> QED  BY <1>1, <2>1, <3>2, Settled
  <2>5. \A k \in Jobs : Snapped(k)' => KnowsMasters(job'[k].snap)
    BY <2>2, <2>4, FileEffects
  <2>6. KnowsMasters(OnFile)'  BY <2>3 DEF KnowsMasters
  <2> QED  BY <2>5, <2>6
<1> QED  BY <1>3, <1>4 DEF MastersOK

LEMMA NodesJobStep ==
    ASSUME StatusTypes, HistoryOK, LoginsOK, NEW j \in Jobs, JobStep(j)
    PROVE  NodesOK'
<1>0. mem \in Statuses  BY DEF StatusTypes, MemoryOK
<1>1. /\ up /\ seen \subseteq seen'
      /\ "crashAfterOverlap" \in seen' => "crashAfterOverlap" \in seen
  BY JobStepHistory
<1>2. \A k \in Jobs \ {j} : Kept(job'[k], job[k])  BY OthersKept
<1>3. ASSUME Clear({"removal", "lostJoin", "crashAfterOverlap"})', NEW h \in mem'.nodes
      PROVE  h \in mem'.ssh \/ Coming(h, Joining)'
  <2>1. /\ Clear({"removal", "lostJoin", "crashAfterOverlap"})
        /\ "lostJoin" \notin seen'
    BY <1>1, <1>3 DEF Clear
  <2>2. job[j].kind # "remove" /\ mem.ssh # NoMap
    BY <1>1, <2>1 DEF Clear, HistoryOK, LoginsOK, MapOK
  <2>3. \A g \in mem.nodes : g \in mem.ssh \/ Coming(g, Joining)
    BY <1>1, <2>1 DEF LoginsOK, NodesOK
  <2>4. ASSUME Place(job[j]) \in AppendPlaces \cup LostPlaces
        PROVE  Place(job'[j]) \in Joining /\ job'[j].hosts = job[j].hosts
    BY <2>1, <2>4, PlacesFlow
  <2>5. ASSUME Coming(h, Joining), Place(job[j]) \notin JoinLogins
        PROVE  Coming(h, Joining)'
    <3>1. PICK k \in Jobs : Place(job[k]) \in Joining /\ h \in job[k].hosts
      BY <2>5 DEF Coming
    <3>2. Place(job'[k]) \in Joining /\ h \in job'[k].hosts
      BY <1>2, <2>4, <2>5, <3>1 DEF Kept, Joining
    <3> QED  BY <3>2 DEF Coming
  <2>6. CASE AddLogins(j)
    <3>1. mem'.nodes = mem.nodes /\ mem'.ssh = mem.ssh \cup job[j].hosts
      BY <2>2, <2>6, LoginsAdded
    <3>2. SUFFICES ASSUME h \notin mem'.ssh PROVE Coming(h, Joining)'  OBVIOUS
    <3>3. Coming(h, Joining)  BY <1>3, <2>3, <3>1, <3>2
    <3>4. PICK k \in Jobs : Place(job[k]) \in Joining /\ h \in job[k].hosts
      BY <3>3 DEF Coming
    <3>5. k # j  BY <3>1, <3>2, <3>4
    <3> QED  BY <1>2, <3>4, <3>5 DEF Kept, Coming
  <2>7. CASE /\ mem'.nodes = mem.nodes /\ mem'.ssh = mem.ssh
             /\ Place(job[j]) \notin JoinLogins
    BY <1>3, <2>3, <2>5, <2>7
  <2>8. SetMasters(j) => /\ mem'.nodes = mem.nodes /\ mem'.ssh = mem.ssh
                         /\ Place(job[j]) \notin JoinLogins
    BY <1>0, PlaceOf DEF SetMasters, Statuses, JoinLogins
  <2>9. ASSUME NEW g \in Nodes, NEW ok \in BOOLEAN, AppendNode(j, g, ok)
        PROVE  h \in mem'.ssh \/ Coming(h, Joining)'
    <3>1. /\ Busy(j) /\ This(j).op = "append" /\ g \in job[j].todo
          /\ mem'.ssh = mem.ssh /\ mem'.nodes \subseteq mem.nodes \cup {g}
      BY <1>0, <2>9 DEF AppendNode, Statuses
    <3>2. Place(job[j]) \in AppendPlaces  BY <3>1, PlaceOf
    <3>3. Place(job[j]) \notin JoinLogins  BY <3>2 DEF AppendPlaces, JoinLogins
    <3>4. CASE h = g
      <4>1. job[j].todo \subseteq job[j].hosts
        BY <3>1 DEF StatusTypes, JobsOK, JobOK, Busy
      <4>2. Place(job'[j]) \in Joining /\ h \in job'[j].hosts  BY <2>4, <3>1, <3>2, <3>4, <4>1
      <4> QED  BY <4>2 DEF Coming
    <3>5. CASE h # g  BY <1>3, <2>3, <2>5, <3>1, <3>3, <3>5
    <3> QED  BY <3>4, <3>5
  <2> QED  BY <2>2, <2>6, <2>7, <2>8, <2>9, LoginEffects
<1>4. ASSUME Clear({"removal", "lostJoin", "overlap"})'
      PROVE  /\ KnowsNodes(OnFile)'
             /\ \A k \in Jobs : Snapped(k)' => KnowsNodes(job'[k].snap)
  <2>1. /\ Clear({"removal", "lostJoin", "overlap"})
        /\ Clear({"removal", "lostJoin", "crashAfterOverlap"})
    BY <1>1, <1>4 DEF Clear, HistoryOK
  <2>2. /\ KnowsNodes(OnFile)
        /\ \A k \in Jobs : Snapped(k) => KnowsNodes(job[k].snap)
    BY <2>1 DEF LoginsOK, NodesOK
  <2>3. KnowsNodes(OnFile')
    <3>1. job[j].write = "write" => KnowsNodes(job[j].snap)  BY <2>2 DEF Snapped
    <3> QED  BY <2>2, <3>1, FileEffects, DefaultKnows
  <2>4. ASSUME Busy(j), Place(job[j]) \in SavePlaces PROVE KnowsNodes(mem)
    <3>1. \A k \in Jobs \ {j} : job[k] = Idle  BY <2>1, <2>4, Alone DEF Clear
    <3>2. Place(job[j]) \notin Joining
      BY <2>4 DEF SavePlaces, Joining, AppendPlaces, LostPlaces, JoinLogins
    <3>3. \A k \in Jobs : Place(job[k]) \notin Joining
      BY <3>1, <3>2, IdleIsNowhere DEF Joining
    <3> QED  BY <1>1, <2>1, <3>3, Settled
  <2>5. \A k \in Jobs : Snapped(k)' => KnowsNodes(job'[k].snap)
    BY <2>2, <2>4, FileEffects
  <2>6. KnowsNodes(OnFile)'  BY <2>3 DEF KnowsNodes
  <2> QED  BY <2>5, <2>6
<1> QED  BY <1>3, <1>4 DEF NodesOK

(* The end of step 9, a crash and a restart. *)
LEMMA LoginsOtherSteps ==
    ASSUME StatusTypes, HistoryOK, LoginsOK,
           \/ \E j \in Jobs : InstallK8sModules(j)
           \/ Crash \/ Restart \/ UNCHANGED svars
    PROVE  LoginsOK'
<1>0. /\ Idle.write = ""
      /\ Place(Idle) \notin MasterLogins /\ Place(Idle) \notin Joining
  BY IdleIsNowhere DEF Idle, Joining
<1>1. ASSUME NEW j \in Jobs, InstallK8sModules(j) PROVE LoginsOK'
  <2>1. UNCHANGED <<mem, file, up, seen>>  BY <1>1 DEF InstallK8sModules
  <2>2. Place(job[j]) = <<"k8s", 1>> /\ job'[j] = Idle
        /\ \A k \in Jobs \ {j} : job'[k] = job[k]
    BY <1>1, AppsStep
  <2>3. Place(job[j]) \notin MasterLogins /\ Place(job[j]) \notin Joining
    BY <2>2 DEF MasterLogins, Joining, AppendPlaces, LostPlaces, JoinLogins
  <2>4. \A h : Coming(h, MasterLogins) => Coming(h, MasterLogins)'
    BY <2>2, <2>3 DEF Coming
  <2>5. \A h : Coming(h, Joining) => Coming(h, Joining)'
    BY <2>2, <2>3 DEF Coming
  <2>6. \A k \in Jobs : Snapped(k)' => Snapped(k) /\ job'[k].snap = job[k].snap
    BY <1>0, <2>2 DEF Snapped
  <2>7. OnFile' = OnFile  BY <2>1 DEF OnFile
  <2>8. MapOK'  BY <2>1 DEF LoginsOK, MapOK
  <2>9. MastersOK'
    BY <2>1, <2>4, <2>6, <2>7 DEF LoginsOK, MastersOK, Clear, KnowsMasters
  <2>10. NodesOK'
    BY <2>1, <2>5, <2>6, <2>7 DEF LoginsOK, NodesOK, Clear, KnowsNodes
  <2> QED  BY <2>8, <2>9, <2>10 DEF LoginsOK
<1>2. CASE Crash
  <2>1. ~up' /\ file' = file /\ seen \subseteq seen'  BY <1>2 DEF Crash
  <2>2. \A k \in Jobs : job'[k] = Idle  BY <1>2, CrashTypes
  <2>3. OnFile' = OnFile  BY <2>1 DEF OnFile
  <2>4. \A k \in Jobs : ~Snapped(k)'  BY <1>0, <2>2 DEF Snapped
  <2>5. MapOK'  BY <2>1 DEF MapOK
  <2>6. MastersOK'  BY <2>1, <2>3, <2>4 DEF LoginsOK, MastersOK, Clear, KnowsMasters
  <2>7. NodesOK'  BY <2>1, <2>3, <2>4 DEF LoginsOK, NodesOK, Clear, KnowsNodes
  <2> QED  BY <2>5, <2>6, <2>7 DEF LoginsOK
<1>3. CASE Restart
  <2>1. /\ ~up /\ job' = job /\ mem'.ssh # NoMap
        /\ mem'.masters = OnFile.masters /\ mem'.nodes = OnFile.nodes
        /\ mem'.ssh = IF OnFile.ssh = NoMap THEN {} ELSE OnFile.ssh
    BY <1>3, RestartTypes DEF Restart
  <2>2. file' = file /\ seen' = seen  BY <1>3 DEF Restart
  <2>3. OnFile' = OnFile  BY <2>2 DEF OnFile
  <2>4. "crashAfterOverlap" \notin seen => "overlap" \notin seen  BY <2>1 DEF HistoryOK
  <2>5. ASSUME Clear({"removal", "crashAfterOverlap"})' PROVE KnowsMasters(OnFile)
    BY <2>2, <2>4, <2>5 DEF Clear, LoginsOK, MastersOK
  <2>6. ASSUME Clear({"removal", "lostJoin", "crashAfterOverlap"})' PROVE KnowsNodes(OnFile)
    BY <2>2, <2>4, <2>6 DEF Clear, LoginsOK, NodesOK
  <2>7. MapOK'  BY <2>1 DEF MapOK
  <2>8. MastersOK'
    <3>1. Clear({"removal", "crashAfterOverlap"})' => \A h \in mem'.masters : h \in mem'.ssh
      BY <2>1, <2>5 DEF KnowsMasters
    <3>2. Clear({"removal", "overlap"})' =>
            /\ KnowsMasters(OnFile)'
            /\ \A k \in Jobs : Snapped(k)' => KnowsMasters(job'[k].snap)
      BY <2>1, <2>2, <2>3 DEF Clear, LoginsOK, MastersOK, Snapped, KnowsMasters
    <3> QED  BY <3>1, <3>2 DEF MastersOK
  <2>9. NodesOK'
    <3>1. Clear({"removal", "lostJoin", "crashAfterOverlap"})'
            => \A h \in mem'.nodes : h \in mem'.ssh
      BY <2>1, <2>6 DEF KnowsNodes
    <3>2. Clear({"removal", "lostJoin", "overlap"})' =>
            /\ KnowsNodes(OnFile)'
            /\ \A k \in Jobs : Snapped(k)' => KnowsNodes(job'[k].snap)
      BY <2>1, <2>2, <2>3 DEF Clear, LoginsOK, NodesOK, Snapped, KnowsNodes
    <3> QED  BY <3>1, <3>2 DEF NodesOK
  <2> QED  BY <2>7, <2>8, <2>9 DEF LoginsOK
<1>4. CASE UNCHANGED svars
  <2>1. MapOK'  BY <1>4 DEF svars, LoginsOK, MapOK
  <2>2. MastersOK'
    BY <1>4 DEF svars, LoginsOK, MastersOK, Clear, OnFile, Snapped, Coming, KnowsMasters
  <2>3. NodesOK'
    BY <1>4 DEF svars, LoginsOK, NodesOK, Clear, OnFile, Snapped, Coming, KnowsNodes
  <2> QED  BY <2>1, <2>2, <2>3 DEF LoginsOK
<1> QED  BY <1>1, <1>2, <1>3, <1>4

LEMMA LoginsStep ==
    ASSUME StatusTypes, HistoryOK, LoginsOK, [K8sNext]_<<svars, kvars>>
    PROVE  LoginsOK'
<1>1. ASSUME NEW j \in Jobs, JobStep(j) PROVE LoginsOK'
  BY <1>1, MapJobStep, MastersJobStep, NodesJobStep DEF LoginsOK
<1>2. CASE UNCHANGED <<svars, kvars>>
  BY <1>2, LoginsOtherSteps
<1> QED  BY <1>1, <1>2, LoginsOtherSteps, StatusSteps

(* No application is left out for want of a login that a master should     *)
(* have: the job of step 9 runs alone, so that no login is still coming.   *)
LEMMA AppsFindMasterStep ==
    ASSUME StatusTypes, HistoryOK, LoginsOK, AppsFindMaster, [K8sNext]_<<svars, kvars>>
    PROVE  AppsFindMaster'
<1>1. ASSUME NEW j \in Jobs, LeaveOut(j) PROVE AppsFindMaster'
  <2>1. AtApps(j) /\ seen' = seen
        /\ passedOver' = (passedOver \/ (mem.masters # {} /\ ~HasLogin))
    BY <1>1 DEF LeaveOut, In, svars
  <2>2. ASSUME seen \cap {"removal", "overlap"} = {}, mem.masters # {} PROVE HasLogin
    <3>1. Busy(j) /\ up  BY <2>1, BusyMeansUp DEF AtApps
    <3>2. "overlap" \notin seen /\ Clear({"removal", "crashAfterOverlap"})
      BY <2>2 DEF Clear, HistoryOK
    <3>3. \A k \in Jobs \ {j} : job[k] = Idle  BY <3>1, <3>2, Alone
    <3>4. Place(job[j]) \notin MasterLogins  BY <2>1, AtAppsPlace DEF MasterLogins
    <3>5. \A k \in Jobs : Place(job[k]) \notin MasterLogins  BY <3>3, <3>4, IdleIsNowhere
    <3>6. KnowsMasters(mem)  BY <3>1, <3>2, <3>5, Settled
    <3> QED  BY <2>2, <3>6 DEF HasLogin, KnowsMasters
  <2> QED  BY <2>1, <2>2 DEF AppsFindMaster
<1>2. ASSUME NEW j \in Jobs, Install(j), ~LeaveOut(j) PROVE AppsFindMaster'
  <2>1. passedOver' = passedOver
    BY <1>2 DEF Install, Begin, Choose, CallNil, Check, PushDockerImage, ModifyYaml, Build, End
  <2>2. seen \subseteq seen'
    BY <1>2 DEF Install, Begin, Choose, CallNil, Check, PushDockerImage, ModifyYaml, Build, End,
       InstallK8sModules, Crash, svars
  <2> QED  BY <2>1, <2>2 DEF AppsFindMaster
<1>3. ASSUME NEW j \in Jobs, JobStep(j), UNCHANGED kvars PROVE AppsFindMaster'
  BY <1>3, JobStepHistory DEF AppsFindMaster, kvars
<1>4. CASE Die
  BY <1>4 DEF Die, Panic, Crash, AppsFindMaster
<1>5. CASE Restart /\ UNCHANGED kvars
  BY <1>5 DEF Restart, AppsFindMaster, kvars
<1>6. CASE UNCHANGED <<svars, kvars>>
  BY <1>6 DEF AppsFindMaster, svars, kvars
<1> QED  BY <1>1, <1>2, <1>3, <1>4, <1>5, <1>6 DEF K8sNext

-----------------------------------------------------------------------------
(* What a job's step changes of the status, and where it stands then.      *)
LEMMA SavedEffects ==
    ASSUME StatusTypes, NEW j \in Jobs, JobStep(j)
    PROVE  LET p == Place(job[j])
               q == Place(job'[j])
           IN  /\ mem'.known \cap Durable = mem.known \cap Durable \/ q \in SavePlaces
               /\ mem'.masters = mem.masters \/ q \in MasterLogins
               /\ mem'.nodes = mem.nodes \/ p \in AppendPlaces \cup RemovePlaces
               /\ mem'.ssh = mem.ssh \/ p \in MasterLogins \cup JoinLogins \cup RemovePlaces
<1>0. mem \in Statuses  BY DEF StatusTypes, MemoryOK
<1>1. CASE Assign(j)
  <2>1. Busy(j) /\ Go(j) /\ This(j).op \in {"set", "maybe"}  BY <1>1 DEF Assign
  <2>2. mem' = mem \/ Known(This(j).field)  BY <1>1 DEF Assign
  <2>3. /\ This(j).field \in Fields
        /\ \/ This(j).field \notin Durable
           \/ Place(job[j]) \in DurablePlaces \cup {<<"rpms", 2>>}
    <3>1. \/ This(j).field = "entry" /\ Place(job[j]) = <<"rpms", 2>>
          \/ This(j).field \in Durable /\ Place(job[j]) \in DurablePlaces
          \/ This(j).field \in Fields \ Durable
      BY <2>1, PlaceOf
    <3>2. "entry" \in Durable /\ Durable \subseteq Fields  BY DEF Durable, Fields
    <3> QED  BY <3>1, <3>2
  <2>4. mem'.masters = mem.masters /\ mem'.nodes = mem.nodes /\ mem'.ssh = mem.ssh
    BY <1>0, <2>2, <2>3, KnownOK
  <2>5. CASE This(j).field \notin Durable
    <3>1. mem'.known = mem.known \/ mem'.known = mem.known \cup {This(j).field}
      BY <1>0, <2>2, <2>3, KnownOK
    <3>2. mem'.known \cap Durable = mem.known \cap Durable  BY <2>5, <3>1
    <3> QED  BY <2>4, <3>2
  <2>6. CASE Place(job[j]) \in DurablePlaces \cup {<<"rpms", 2>>}
    <3>1. Place(job[j]) \notin LastPlaces  BY <2>6 DEF DurablePlaces, LastPlaces
    <3>2. Moves(j)  BY <2>1, <3>1, GoPlace
    <3>3. Place(job'[j]) \in SavePlaces  BY <2>6, <3>2, NextPlace
    <3> QED  BY <2>4, <3>3
  <2> QED  BY <2>3, <2>5, <2>6
<1>2. CASE Return(j)
  <2>1. Busy(j)  BY <1>2 DEF Return
  <2>2. mem' = mem \/ (This(j).field \in Fields \ Durable /\ Known(This(j).field))
    BY <1>2, <2>1, PlaceOf DEF Return
  <2>3. /\ mem'.known = mem.known \/ mem'.known = mem.known \cup {This(j).field}
        /\ mem'.masters = mem.masters /\ mem'.nodes = mem.nodes /\ mem'.ssh = mem.ssh
    BY <1>0, <2>2, KnownOK
  <2>4. mem'.known \cap Durable = mem.known \cap Durable  BY <2>2, <2>3
  <2> QED  BY <2>3, <2>4
<1>3. CASE SetMasters(j)
  <2>1. Busy(j) /\ Go(j) /\ This(j).op = "masters"  BY <1>3 DEF SetMasters
  <2>2. mem'.known = mem.known /\ mem'.nodes = mem.nodes /\ mem'.ssh = mem.ssh
    BY <1>0, <1>3 DEF SetMasters, Statuses
  <2>3. Place(job[j]) = <<"master", 1>>  BY <2>1, PlaceOf
  <2>4. Place(job[j]) \notin LastPlaces  BY <2>3 DEF LastPlaces
  <2>5. Place(job'[j]) \in MasterLogins  BY <2>1, <2>3, <2>4, GoPlace, NextPlace
  <2> QED  BY <2>2, <2>5
<1>4. CASE AddLogins(j)
  <2>1. Place(job[j]) \in MasterLogins \cup JoinLogins  BY <1>4, PlaceOf DEF AddLogins
  <2>2. mem'.known = mem.known /\ mem'.masters = mem.masters /\ mem'.nodes = mem.nodes
    BY <1>0, <1>4 DEF AddLogins, Statuses
  <2> QED  BY <2>1, <2>2
<1>5. ASSUME NEW h \in Nodes, NEW ok \in BOOLEAN, AppendNode(j, h, ok)
      PROVE  /\ mem'.known = mem.known /\ mem'.masters = mem.masters /\ mem'.ssh = mem.ssh
             /\ Place(job[j]) \in AppendPlaces
  <2>1. Place(job[j]) \in AppendPlaces  BY <1>5, PlaceOf DEF AppendNode
  <2>2. mem'.known = mem.known /\ mem'.masters = mem.masters /\ mem'.ssh = mem.ssh
    BY <1>0, <1>5 DEF AppendNode, Statuses
  <2> QED  BY <2>1, <2>2
<1>6. ASSUME NEW h \in Nodes, ForgetNode(j, h)
      PROVE  /\ mem'.known = mem.known /\ mem'.masters = mem.masters
             /\ Place(job[j]) \in RemovePlaces
  <2>1. Place(job[j]) \in RemovePlaces  BY <1>6, PlaceOf DEF ForgetNode, RemovePlaces
  <2>2. mem'.known = mem.known /\ mem'.masters = mem.masters
    BY <1>0, <1>6 DEF ForgetNode, Statuses
  <2> QED  BY <2>1, <2>2
<1>7. CASE ReplaceLogins(j)
  <2>1. Place(job[j]) \in RemovePlaces  BY <1>7, PlaceOf DEF ReplaceLogins, RemovePlaces
  <2>2. mem'.known = mem.known /\ mem'.masters = mem.masters
    BY <1>0, <1>7 DEF ReplaceLogins, Statuses
  <2> QED  BY <2>1, <2>2
<1>8. CASE mem' = mem
  BY <1>8
<1>9. \/ Assign(j) \/ Return(j) \/ SetMasters(j) \/ AddLogins(j) \/ ReplaceLogins(j)
      \/ \E h \in Nodes : \E ok \in BOOLEAN : AppendNode(j, h, ok)
      \/ \E h \in Nodes : ForgetNode(j, h)
      \/ mem' = mem
  BY DEF JobStep, Start, GoOn, ForgetNobody, RemoveFile, Marshal, OpenFile,
       WriteFile, WriteFails
<1> QED  BY <1>1, <1>2, <1>3, <1>4, <1>5, <1>6, <1>7, <1>8, <1>9

-----------------------------------------------------------------------------
(* As long as jobs do not overlap: what no job is about to save is on the  *)
(* file, unless a write has failed and there is none to be read; and who   *)
(* writes the file has taken it away, and writes what memory holds.        *)
None(places) == \A j \in Jobs : Place(job[j]) \notin places
Logins(s) == IF s.ssh = NoMap THEN {} ELSE s.ssh
NodesPlaces == Joining \cup RemovePlaces

OnFileAll ==
    None(SavePlaces) /\ ~Lost =>
        /\ OnFile.known \cap Durable = mem.known \cap Durable
        /\ None(MasterLogins) => OnFile.masters = mem.masters
        /\ None(NodesPlaces) /\ "lostJoin" \notin seen => OnFile.nodes = mem.nodes
        /\ None(RemovePlaces) => Logins(OnFile) = Logins(mem)
WritersOK ==
    \A j \in Jobs :
        /\ job[j].write # "" => Place(job[j]) \in SavePlaces
        /\ Snapped(j) => job[j].snap = mem
        /\ job[j].write \in {"marshal", "open"} => file = NoFile
        /\ job[j].write = "write" => job[j].handle = "linked" /\ file = Torn
SavedOK == up /\ "overlap" \notin seen => OnFileAll /\ WritersOK

LEMMA SavedJobStep ==
    ASSUME StatusTypes, HistoryOK, SavedOK, NEW j \in Jobs, JobStep(j)
    PROVE  SavedOK'
<1> DEFINE p == Place(job[j])
           q == Place(job'[j])
<1>0. mem \in Statuses /\ JobsOK  BY DEF StatusTypes, MemoryOK
<1>1. up /\ seen \subseteq seen'  BY JobStepHistory
<1>2. SUFFICES ASSUME "overlap" \notin seen' PROVE OnFileAll' /\ WritersOK'  BY DEF SavedOK
<1>3. "overlap" \notin seen /\ OnFileAll /\ WritersOK  BY <1>1, <1>2 DEF SavedOK
<1>4. \A k \in Jobs \ {j} : job[k] = Idle
  <2>1. CASE Busy(j)  BY <1>3, <2>1, Alone
  <2>2. CASE ~Busy(j)
    <3>1. Starts(j)  BY <2>2, StepKinds DEF Stays, Ends, Moves
    <3>2. PICK kind \in Kinds : \E H \in PlanHosts(kind) : Start(j, kind, H)  BY <3>1 DEF Starts
    <3>3. PICK H \in PlanHosts(kind) : Start(j, kind, H)  BY <3>2
    <3>4. Quiet  BY <1>2, <3>3 DEF Start
    <3> QED  BY <3>4, IdleOrBusy DEF Quiet
  <2> QED  BY <2>1, <2>2
<1>5. Idle.write = "" /\ ~(Idle.write \in {"open", "write"})  BY DEF Idle
<1>6. \A k \in Jobs \ {j} : Place(job'[k]) = Place(Idle) /\ job'[k].write = ""
  BY <1>4, <1>5, OthersKept DEF Kept
<1>7. /\ Place(Idle) \notin SavePlaces /\ Place(Idle) \notin MasterLogins
      /\ Place(Idle) \notin NodesPlaces /\ Place(Idle) \notin RemovePlaces
  BY IdleIsNowhere DEF NodesPlaces, Joining, RemovePlaces
<1>8. /\ None(SavePlaces)' => q \notin SavePlaces
      /\ None(MasterLogins)' => q \notin MasterLogins
      /\ None(NodesPlaces)' => q \notin NodesPlaces
      /\ None(RemovePlaces)' => q \notin RemovePlaces
  BY DEF None, SavePlaces, MasterLogins, NodesPlaces, Joining, AppendPlaces, LostPlaces, JoinLogins,
     RemovePlaces
<1>9. /\ p \notin SavePlaces => None(SavePlaces)
      /\ p \notin MasterLogins => None(MasterLogins)
      /\ p \notin NodesPlaces => None(NodesPlaces)
      /\ p \notin RemovePlaces => None(RemovePlaces)
  BY <1>4, <1>7 DEF None
<1>10. CASE RemoveFile(j) \/ Marshal(j) \/ OpenFile(j)
  <2>1. Busy(j) /\ This(j).op = "save" /\ mem' = mem
    BY <1>10 DEF RemoveFile, Marshal, OpenFile, At
  <2>2. p \in SavePlaces  BY <2>1, PlaceOf
  <2>3. q = p
    BY <1>0, <1>10, RemoveFileJobs, MarshalJobs, OpenFileJobs DEF Kept
  <2>4. OnFileAll'  BY <1>8, <2>2, <2>3 DEF OnFileAll
  <2>5. RemoveFile(j) => job'[j].write = "marshal" /\ file' = NoFile
    BY <1>0, RemoveFileJobs DEF RemoveFile
  <2>6. Marshal(j) => job'[j].write = "open" /\ job'[j].snap = mem' /\ file' = NoFile
    <3>1. ASSUME Marshal(j) PROVE file' = NoFile
      <4>1. job[j].write = "marshal" /\ file' = file  BY <3>1 DEF Marshal, At
      <4> QED  BY <1>3, <4>1 DEF WritersOK
    <3> QED  BY <1>0, <2>1, <3>1, MarshalJobs
  <2>7. OpenFile(j) => /\ job'[j].write = "write" /\ job'[j].snap = mem'
                       /\ job'[j].handle = "linked" /\ file' = Torn
    <3>1. ASSUME OpenFile(j) PROVE job[j].snap = mem
      <4>1. Snapped(j)  BY <3>1 DEF OpenFile, At, Snapped
      <4> QED  BY <1>3, <4>1 DEF WritersOK
    <3>2. OpenFile(j) => file' = Torn  BY DEF OpenFile
    <3> QED  BY <1>0, <2>1, <3>1, <3>2, OpenFileJobs
  <2>8. /\ job'[j].write # "" => q \in SavePlaces
        /\ Snapped(j)' => job'[j].snap = mem'
        /\ job'[j].write \in {"marshal", "open"} => file' = NoFile
        /\ job'[j].write = "write" => job'[j].handle = "linked" /\ file' = Torn
    BY <1>10, <2>2, <2>3, <2>5, <2>6, <2>7 DEF Snapped
  <2> HIDE DEF q
  <2>9. WritersOK'  BY <1>6, <2>8 DEF WritersOK, Snapped, q
  <2> QED  BY <2>4, <2>9
<1>11. CASE WriteFile(j)
  <2>1. Busy(j) /\ Go(j) /\ job[j].write = "write" /\ mem' = mem  BY <1>11 DEF WriteFile, At
  <2>2. job[j].snap = mem /\ job[j].handle = "linked" /\ file = Torn
    BY <1>3, <2>1 DEF WritersOK, Snapped
  <2>3. file' = mem
    BY <1>11, <2>2 DEF WriteFile
  <2>4. OnFile' = mem'
    <3>1. mem \notin {NoFile, Torn}  BY <1>0, NoFileAssumption
    <3> QED  BY <2>1, <2>3, <3>1 DEF OnFile
  <2>5. OnFileAll'  BY <2>4 DEF OnFileAll, Logins
  <2>6. job'[j].write = ""  BY <1>5, <2>1, GoKinds DEF Ends, Moves
  <2>7. WritersOK'  BY <1>6, <2>6 DEF WritersOK, Snapped
  <2> QED  BY <2>5, <2>7
<1>12. CASE WriteFails(j)
  <2>1. Busy(j) /\ Go(j) /\ (job[j].write = "open" \/ job[j].write = "write")
    BY <1>12 DEF WriteFails, At
  <2>2. file \in {NoFile, Torn}  BY <1>3, <2>1 DEF WritersOK
  <2>3. Lost'  BY <1>12, <2>2 DEF WriteFails, Lost
  <2>4. OnFileAll'  BY <2>3 DEF OnFileAll
  <2>5. job'[j].write = ""  BY <1>5, <2>1, GoKinds DEF Ends, Moves
  <2>6. WritersOK'  BY <1>6, <2>5 DEF WritersOK, Snapped
  <2> QED  BY <2>4, <2>6
<1>13. CASE ~RemoveFile(j) /\ ~Marshal(j) /\ ~OpenFile(j) /\ ~WriteFile(j) /\ ~WriteFails(j)
  <2>1. p \notin SavePlaces
    <3>1. CASE Busy(j)  BY <1>13, <3>1, ActionAt
    <3>2. CASE ~Busy(j)  BY <1>7, <3>2, IdleOrBusy
    <3> QED  BY <3>1, <3>2
  <2>2. file' = file
    BY <1>13 DEF JobStep, Start, Assign, Return, GoOn, SetMasters, AddLogins, AppendNode,
       ForgetNode, ForgetNobody, ReplaceLogins
  <2>3. OnFile' = OnFile  BY <2>2 DEF OnFile
  <2>4. job'[j].write = ""
    <3>1. job[j].write = ""  BY <1>3, <2>1 DEF WritersOK
    <3> QED  BY <1>13, <3>1, WriteStage
  <2>5. WritersOK'  BY <1>6, <2>4 DEF WritersOK, Snapped
  <2> SUFFICES ASSUME ~Lost' PROVE OnFileAll'  BY <2>5 DEF OnFileAll
  <2>0. ~Lost  BY <1>1, <2>2 DEF Lost
  <2>6. OnFile.known \cap Durable = mem.known \cap Durable
    BY <1>3, <1>9, <2>0, <2>1 DEF OnFileAll
  <2>7. q \notin SavePlaces => OnFile.known \cap Durable = mem'.known \cap Durable
    BY <2>6, SavedEffects
  <2>8. q \notin SavePlaces /\ q \notin MasterLogins => OnFile.masters = mem'.masters
    <3>1. p \notin MasterLogins => OnFile.masters = mem.masters
      BY <1>3, <1>9, <2>0, <2>1 DEF OnFileAll
    <3> QED  BY <3>1, SavedEffects, PlacesFlow
  <2>9. ASSUME q \notin SavePlaces, q \notin NodesPlaces, "lostJoin" \notin seen'
        PROVE  OnFile.nodes = mem'.nodes
    <3>1. p \notin NodesPlaces
      BY <2>9, PlacesFlow DEF NodesPlaces, Joining
    <3>2. OnFile.nodes = mem.nodes  BY <1>1, <1>3, <1>9, <2>0, <2>1, <2>9, <3>1 DEF OnFileAll
    <3> QED  BY <3>1, <3>2, SavedEffects DEF NodesPlaces, Joining
  <2>10. q \notin SavePlaces /\ q \notin RemovePlaces => Logins(OnFile) = Logins(mem)'
    <3>1. p \notin RemovePlaces => Logins(OnFile) = Logins(mem)
      BY <1>3, <1>9, <2>0, <2>1 DEF OnFileAll
    <3>2. q \notin SavePlaces /\ q \notin RemovePlaces
            => p \notin RemovePlaces /\ mem'.ssh = mem.ssh
      BY SavedEffects, PlacesFlow
    <3> QED  BY <3>1, <3>2 DEF Logins
  <2> HIDE DEF q
  <2>11. OnFileAll'
    BY <1>8, <2>3, <2>7, <2>8, <2>9, <2>10 DEF OnFileAll, Logins
  <2> QED  BY <2>11
<1> QED  BY <1>10, <1>11, <1>12, <1>13

LEMMA SavedStep ==
    ASSUME StatusTypes, HistoryOK, SavedOK, [K8sNext]_<<svars, kvars>>
    PROVE  SavedOK'
<1>0. Idle.write = ""  BY DEF Idle
<1>1. ASSUME NEW j \in Jobs, InstallK8sModules(j) PROVE SavedOK'
  <2>1. UNCHANGED <<mem, file, up, seen>> /\ Busy(j)  BY <1>1 DEF InstallK8sModules
  <2>2. Place(job[j]) = <<"k8s", 1>> /\ job'[j] = Idle
        /\ \A k \in Jobs \ {j} : job'[k] = job[k]
    BY <1>1, AppsStep
  <2>3. SUFFICES ASSUME up, "overlap" \notin seen PROVE OnFileAll' /\ WritersOK'
    BY <2>1 DEF SavedOK
  <2>4. OnFileAll /\ WritersOK  BY <2>3 DEF SavedOK
  <2>5. \A k \in Jobs \ {j} : job[k] = Idle  BY <2>1, <2>3, Alone
  <2>6. None(SavePlaces) /\ None(MasterLogins) /\ None(NodesPlaces) /\ None(RemovePlaces)
    <3>1. Place(job[j]) \notin SavePlaces \cup MasterLogins \cup NodesPlaces \cup RemovePlaces
      BY <2>2 DEF SavePlaces, MasterLogins, NodesPlaces, Joining, AppendPlaces, LostPlaces,
         JoinLogins, RemovePlaces
    <3> QED  BY <2>5, <3>1, IdleIsNowhere DEF None, NodesPlaces, Joining, RemovePlaces
  <2>7. OnFile' = OnFile  BY <2>1 DEF OnFile
  <2>8. OnFileAll'
    BY <2>1, <2>4, <2>6, <2>7 DEF OnFileAll, Lost, Logins
  <2>9. \A k \in Jobs : job'[k].write = ""  BY <1>0, <2>2, <2>5
  <2>10. WritersOK'  BY <2>9 DEF WritersOK, Snapped
  <2> QED  BY <2>8, <2>10
<1>2. CASE Crash
  BY <1>2 DEF Crash, SavedOK
<1>3. CASE Restart
  <2>1. /\ job' = job /\ \A k \in Jobs : job[k] = Idle
        /\ mem'.known = OnFile.known /\ mem'.masters = OnFile.masters
        /\ mem'.nodes = OnFile.nodes /\ mem'.ssh # NoMap
        /\ mem'.ssh = IF OnFile.ssh = NoMap THEN {} ELSE OnFile.ssh
    BY <1>3, RestartTypes
  <2>2. OnFile' = OnFile  BY <1>3 DEF Restart, OnFile
  <2>3. OnFileAll'  BY <2>1, <2>2 DEF OnFileAll, Logins
  <2>4. WritersOK'  BY <1>0, <2>1 DEF WritersOK, Snapped
  <2> QED  BY <2>3, <2>4 DEF SavedOK
<1>4. CASE UNCHANGED svars
  BY <1>4 DEF svars, SavedOK, OnFileAll, WritersOK, None, Logins, Lost, OnFile, Snapped
<1>5. CASE UNCHANGED <<svars, kvars>>
  BY <1>4, <1>5
<1> QED  BY <1>1, <1>2, <1>3, <1>4, <1>5, SavedJobStep, StatusSteps

-----------------------------------------------------------------------------
(* All of it together is inductive. *)
StatusInv ==
    /\ StatusTypes /\ InstallersOK /\ HistoryOK
    /\ EntryOK /\ LoginsOK /\ SavedOK /\ AppsFindMaster

LEMMA InitStatusInv ==
    ASSUME K8sInit
    PROVE  StatusInv
<1>1. StatusTypes  BY InitTypes
<1>2. InstallersOK
  <2>1. inst \in [Jobs -> InstRec] /\ \A j \in Jobs : inst[j] = Off
    BY OffIsOK DEF K8sInit, InstOK
  <2> QED  BY <2>1, OffIsOK DEF InstallersOK
<1>3. /\ mem = Default /\ file = NoFile /\ up /\ seen = {} /\ entries = 0 /\ ~passedOver
      /\ \A j \in Jobs : job[j] = Idle
  BY DEF K8sInit, StatusInit
<1>4. /\ Idle.kind = "" /\ ~(Idle.at > 0) /\ Idle.write = ""
      /\ ~(Idle.write \in {"open", "write"})
  <2>1. Idle.at = 0  BY DEF Idle
  <2> QED  BY <2>1 DEF Idle
<1>5. OnFile = Default  BY <1>3 DEF OnFile
<1>6. Default.masters = {} /\ Default.nodes = {} /\ Default.ssh = {} /\ Default.ssh # NoMap
  BY SomeMap DEF Default
<1>7. HistoryOK  BY <1>3, <1>4 DEF HistoryOK, Busy
<1>8. EntryOK  BY <1>3 DEF EntryOK
<1>9. LoginsOK
  <2>1. \A j \in Jobs : ~Snapped(j)  BY <1>3, <1>4 DEF Snapped
  <2> QED
    BY <1>3, <1>5, <1>6, <2>1, DefaultKnows DEF LoginsOK, MapOK, MastersOK, NodesOK
<1>10. SavedOK
  <2>1. WritersOK  BY <1>3, <1>4 DEF WritersOK, Snapped
  <2>2. OnFileAll  BY <1>3, <1>5 DEF OnFileAll
  <2> QED  BY <2>1, <2>2 DEF SavedOK
<1>11. AppsFindMaster  BY <1>3 DEF AppsFindMaster
<1> QED  BY <1>1, <1>2, <1>7, <1>8, <1>9, <1>10, <1>11 DEF StatusInv

LEMMA StatusInvariant == K8sSpec => []StatusInv
<1>1. K8sInit => StatusInv  BY InitStatusInv
<1>2. StatusInv /\ [K8sNext]_<<svars, kvars>> => StatusInv'
  BY StepTypes, InstallersStep, HistoryStep, EntryStep, LoginsStep, SavedStep, AppsFindMasterStep
     DEF StatusInv
<1> QED  BY <1>1, <1>2, PTL DEF K8sSpec

(* The status, its file, the jobs and the installers keep their types.     *)
THEOREM K8sTypeCorrect == K8sSpec => []K8sTypeOK
<1>1. StatusInv => K8sTypeOK
  <2> SUFFICES ASSUME StatusTypes, InstallersOK PROVE K8sTypeOK  BY DEF StatusInv
  <2>1. ASSUME NEW j \in Jobs, Busy(j)
        PROVE  /\ job[j].kind \in Kinds /\ job[j].at \in 1..Len(Program(job[j].kind))
               /\ job[j].todo \subseteq job[j].hosts
               /\ job[j].write \in {"", "marshal", "open", "write"} /\ job[j].snap \in Statuses
    BY <2>1 DEF StatusTypes, JobsOK, JobOK, JobRec, Busy
  <2>2. StatusTypeOK
    BY <2>1 DEF StatusTypeOK, StatusTypes, MemoryOK, CountersOK
  <2>3. ASSUME NEW j \in Jobs
        PROVE  /\ inst[j].pc \in {"off", "loop", "check", "push", "yaml", "build"}
               /\ inst[j].pc # "off" => AtApps(j)
               /\ inst[j].app \in Installers \cup {NoApp}
               /\ inst[j].pushed \cup inst[j].built \cup inst[j].missed \subseteq inst[j].asked
    BY DEF InstallersOK, InstOK, InstRec
  <2> QED  BY <2>2, <2>3 DEF K8sTypeOK
<1> QED  BY <1>1, StatusInvariant, PTL

(* A restart between two steps goes on with what memory held: as long as   *)
(* jobs do not overlap, what a job assigned it has saved by its end,       *)
(* though runconf.Write takes the file away before it writes it; or a      *)
(* write has failed, which no job looks at, and there is no file to read,  *)
(* and never one that has been overtaken.                                  *)
THEOREM FileHoldsStatus == K8sSpec => []DurableWhenQuiet
<1>1. StatusInv => DurableWhenQuiet
  <2> SUFFICES ASSUME StatusInv, Quiet, "overlap" \notin seen, ~Lost
               PROVE  /\ OnFile.known \cap Durable = mem.known \cap Durable
                      /\ OnFile.masters = mem.masters
                      /\ "lostJoin" \notin seen => OnFile.nodes = mem.nodes
                      /\ Logins(OnFile) = Logins(mem)
    BY DEF DurableWhenQuiet, Logins
  <2>1. \A j \in Jobs : job[j] = Idle  BY IdleOrBusy DEF StatusInv, Quiet
  <2>2. None(SavePlaces) /\ None(MasterLogins) /\ None(NodesPlaces) /\ None(RemovePlaces)
    BY <2>1, IdleIsNowhere DEF None, NodesPlaces, Joining, RemovePlaces
  <2> QED  BY <2>2 DEF StatusInv, SavedOK, OnFileAll, Quiet
<1> QED  BY <1>1, StatusInvariant, PTL

(* Every master and node has a login when no job runs, whatever jobs ran   *)
(* before and however they were interleaved: the job that makes it one of  *)
(* the cluster enters its login before it ends.                            *)
THEOREM HostsStayReachable == K8sSpec => []LoginsKnown
<1>1. StatusInv => LoginsKnown
  <2> SUFFICES ASSUME StatusInv, Quiet,
                      Clear({"removal", "lostJoin", "crashAfterOverlap"})
               PROVE  mem.ssh # NoMap /\ mem.masters \cup mem.nodes \subseteq mem.ssh
    BY DEF LoginsKnown, Clear
  <2>1. \A j \in Jobs : job[j] = Idle  BY IdleOrBusy DEF StatusInv, Quiet
  <2>2. \A j \in Jobs : Place(job[j]) \notin MasterLogins /\ Place(job[j]) \notin Joining
    BY <2>1, IdleIsNowhere DEF Joining
  <2>3. up /\ LoginsOK /\ Clear({"removal", "crashAfterOverlap"})
    BY DEF StatusInv, Quiet, Clear
  <2> QED  BY <2>2, <2>3, Settled DEF KnowsMasters, KnowsNodes
<1> QED  BY <1>1, StatusInvariant, PTL

(* However often step 3 is asked for, the entry is installed once: the     *)
(* address it has left in the status, or on the file while the server is   *)
(* down, keeps the next from it.                                           *)
THEOREM EntryIsInstalledOnce == K8sSpec => []EntryInstalledOnce
<1>1. StatusInv => EntryInstalledOnce
  BY DEF StatusInv, EntryOK, Clear, EntryInstalledOnce
<1> QED  BY <1>1, StatusInvariant, PTL

(* Step 9 finds the login of a master that step 6 has set up. *)
THEOREM MasterIsFound == K8sSpec => []AppsFindMaster
<1>1. StatusInv => AppsFindMaster  BY DEF StatusInv
<1> QED  BY <1>1, StatusInvariant, PTL

(* One application that cannot be installed does not keep another from it: *)
(* when step 9 is done, each has its images and is created, or one of its  *)
(* own calls has failed.                                                   *)
THEOREM NoAppKeepsAnotherOut == K8sSpec => []OthersAreInstalled
<1>1. StatusInv => OthersAreInstalled
  <2> SUFFICES ASSUME InstallersOK, NEW j \in Jobs, In(j, "loop"), inst[j].todo = {},
                      NEW app \in inst[j].asked \ inst[j].missed
               PROVE  HasBoth(inst[j], app)
    BY DEF StatusInv, OthersAreInstalled, HasBoth
  <2>1. app \in inst[j].asked \ (inst[j].todo \cup inst[j].missed)  OBVIOUS
  <2>2. inst[j].pc \notin Working  BY DEF In, Working
  <2> QED  BY <2>1, <2>2 DEF InstallersOK, InstOK
<1> QED  BY <1>1, StatusInvariant, PTL
=============================================================================
