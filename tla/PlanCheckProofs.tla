-------------------------- MODULE PlanCheckProofs --------------------------
(***************************************************************************)
(* For every set of hosts and of plans: step 1 accepts no plan that it     *)
(* should refuse, and of those that it should accept it refuses only plans *)
(* of a single etcd host.                                                  *)
(***************************************************************************)
EXTENDS PlanCheck, FiniteSetTheorems, TLAPS

(* The one complaint that a plan is accepted with, and those of the hosts. *)
OneMaster == "MasterNotHighAvailable"
HostErrors == {"SSHFailed", "WorkDirFailed"}

Codes ==
    {"Success", "SSHFailed", "WorkDirFailed", "EtcdNotHighAvailable", "EtcdCountInvalid",
     "EntrySSHNotSpecified", "YUMRegistryNotSpecified", "DockerRegistryNotSpecified",
     "DockerRegistryIPConflict", "DockerStorageParamInvalid", "MasterNotSpecified",
     "MasterNotHighAvailable", "HAVirtualIPNotSpecified", "NetworkCNINotSpecified"}

(* A plan without a fault that Decide knows: the acceptable plans but for  *)
(* those of a single etcd host.                                            *)
Sound(p) == Acceptable(p) /\ p.etcd # 1

(* Until the verdict the complaints are those of the hosts that failed,    *)
(* and there is none just when all hosts tried so far are ready. The       *)
(* verdict is yes just when the plan is sound and all hosts are ready.     *)
CheckInv ==
    /\ plan \in Plans /\ task \in {"running", "complete", "error"}
    /\ ready \subseteq plan.machines
    /\ task = "running" =>
         /\ todo \subseteq plan.machines /\ ready \cap todo = {}
         /\ finalMsg \in Seq(HostErrors)
         /\ finalMsg = <<>> <=> ready = plan.machines \ todo
    /\ task # "running" => (task = "complete" <=> Sound(plan) /\ ready = plan.machines)

-----------------------------------------------------------------------------
(* A text that is empty or the one complaint has no other complaint in it. *)
LEMMA OnlyThatOne ==
    ASSUME NEW s \in Seq(Codes), NEW t \in Seq(Codes), \A i \in DOMAIN s : s[i] # OneMaster
    PROVE  s \o t \in {<<>>, <<OneMaster>>} <=> s = <<>> /\ t \in {<<>>, <<OneMaster>>}
<1>1. s = <<>> => s \o t = t
    OBVIOUS
<1>2. ASSUME s \o t \in {<<>>, <<OneMaster>>} PROVE s = <<>>
  <2>1. SUFFICES ASSUME s # <<>> PROVE FALSE
    OBVIOUS
  <2>2. Len(s) \in Nat \ {0} /\ 1 \in DOMAIN s
    BY <2>1
  <2>3. (s \o t)[1] = s[1] /\ Len(s \o t) = Len(s) + Len(t) /\ Len(t) \in Nat
    BY <2>2
  <2>4. Len(s \o t) # 0 /\ (s \o t)[1] # OneMaster
    BY <2>2, <2>3
  <2>5. CASE s \o t = <<>>
    BY <2>4, <2>5
  <2>6. CASE s \o t = <<OneMaster>>
    BY <2>4, <2>6
  <2> QED BY <1>2, <2>5, <2>6
<1> QED BY <1>1, <1>2

LEMMA ComplaintFacts ==
    ASSUME NEW code \in Codes
    PROVE  /\ Complaint(code) \in Seq(Codes)
           /\ Complaint(code) = <<>> <=> code = "Success"
           /\ code # OneMaster => \A i \in DOMAIN Complaint(code) : Complaint(code)[i] # OneMaster
           /\ Complaint(code) \in {<<>>, <<OneMaster>>} <=> code \in {"Success", OneMaster}
<1>1. CASE code = "Success"
    BY <1>1 DEF Complaint, OneMaster
<1>2. CASE code # "Success"
  <2>1. Complaint(code) = <<code>>
    BY <1>2 DEF Complaint
  <2>2. <<code>> # <<>> /\ (<<code>> = <<OneMaster>> <=> code = OneMaster)
    OBVIOUS
  <2> QED BY <1>2, <2>1, <2>2
<1> QED BY <1>1, <1>2

(* Five complaints, the last of which may be the one.                      *)
LEMMA FiveComplaints ==
    ASSUME NEW f \in Seq(HostErrors), NEW a \in Codes \ {OneMaster},
           NEW b \in Codes \ {OneMaster}, NEW c \in Codes \ {OneMaster},
           NEW d \in Codes \ {OneMaster}, NEW e \in Codes
    PROVE  f \o (Complaint(a) \o Complaint(b) \o Complaint(c) \o Complaint(d) \o Complaint(e))
                \in {<<>>, <<OneMaster>>}
             <=> /\ f = <<>> /\ a = "Success" /\ b = "Success" /\ c = "Success" /\ d = "Success"
                 /\ e \in {"Success", OneMaster}
<1> DEFINE Clean(s) == s \in Seq(Codes) /\ \A i \in DOMAIN s : s[i] # OneMaster
           A == Complaint(a)
           B == Complaint(b)
           C == Complaint(c)
           D == Complaint(d)
           E == Complaint(e)
<1>1. Clean(f)
  <2>1. HostErrors \subseteq Codes /\ OneMaster \notin HostErrors
    BY DEF HostErrors, OneMaster, Codes
  <2>2. f \in Seq(Codes) /\ \A i \in DOMAIN f : f[i] \in HostErrors
    BY <2>1
  <2> QED BY <2>1, <2>2
<1>2. Clean(A) /\ Clean(B) /\ Clean(C) /\ Clean(D) /\ E \in Seq(Codes)
    BY ComplaintFacts
<1>3. ASSUME NEW s, NEW t, Clean(s), Clean(t) PROVE Clean(s \o t)
  <2>1. s \in Seq(Codes) /\ t \in Seq(Codes)
    BY <1>3
  <2>2. \A i \in DOMAIN (s \o t) :
            \/ i \in DOMAIN s /\ (s \o t)[i] = s[i]
            \/ i - Len(s) \in DOMAIN t /\ (s \o t)[i] = t[i - Len(s)]
    BY <2>1
  <2> QED BY <1>3, <2>1, <2>2
<1>4. ASSUME NEW s, NEW t, Clean(s), Clean(t)
      PROVE  s \o t = <<>> <=> s = <<>> /\ t = <<>>
    BY <1>4
<1> HIDE DEF A, B, C, D, E
<1>5. Clean(A \o B) /\ Clean(A \o B \o C) /\ Clean(A \o B \o C \o D)
    BY <1>2, <1>3
<1>6. A \o B \o C \o D = <<>> <=> A = <<>> /\ B = <<>> /\ C = <<>> /\ D = <<>>
    BY <1>2, <1>4, <1>5
<1>7. A \o B \o C \o D \o E \in Seq(Codes)
    BY <1>2, <1>5
<1>8. f \o (A \o B \o C \o D \o E) \in {<<>>, <<OneMaster>>}
        <=> f = <<>> /\ A \o B \o C \o D \o E \in {<<>>, <<OneMaster>>}
    BY <1>1, <1>7, OnlyThatOne, ZenonT(60)
<1>9. A \o B \o C \o D \o E \in {<<>>, <<OneMaster>>}
        <=> A \o B \o C \o D = <<>> /\ E \in {<<>>, <<OneMaster>>}
    BY <1>2, <1>5, OnlyThatOne
<1>10. /\ (A = <<>> <=> a = "Success") /\ (B = <<>> <=> b = "Success")
       /\ (C = <<>> <=> c = "Success") /\ (D = <<>> <=> d = "Success")
       /\ (E \in {<<>>, <<OneMaster>>} <=> e \in {"Success", OneMaster})
    BY ComplaintFacts DEF A, B, C, D, E
<1> QED BY <1>6, <1>8, <1>9, <1>10 DEF A, B, C, D, E

-----------------------------------------------------------------------------
(* What each check stands for.                                             *)
LEMMA EtcdCheck ==
    ASSUME NEW p, p.etcd \in Nat
    PROVE  checkEtcd(p) = "Success" <=>
             p.etcd # 1 /\ p.etcd \in {2 * k + 1 : k \in 0..p.etcd}
<1> DEFINE n == p.etcd
<1>1. n \in Nat
    OBVIOUS
<1>2. checkEtcd(p) = "Success" <=> n # 1 /\ n % 2 # 0
    BY DEF checkEtcd
<1> HIDE DEF n
<1>3. ASSUME n % 2 # 0 PROVE n \in {2 * k + 1 : k \in 0..n}
  <2>1. n = 2 * (n \div 2) + 1 /\ n \div 2 \in 0..n
    BY <1>1, <1>3
  <2> QED BY <2>1
<1>4. ASSUME NEW k \in 0..n, n = 2 * k + 1 PROVE n % 2 # 0
    BY <1>1, <1>4
<1>5. n % 2 # 0 <=> n \in {2 * k + 1 : k \in 0..n}
    BY <1>3, <1>4
<1> QED BY <1>2, <1>5 DEF n

LEMMA MasterCheck ==
    ASSUME NEW p, IsFiniteSet(p.masters)
    PROVE  /\ checkMaster(p) \in Codes
           /\ checkMaster(p) \in {"Success", OneMaster} <=>
                \/ Cardinality(p.masters) = 1
                \/ Cardinality(p.masters) > 1 /\ p.virtualIP /\ p.networkCNI
<1> DEFINE n == Cardinality(p.masters)
<1>1. n \in Nat
    BY FS_CardinalityType
<1> HIDE DEF n
<1>2. CASE n = 0
  <2>1. checkMaster(p) = "MasterNotSpecified"
    BY <1>1, <1>2 DEF checkMaster, n
  <2> QED BY <1>2, <2>1 DEF OneMaster, Codes, n
<1>3. CASE n = 1
  <2>1. checkMaster(p) = OneMaster
    BY <1>1, <1>3 DEF checkMaster, n, OneMaster
  <2> QED BY <1>3, <2>1 DEF OneMaster, Codes, n
<1>4. CASE n > 1
  <2>1. /\ ~p.virtualIP => checkMaster(p) = "HAVirtualIPNotSpecified"
        /\ p.virtualIP /\ ~p.networkCNI => checkMaster(p) = "NetworkCNINotSpecified"
        /\ p.virtualIP /\ p.networkCNI => checkMaster(p) = "Success"
    BY <1>1, <1>4 DEF checkMaster, n
  <2> QED BY <1>1, <1>4, <2>1 DEF OneMaster, Codes, n
<1> QED BY <1>1, <1>2, <1>3, <1>4

LEMMA OtherChecks ==
    ASSUME NEW p
    PROVE  /\ {checkEtcd(p), checkEntry(p), checkYUM(p), checkDocker(p)} \subseteq
                Codes \ {OneMaster}
           /\ checkEntry(p) = "Success" <=> p.entry \in p.machines
           /\ checkYUM(p) = "Success" <=> p.yumIP # NoHost \/ p.repo = RepoFields
           /\ checkDocker(p) = "Success" <=>
                /\ p.registryURL \/ p.registryIP # NoHost
                /\ p.registryIP \notin p.masters /\ p.storage = {}
<1>1. checkEtcd(p) \in Codes \ {OneMaster}
    BY DEF checkEtcd, Codes, OneMaster
<1>2. /\ checkEntry(p) \in Codes \ {OneMaster}
      /\ checkEntry(p) = "Success" <=> p.entry \in p.machines
    BY DEF checkEntry, Codes, OneMaster
<1>3. /\ checkYUM(p) \in Codes \ {OneMaster}
      /\ checkYUM(p) = "Success" <=> p.yumIP # NoHost \/ p.repo = RepoFields
    BY DEF checkYUM, isEmpty, Codes, OneMaster
<1>4. /\ checkDocker(p) \in Codes \ {OneMaster}
      /\ checkDocker(p) = "Success" <=>
           /\ p.registryURL \/ p.registryIP # NoHost
           /\ p.registryIP \notin p.masters /\ p.storage = {}
    BY DEF checkDocker, checkDockerStorage, Codes, OneMaster
<1> QED BY <1>1, <1>2, <1>3, <1>4

LEMMA PlanFields ==
    ASSUME NEW p \in Plans
    PROVE  p.etcd \in Nat /\ IsFiniteSet(p.masters)
<1>1. p \in [machines : SUBSET PlanHosts, etcd : Nat, entry : PlanHosts \cup {NoHost},
             yumIP : PlanHosts \cup {NoHost}, repo : SUBSET RepoFields,
             registryIP : PlanHosts \cup {NoHost}, registryURL : BOOLEAN,
             storage : SUBSET PlanHosts, masters : SUBSET PlanHosts,
             virtualIP : BOOLEAN, networkCNI : BOOLEAN]
    BY PlansAssumption
<1>2. p.masters \subseteq PlanHosts
    BY <1>1
<1>3. IsFiniteSet(p.masters)
    BY <1>2, PlanHostsAssumption, FS_Subset
<1> QED BY <1>1, <1>3

(* A sound plan is one whose complaints, after no complaint of a host, are *)
(* none or that there is one master.                                       *)
LEMMA SoundHasNoOther ==
    ASSUME NEW p \in Plans, NEW f \in Seq(HostErrors)
    PROVE  f \o Complaints(p) \in {<<>>, <<OneMaster>>} <=> f = <<>> /\ Sound(p)
<1>1. /\ checkEtcd(p) = "Success" <=> p.etcd # 1 /\ p.etcd \in {2 * k + 1 : k \in 0..p.etcd}
      /\ checkMaster(p) \in Codes
      /\ checkMaster(p) \in {"Success", OneMaster} <=>
           \/ Cardinality(p.masters) = 1
           \/ Cardinality(p.masters) > 1 /\ p.virtualIP /\ p.networkCNI
  <2>1. p.etcd \in Nat /\ IsFiniteSet(p.masters)
    BY PlanFields
  <2>2. checkEtcd(p) = "Success" <=> p.etcd # 1 /\ p.etcd \in {2 * k + 1 : k \in 0..p.etcd}
    BY <2>1, EtcdCheck
  <2>3. /\ checkMaster(p) \in Codes
        /\ checkMaster(p) \in {"Success", OneMaster} <=>
             \/ Cardinality(p.masters) = 1
             \/ Cardinality(p.masters) > 1 /\ p.virtualIP /\ p.networkCNI
    BY <2>1, MasterCheck
  <2> QED BY <2>2, <2>3
<1>2. /\ checkEtcd(p) \in Codes \ {OneMaster} /\ checkEntry(p) \in Codes \ {OneMaster}
      /\ checkYUM(p) \in Codes \ {OneMaster} /\ checkDocker(p) \in Codes \ {OneMaster}
    BY OtherChecks
<1>3. f \o Complaints(p) \in {<<>>, <<OneMaster>>} <=>
        /\ f = <<>> /\ checkEtcd(p) = "Success" /\ checkEntry(p) = "Success"
        /\ checkYUM(p) = "Success" /\ checkDocker(p) = "Success"
        /\ checkMaster(p) \in {"Success", OneMaster}
  <2>1. PICK a \in Codes \ {OneMaster} : a = checkEtcd(p)
    BY <1>2
  <2>2. PICK b \in Codes \ {OneMaster} : b = checkEntry(p)
    BY <1>2
  <2>3. PICK c \in Codes \ {OneMaster} : c = checkYUM(p)
    BY <1>2
  <2>4. PICK d \in Codes \ {OneMaster} : d = checkDocker(p)
    BY <1>2
  <2>5. PICK e \in Codes : e = checkMaster(p)
    BY <1>1
  <2>6. Complaints(p) = Complaint(a) \o Complaint(b) \o Complaint(c) \o Complaint(d)
                          \o Complaint(e)
    BY <2>1, <2>2, <2>3, <2>4, <2>5 DEF Complaints
  <2>7. f \o Complaints(p) \in {<<>>, <<OneMaster>>}
          <=> /\ f = <<>> /\ a = "Success" /\ b = "Success" /\ c = "Success" /\ d = "Success"
              /\ e \in {"Success", OneMaster}
    <3>1. f \o (Complaint(a) \o Complaint(b) \o Complaint(c) \o Complaint(d) \o Complaint(e))
                \in {<<>>, <<OneMaster>>}
            <=> /\ f = <<>> /\ a = "Success" /\ b = "Success" /\ c = "Success" /\ d = "Success"
                /\ e \in {"Success", OneMaster}
      BY FiveComplaints, Zenon
    <3> QED BY <2>6, <3>1
  <2> QED BY <2>1, <2>2, <2>3, <2>4, <2>5, <2>7
<1>4. Sound(p) <=>
        /\ checkEtcd(p) = "Success" /\ checkEntry(p) = "Success"
        /\ checkYUM(p) = "Success" /\ checkDocker(p) = "Success"
        /\ checkMaster(p) \in {"Success", OneMaster}
    BY <1>1, OtherChecks DEF Sound, Acceptable
<1> QED BY <1>3, <1>4

-----------------------------------------------------------------------------
LEMMA CheckInitInv == PlanInit => CheckInv
<1> SUFFICES ASSUME PlanInit PROVE CheckInv
    OBVIOUS
<1>1. <<>> \in Seq(HostErrors)
    OBVIOUS
<1> QED BY <1>1 DEF PlanInit, CheckInv

LEMMA CheckStepInv == CheckInv /\ [PlanNext]_planVars => CheckInv'
<1> SUFFICES ASSUME CheckInv, [PlanNext]_planVars PROVE CheckInv'
    OBVIOUS
<1>1. ASSUME NEW h \in PlanHosts, NEW code \in HostErrors, Fail(h, code) PROVE CheckInv'
  <2>1. /\ task = "running" /\ h \in todo /\ todo' = todo \ {h}
        /\ finalMsg' = Append(finalMsg, code) /\ UNCHANGED <<plan, task, ready>>
    BY <1>1 DEF Fail
  <2>2. /\ todo \subseteq plan.machines /\ ready \cap todo = {} /\ finalMsg \in Seq(HostErrors)
        /\ plan \in Plans /\ ready \subseteq plan.machines
    BY <2>1 DEF CheckInv
  <2>3. finalMsg' \in Seq(HostErrors) /\ finalMsg' # <<>>
    BY <2>1, <2>2
  <2>4. ready # plan.machines \ todo'
    BY <2>1, <2>2
  <2>5. task' = "running"
    BY <2>1
  <2> QED BY <2>1, <2>2, <2>3, <2>4, <2>5 DEF CheckInv
<1>2. ASSUME NEW h \in PlanHosts, Prepare(h) PROVE CheckInv'
  <2>1. /\ task = "running" /\ h \in todo /\ todo' = todo \ {h}
        /\ ready' = ready \cup {h} /\ UNCHANGED <<plan, finalMsg, task>>
    BY <1>2 DEF Prepare
  <2>2. /\ todo \subseteq plan.machines /\ ready \cap todo = {} /\ finalMsg \in Seq(HostErrors)
        /\ plan \in Plans /\ ready \subseteq plan.machines
        /\ finalMsg = <<>> <=> ready = plan.machines \ todo
    BY <2>1 DEF CheckInv
  <2>3. ready' = plan.machines \ todo' <=> ready = plan.machines \ todo
    BY <2>1, <2>2
  <2>4. task' = "running"
    BY <2>1
  <2> QED BY <2>1, <2>2, <2>3, <2>4 DEF CheckInv
<1>3. CASE Decide
  <2>1. /\ task = "running" /\ todo = {} /\ finalMsg' = finalMsg \o Complaints(plan)
        /\ task' = IF finalMsg' \in {<<>>, <<OneMaster>>} THEN "complete" ELSE "error"
        /\ UNCHANGED <<plan, todo, ready>>
    BY <1>3 DEF Decide, OneMaster
  <2>2. /\ finalMsg \in Seq(HostErrors) /\ plan \in Plans /\ ready \subseteq plan.machines
        /\ finalMsg = <<>> <=> ready = plan.machines
    BY <2>1 DEF CheckInv
  <2>3. finalMsg' \in {<<>>, <<OneMaster>>} <=> finalMsg = <<>> /\ Sound(plan)
    BY <2>1, <2>2, SoundHasNoOther
  <2>4. task' = "complete" <=> Sound(plan) /\ ready = plan.machines
    BY <2>1, <2>2, <2>3
  <2>5. Sound(plan)' <=> Sound(plan)
    BY <2>1
  <2> QED BY <2>1, <2>2, <2>4, <2>5 DEF CheckInv
<1>4. CASE UNCHANGED planVars
    BY <1>4 DEF planVars, CheckInv
<1> QED BY <1>1, <1>2, <1>3, <1>4 DEF PlanNext, HostErrors

LEMMA CheckInvariant == PlanSpec => []CheckInv
BY CheckInitInv, CheckStepInv, PTL DEF PlanSpec

(* CheckInstallPlan: the hosts may fail in any number and order, and the   *)
(* five checks add their complaints to the same text. The text that is     *)
(* compared with the one complaint that is put up with is that complaint   *)
(* only if all hosts are ready and the plan is acceptable; of these plans  *)
(* those with a single etcd host, and no others, are refused.              *)
THEOREM VerdictIsAlwaysRight == PlanSpec => []VerdictIsRight
<1>1. CheckInv => VerdictIsRight
    BY DEF CheckInv, Sound, VerdictIsRight
<1> QED BY CheckInvariant, <1>1, PTL
============================================================================
