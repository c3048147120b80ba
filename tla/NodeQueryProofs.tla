-------------------------- MODULE NodeQueryProofs ---------------------------
(***************************************************************************)
(* Theorems about NodeQuery, for every set of tasks, hosts, steps and      *)
(* requests. With overlapping tasks: the types, and the output that stays  *)
(* on its host. Without: everything else the table promises, and that it   *)
(* implements NodeStore. At the end: no task goes round, and none is stuck.*)
(***************************************************************************)
EXTENDS NodeQuery, FiniteSetTheorems, TLAPS

Tables(S, T) == UNION {[D -> T] : D \in SUBSET S}

(* Partial functions, and what Put and Drop make of them.                  *)
LEMMA TableElim ==
    ASSUME NEW S, NEW T, NEW f \in Tables(S, T)
    PROVE  DOMAIN f \in SUBSET S /\ f \in [DOMAIN f -> T] /\ \A x \in DOMAIN f : f[x] \in T
<1>1. PICK D \in SUBSET S : f \in [D -> T]
    BY DEF Tables
<1> QED BY <1>1

LEMMA TableIntro ==
    ASSUME NEW S, NEW T, NEW D \in SUBSET S, NEW f \in [D -> T]
    PROVE  f \in Tables(S, T)
BY DEF Tables

LEMMA PutTable ==
    ASSUME NEW S, NEW T, NEW f \in Tables(S, T), NEW x \in S, NEW v \in T
    PROVE  /\ Put(f, x, v) \in Tables(S, T)
           /\ DOMAIN Put(f, x, v) = DOMAIN f \cup {x}
           /\ Put(f, x, v)[x] = v
           /\ \A y \in DOMAIN f : y # x => Put(f, x, v)[y] = f[y]
<1>1. DOMAIN f \in SUBSET S /\ f \in [DOMAIN f -> T]
    BY TableElim
<1>2. Put(f, x, v) \in [DOMAIN f \cup {x} -> T]
    BY <1>1 DEF Put
<1>3. Put(f, x, v) \in Tables(S, T)
    BY <1>1, <1>2, TableIntro
<1> QED BY <1>3 DEF Put

LEMMA DropTable ==
    ASSUME NEW S, NEW T, NEW f \in Tables(S, T), NEW x
    PROVE  /\ Drop(f, x) \in Tables(S, T)
           /\ DOMAIN Drop(f, x) = DOMAIN f \ {x}
           /\ \A y \in DOMAIN f : y # x => Drop(f, x)[y] = f[y]
<1>1. DOMAIN f \in SUBSET S /\ f \in [DOMAIN f -> T]
    BY TableElim
<1>2. Drop(f, x) \in [DOMAIN f \ {x} -> T]
    BY <1>1 DEF Drop
<1>3. Drop(f, x) \in Tables(S, T)
    BY <1>1, <1>2, TableIntro
<1> QED BY <1>3 DEF Drop

LEMMA EmptyTable ==
    ASSUME NEW S, NEW T
    PROVE  Empty \in Tables(S, T) /\ DOMAIN Empty = {}
<1>1. Empty \in [{} -> T]
    BY DEF Empty
<1>2. Empty \in Tables(S, T)
    BY <1>1, TableIntro
<1> QED BY <1>2 DEF Empty

-----------------------------------------------------------------------------
Holding == {"posting", "putting"}
StepOf(j) == job[j].req.step

JobRecords == [pc : {"idle", "clean", "work", "finished"},
               req : Requests \cup {NoRequest}, todo : SUBSET Hosts]
DelRecords == [pc : {"none", "delete", "store", "check", "drop"},
               host : Hosts \cup {Nobody}, ref : Refs \cup {Nobody}]
WorkerRecords == [pc : {"off", "post", "put", "done"} \cup Holding, left : 0..MaxPuts,
                  ref : Refs \cup {Nobody}, said : States \cup {NoState}]

(* The type invariant with what makes it inductive: a DELETE belongs to    *)
(* the cleaning of its task, a worker's calls to the work of its task; who *)
(* is in the critical section holds the mutex and a map; and a step has    *)
(* been opened before there is a map to put an update into.                *)
JobTypes ==
    /\ job \in [Jobs -> JobRecords]
    /\ \A j \in Jobs :
         /\ job[j].pc = "idle" => job[j].req = NoRequest
         /\ job[j].pc # "idle" => job[j].req \in Requests
         /\ job[j].todo \subseteq job[j].req.clean

DelTypes ==
    /\ del \in [Jobs -> DelRecords]
    /\ \A j \in Jobs :
         /\ del[j].pc = "none" => del[j] = NoDelete
         /\ del[j].pc # "none" => /\ job[j].pc = "clean" /\ del[j].host \in job[j].todo
                                  /\ del[j].ref \in Refs

WorkerTypes ==
    /\ worker \in [Workers -> WorkerRecords]
    /\ \A w \in Workers :
         /\ worker[w].pc \in Holding => worker[w].ref \in Refs
         /\ worker[w].pc \notin Holding => worker[w].ref = Nobody
         /\ worker[w].pc \in Holding <=> mutex = w
         /\ worker[w].pc \notin {"off", "done"} =>
              job[w[1]].pc = "work" /\ w[2] \in job[w[1]].req.work
         /\ worker[w].pc \in {"post", "posting"} => Opens(w)

TableTypes ==
    /\ AllNodesContextSet \in Tables(Hosts, Refs)
    /\ heap \in [Refs -> Tables(Steps, NodeContexts)]
    /\ CurrentStep \in Steps \cup {""}
    /\ mutex \in Workers \cup {Nobody}
    /\ recorded \in SUBSET (Hosts \X Steps)
    /\ \/ CurrentStep \in Steps
       \/ /\ DOMAIN AllNodesContextSet = {}
          /\ \A j \in Jobs : del[j].pc = "none"
          /\ \A w \in Workers : worker[w].pc # "putting"

NodeTypes == JobTypes /\ DelTypes /\ WorkerTypes /\ TableTypes

LEMMA NodeTypesInit == Init => NodeTypes
<1> SUFFICES ASSUME Init PROVE NodeTypes
    OBVIOUS
<1>1. NoWorker \in WorkerRecords /\ NoWorker.pc = "off" /\ NoWorker.ref = Nobody
    BY PutsAssumption DEF NoWorker, WorkerRecords
<1>2. WorkerTypes
    BY <1>1, NobodyAssumption DEF Init, WorkerTypes, Workers, Holding
<1>3. DelTypes
    BY DEF Init, DelTypes, NoDelete, DelRecords
<1>4. JobTypes
    BY DEF Init, JobTypes, JobRecords, NoRequest
<1>5. TableTypes
    BY EmptyTable, <1>1 DEF Init, TableTypes, NoDelete, NoWorker
<1> QED BY <1>2, <1>3, <1>4, <1>5 DEF NodeTypes

(* The fields of a request.                                                *)
LEMMA RequestType ==
    ASSUME NEW q \in Requests
    PROVE  /\ q.step \in Steps /\ q.clean \in SUBSET Hosts /\ q.work \in SUBSET Hosts
           /\ q.post \in SUBSET q.work
BY RequestsAssumption

-----------------------------------------------------------------------------
(* The steps of the handler, one lemma each.                               *)
LEMMA StartTypes ==
    ASSUME NodeTypes, NEW j \in Jobs, NEW q \in Requests, Start(j, q)
    PROVE  NodeTypes'
<1>1. /\ job' = [job EXCEPT ![j] = [pc |-> "clean", req |-> q, todo |-> q.clean]]
      /\ job[j].pc = "idle" /\ UNCHANGED <<table, del, worker, recorded>>
    BY DEF Start
<1>2. [pc |-> "clean", req |-> q, todo |-> q.clean] \in JobRecords
    BY RequestType DEF JobRecords
<1>3. JobTypes'
    BY <1>1, <1>2 DEF NodeTypes, JobTypes
<1>4. DelTypes'
    BY <1>1 DEF NodeTypes, DelTypes, JobTypes
<1>5. WorkerTypes'
    BY <1>1 DEF NodeTypes, WorkerTypes, JobTypes, table, Opens, Workers
<1>6. TableTypes'
    BY <1>1 DEF NodeTypes, TableTypes, table
<1> QED BY <1>3, <1>4, <1>5, <1>6 DEF NodeTypes

(* The host whose DELETE is over is no longer to be cleaned.               *)
LEMMA DeleteReturnsTypes ==
    ASSUME NodeTypes, NEW j \in Jobs, job[j].pc = "clean",
           NEW h, job' = [job EXCEPT ![j].todo = @ \ {h}],
           UNCHANGED <<worker, mutex>>,
           \/ del' = [del EXCEPT ![j] = NoDelete]
           \/ del' = del /\ del[j] = NoDelete
    PROVE  /\ JobTypes' /\ DelTypes' /\ WorkerTypes'
           /\ \A i \in Jobs : job'[i].pc = job[i].pc /\ job'[i].req = job[i].req
<1>1. job[j] \in JobRecords /\ job \in [Jobs -> JobRecords]
    BY DEF NodeTypes, JobTypes
<1>2. /\ job' \in [Jobs -> JobRecords]
      /\ \A i \in Jobs : /\ job'[i].pc = job[i].pc /\ job'[i].req = job[i].req
                         /\ job'[i].todo = IF i = j THEN job[j].todo \ {h} ELSE job[i].todo
    BY <1>1 DEF JobRecords
<1>3. JobTypes'
    BY <1>2 DEF NodeTypes, JobTypes
<1>4. NoDelete \in DelRecords /\ NoDelete.pc = "none"
    BY DEF NoDelete, DelRecords
<1>5. DelTypes'
    BY <1>2, <1>4 DEF NodeTypes, DelTypes
<1>6. WorkerTypes'
    BY <1>2 DEF NodeTypes, WorkerTypes, Opens, Workers
<1> QED BY <1>2, <1>3, <1>5, <1>6

LEMMA DeleteReadTypes ==
    ASSUME NodeTypes, NEW j \in Jobs, NEW h \in Hosts, DeleteRead(j, h)
    PROVE  NodeTypes'
<1>1. /\ job[j].pc = "clean" /\ h \in job[j].todo /\ del[j] = NoDelete
      /\ recorded' = recorded \ {<<h, StepOf(j)>>} /\ UNCHANGED <<table, worker>>
    BY DEF DeleteRead, StepOf
<1>2. CASE h \notin DOMAIN AllNodesContextSet
    <2>1. job' = [job EXCEPT ![j].todo = @ \ {h}] /\ del' = del
        BY <1>2 DEF DeleteRead
    <2>2. JobTypes' /\ DelTypes' /\ WorkerTypes'
        BY <1>1, <2>1, DeleteReturnsTypes DEF table
    <2>3. TableTypes'
        BY <1>1, <2>1 DEF NodeTypes, TableTypes, table
    <2> QED BY <2>2, <2>3 DEF NodeTypes
<1>3. CASE h \in DOMAIN AllNodesContextSet
    <2> DEFINE d == [pc |-> "delete", host |-> h, ref |-> AllNodesContextSet[h]]
    <2>1. job' = job /\ del' = [del EXCEPT ![j] = d]
        BY <1>3 DEF DeleteRead
    <2>2. AllNodesContextSet[h] \in Refs
        <3>1. AllNodesContextSet \in Tables(Hosts, Refs)
            BY DEF NodeTypes, TableTypes
        <3> QED BY <1>3, <3>1, TableElim
    <2>3. d \in DelRecords
        BY <2>2 DEF DelRecords
    <2>4. DelTypes'
        BY <1>1, <2>1, <2>2, <2>3 DEF NodeTypes, DelTypes
    <2>5. JobTypes' /\ WorkerTypes'
        BY <1>1, <2>1 DEF NodeTypes, JobTypes, WorkerTypes, table, Opens
    <2>6. TableTypes'
        BY <1>1, <1>3 DEF NodeTypes, TableTypes, table
    <2> QED BY <2>4, <2>5, <2>6 DEF NodeTypes
<1> QED BY <1>2, <1>3

(* A DELETE that goes on: only its position changes.                       *)
LEMMA DeleteGoesOn ==
    ASSUME NodeTypes, NEW j \in Jobs, NEW p \in {"store", "check", "drop"}, del[j].pc # "none",
           del' = [del EXCEPT ![j].pc = p], UNCHANGED <<job, worker, mutex>>
    PROVE  /\ JobTypes' /\ DelTypes' /\ WorkerTypes'
           /\ del[j].ref \in Refs /\ del[j].host \in Hosts
           /\ \A i \in Jobs : del'[i].pc = "none" => del[i].pc = "none"
<1>1. del[j] \in DelRecords /\ del \in [Jobs -> DelRecords]
    BY DEF NodeTypes, DelTypes
<1>2. /\ del' \in [Jobs -> DelRecords]
      /\ \A i \in Jobs : /\ del'[i].host = del[i].host /\ del'[i].ref = del[i].ref
                         /\ IF i = j THEN del'[i].pc = p ELSE del'[i] = del[i]
    BY <1>1 DEF DelRecords
<1>3. DelTypes'
    BY <1>2 DEF NodeTypes, DelTypes
<1>4. JobTypes' /\ WorkerTypes'
    BY DEF NodeTypes, JobTypes, WorkerTypes, Opens
<1>5. del[j].ref \in Refs /\ del[j].host \in Hosts
    BY <1>1 DEF NodeTypes, DelTypes, JobTypes, JobRecords
<1> QED BY <1>2, <1>3, <1>4, <1>5

LEMMA DeleteTypes ==
    ASSUME NodeTypes, NEW j \in Jobs,
           DeleteKey(j) \/ DeleteStore(j) \/ DeleteCheck(j) \/ DeleteDrop(j)
    PROVE  NodeTypes'
<1>1. CASE DeleteKey(j)
    <2>1. /\ del[j].pc = "delete" /\ del' = [del EXCEPT ![j].pc = "store"]
          /\ heap' = [heap EXCEPT ![del[j].ref] = Drop(@, StepOf(j))]
          /\ UNCHANGED <<AllNodesContextSet, CurrentStep, mutex, job, worker, recorded>>
        BY <1>1 DEF DeleteKey, StepOf
    <2>2. /\ JobTypes' /\ DelTypes' /\ WorkerTypes' /\ del[j].ref \in Refs
          /\ \A i \in Jobs : del'[i].pc = "none" => del[i].pc = "none"
        BY <2>1, DeleteGoesOn
    <2>3. heap' \in [Refs -> Tables(Steps, NodeContexts)]
        BY <2>1, <2>2, DropTable DEF NodeTypes, TableTypes
    <2>4. CurrentStep \in Steps
        BY <2>1 DEF NodeTypes, TableTypes
    <2> QED BY <2>1, <2>2, <2>3, <2>4 DEF NodeTypes, TableTypes
<1>2. CASE DeleteStore(j)
    <2>1. /\ del[j].pc = "store" /\ del' = [del EXCEPT ![j].pc = "check"]
          /\ AllNodesContextSet' = Put(AllNodesContextSet, del[j].host, del[j].ref)
          /\ UNCHANGED <<heap, CurrentStep, mutex, job, worker, recorded>>
        BY <1>2 DEF DeleteStore
    <2>2. /\ JobTypes' /\ DelTypes' /\ WorkerTypes' /\ del[j].ref \in Refs /\ del[j].host \in Hosts
        BY <2>1, DeleteGoesOn
    <2>3. AllNodesContextSet' \in Tables(Hosts, Refs)
        BY <2>1, <2>2, PutTable DEF NodeTypes, TableTypes
    <2>4. CurrentStep \in Steps
        BY <2>1 DEF NodeTypes, TableTypes
    <2> QED BY <2>1, <2>2, <2>3, <2>4 DEF NodeTypes, TableTypes
<1>3. CASE DeleteCheck(j)
    <2>1. /\ del[j].pc = "check"
          /\ \/ del' = [del EXCEPT ![j].pc = "drop"] /\ job' = job
             \/ DeleteReturns(j)
          /\ UNCHANGED <<table, worker, recorded>>
        BY <1>3 DEF DeleteCheck
    <2>2. job[j].pc = "clean" /\ CurrentStep \in Steps
        BY <2>1 DEF NodeTypes, DelTypes, TableTypes
    <2>3. JobTypes' /\ DelTypes' /\ WorkerTypes'
        BY <2>1, <2>2, DeleteGoesOn, DeleteReturnsTypes DEF DeleteReturns, table
    <2> QED BY <2>1, <2>2, <2>3 DEF NodeTypes, TableTypes, table
<1>4. CASE DeleteDrop(j)
    <2>1. /\ del[j].pc = "drop" /\ DeleteReturns(j)
          /\ AllNodesContextSet' = Drop(AllNodesContextSet, del[j].host)
          /\ UNCHANGED <<heap, CurrentStep, mutex, worker, recorded>>
        BY <1>4 DEF DeleteDrop
    <2>2. job[j].pc = "clean" /\ CurrentStep \in Steps
        BY <2>1 DEF NodeTypes, DelTypes, TableTypes
    <2>3. JobTypes' /\ DelTypes' /\ WorkerTypes'
        BY <2>1, <2>2, DeleteReturnsTypes DEF DeleteReturns
    <2>4. AllNodesContextSet' \in Tables(Hosts, Refs)
        BY <2>1, DropTable DEF NodeTypes, TableTypes
    <2> QED BY <2>1, <2>2, <2>3, <2>4 DEF NodeTypes, TableTypes
<1> QED BY <1>1, <1>2, <1>3, <1>4

LEMMA LaunchTypes ==
    ASSUME NodeTypes, NEW j \in Jobs, Launch(j)
    PROVE  NodeTypes'
<1>1. /\ job[j].pc = "clean" /\ job[j].todo = {}
      /\ job' = [job EXCEPT ![j].pc = "work"] /\ StartWorkers(j)
      /\ UNCHANGED <<table, del, recorded>>
    BY DEF Launch
<1>2. job \in [Jobs -> JobRecords] /\ worker \in [Workers -> WorkerRecords]
    BY DEF NodeTypes, JobTypes, WorkerTypes
<1>3. /\ job' \in [Jobs -> JobRecords]
      /\ \A i \in Jobs : /\ job'[i].req = job[i].req /\ job'[i].todo = job[i].todo
                         /\ job'[i].pc = IF i = j THEN "work" ELSE job[i].pc
    BY <1>1, <1>2 DEF JobRecords
<1>4. JobTypes'
    BY <1>1, <1>3 DEF NodeTypes, JobTypes
<1>5. del[j].pc = "none"
    BY <1>1 DEF NodeTypes, DelTypes
<1>6. DelTypes'
    BY <1>1, <1>3, <1>5 DEF NodeTypes, DelTypes
<1> DEFINE opening(w) == [NoWorker EXCEPT !.pc = IF Opens(w) THEN "post" ELSE "put"]
<1>7. /\ \A w \in {j} \X job[j].req.work : worker'[w] = opening(w)
      /\ \A w \in Workers \ ({j} \X job[j].req.work) : worker'[w] = worker[w]
      /\ DOMAIN worker' = Workers
    <2>1. job[j].req.work \in SUBSET Hosts
        BY <1>1, RequestType DEF NodeTypes, JobTypes
    <2> QED BY <1>1, <2>1 DEF StartWorkers, Workers
<1>8. \A w \in Workers : /\ opening(w) \in WorkerRecords /\ opening(w).ref = Nobody
                         /\ opening(w).pc = IF Opens(w) THEN "post" ELSE "put"
    BY PutsAssumption DEF NoWorker, WorkerRecords
<1>9. worker' \in [Workers -> WorkerRecords]
    <2>1. \A w \in Workers : worker'[w] \in WorkerRecords
        BY <1>2, <1>7, <1>8
    <2>2. worker' = [w \in Workers |-> worker'[w]]
        BY <1>1 DEF StartWorkers
    <2> QED BY <2>1, <2>2
<1>10. WorkerTypes'
    <2> SUFFICES ASSUME NEW w \in Workers
                 PROVE  /\ worker'[w].pc \in Holding => worker'[w].ref \in Refs
                        /\ worker'[w].pc \notin Holding => worker'[w].ref = Nobody
                        /\ worker'[w].pc \in Holding <=> mutex' = w
                        /\ worker'[w].pc \notin {"off", "done"} =>
                             job'[w[1]].pc = "work" /\ w[2] \in job'[w[1]].req.work
                        /\ worker'[w].pc \in {"post", "posting"} => Opens(w)'
        BY <1>9 DEF WorkerTypes
    <2>1. /\ w[1] \in Jobs /\ (Opens(w)' <=> Opens(w)) /\ mutex' = mutex
          /\ job'[w[1]].req = job[w[1]].req /\ (w[1] # j => job'[w[1]].pc = job[w[1]].pc)
        BY <1>1, <1>3 DEF Opens, table, Workers
    <2>2. CASE w \in {j} \X job[j].req.work
        <3>1. w[1] = j /\ w[2] \in job[j].req.work /\ worker'[w] = opening(w)
            BY <2>2, <1>7
        <3>2. mutex # w
            BY <1>1, <3>1 DEF NodeTypes, WorkerTypes, Holding
        <3> QED BY <1>1, <1>3, <1>8, <2>1, <3>1, <3>2 DEF Holding
    <2>3. CASE w \notin {j} \X job[j].req.work
        <3>1. worker'[w] = worker[w]
            BY <2>3, <1>7
        <3>2. job[w[1]].pc = "work" => w[1] # j
            BY <1>1
        <3> QED BY <2>1, <3>1, <3>2 DEF NodeTypes, WorkerTypes
    <2> QED BY <2>2, <2>3
<1>11. TableTypes'
    <2>1. ASSUME NEW w \in Workers, worker'[w].pc = "putting"
          PROVE  worker[w].pc = "putting"
        <3>1. opening(w).pc # "putting"
            BY <1>8
        <3>2. w \notin {j} \X job[j].req.work
            BY <1>7, <2>1, <3>1
        <3> QED BY <1>7, <2>1, <3>2
    <2> QED BY <1>1, <2>1 DEF NodeTypes, TableTypes, table
<1> QED BY <1>4, <1>6, <1>10, <1>11 DEF NodeTypes

LEMMA FinishTypes ==
    ASSUME NodeTypes, NEW j \in Jobs, Finish(j)
    PROVE  NodeTypes'
<1>1. /\ job[j].pc = "work" /\ \A h \in job[j].req.work : worker[<<j, h>>].pc = "done"
      /\ job' = [job EXCEPT ![j].pc = "finished"] /\ UNCHANGED <<table, del, worker, recorded>>
    BY DEF Finish
<1>2. /\ job' \in [Jobs -> JobRecords]
      /\ \A i \in Jobs : /\ job'[i].req = job[i].req /\ job'[i].todo = job[i].todo
                         /\ job'[i].pc = IF i = j THEN "finished" ELSE job[i].pc
    BY <1>1 DEF NodeTypes, JobTypes, JobRecords
<1>3. JobTypes'
    BY <1>1, <1>2 DEF NodeTypes, JobTypes
<1>4. DelTypes'
    BY <1>1, <1>2 DEF NodeTypes, DelTypes
<1>5. \A w \in Workers : w[1] = j /\ w[2] \in job[j].req.work => worker[w].pc = "done"
    BY <1>1 DEF Workers
<1>6. WorkerTypes'
    BY <1>1, <1>2, <1>5 DEF NodeTypes, WorkerTypes, Opens, Workers, table
<1>7. TableTypes'
    BY <1>1 DEF NodeTypes, TableTypes, table
<1> QED BY <1>3, <1>4, <1>6, <1>7 DEF NodeTypes

-----------------------------------------------------------------------------
(* A worker moves: it takes the mutex, gives it back, or does neither.     *)
Takes(w) == /\ worker[w].pc \notin Holding /\ worker'[w].pc \in Holding
            /\ worker'[w].ref \in Refs /\ mutex = Nobody /\ mutex' = w
Gives(w) == /\ worker[w].pc \in Holding /\ worker'[w].pc \notin Holding
            /\ worker'[w].ref = Nobody /\ mutex' = Nobody
Passes(w) == /\ worker[w].pc \notin Holding /\ worker'[w].pc \notin Holding
             /\ worker'[w].ref = Nobody /\ mutex' = mutex

LEMMA WorkerMoves ==
    ASSUME NodeTypes, NEW w \in Workers, UNCHANGED <<job, del>>,
           worker' \in [Workers -> WorkerRecords],
           \A x \in Workers : x # w => worker'[x] = worker[x],
           worker[w].pc \notin {"off", "done"},
           worker'[w].pc \in {"post", "posting"} => Opens(w),
           Takes(w) \/ Gives(w) \/ Passes(w)
    PROVE  JobTypes' /\ DelTypes' /\ WorkerTypes'
<1>1. JobTypes' /\ DelTypes'
    BY DEF NodeTypes, JobTypes, DelTypes
<1>2. ASSUME NEW x \in Workers
      PROVE  /\ worker'[x].pc \in Holding => worker'[x].ref \in Refs
             /\ worker'[x].pc \notin Holding => worker'[x].ref = Nobody
             /\ worker'[x].pc \in Holding <=> mutex' = x
             /\ worker'[x].pc \notin {"off", "done"} =>
                  job'[x[1]].pc = "work" /\ x[2] \in job'[x[1]].req.work
             /\ worker'[x].pc \in {"post", "posting"} => Opens(x)'
    <2>1. w # Nobody /\ x # Nobody /\ (worker[w].pc \in Holding <=> mutex = w)
          /\ (worker[x].pc \in Holding <=> mutex = x)
        BY NobodyAssumption DEF NodeTypes, WorkerTypes, Workers
    <2>2. CASE x = w
        <3>1. worker'[x].pc \notin {"off", "done"} =>
                  job'[x[1]].pc = "work" /\ x[2] \in job'[x[1]].req.work
            BY <2>2 DEF NodeTypes, WorkerTypes
        <3>2. worker'[x].pc \in {"post", "posting"} => Opens(x)'
            BY <2>2 DEF Opens
        <3> QED BY <2>1, <2>2, <3>1, <3>2 DEF Takes, Gives, Passes
    <2>3. CASE x # w
        <3>1. mutex' = x <=> mutex = x
            BY <2>1, <2>3 DEF Takes, Gives, Passes
        <3> QED BY <2>3, <3>1 DEF NodeTypes, WorkerTypes, Opens
    <2> QED BY <2>2, <2>3
<1> QED BY <1>1, <1>2 DEF WorkerTypes

(* What each of its steps makes of a worker, field by field.               *)
LEMMA PostReadMoves ==
    ASSUME NodeTypes, NEW w \in Workers, PostRead(w)
    PROVE  /\ worker[w].pc = "post" /\ mutex = Nobody /\ mutex' = w
           /\ worker' \in [Workers -> WorkerRecords]
           /\ \A x \in Workers : x # w => worker'[x] = worker[x]
           /\ worker'[w].pc = "posting" /\ worker'[w].ref \in Refs
           /\ worker'[w].said = worker[w].said /\ worker'[w].left = worker[w].left
           /\ \/ /\ w[2] \in DOMAIN AllNodesContextSet
                 /\ DOMAIN heap[AllNodesContextSet[w[2]]] # {}
                 /\ worker'[w].ref = AllNodesContextSet[w[2]] /\ heap' = heap
              \/ /\ worker'[w].ref = FreshRef
                 /\ heap' = [heap EXCEPT ![FreshRef] = Empty]
                 /\ ~(/\ w[2] \in DOMAIN AllNodesContextSet
                      /\ DOMAIN heap[AllNodesContextSet[w[2]]] # {})
           /\ UNCHANGED <<AllNodesContextSet, CurrentStep, job, del, recorded>>
<1>1. PICK ref \in Refs :
         /\ IF w[2] \in DOMAIN AllNodesContextSet
               /\ DOMAIN heap[AllNodesContextSet[w[2]]] # {}
            THEN ref = AllNodesContextSet[w[2]] /\ UNCHANGED heap
            ELSE ref = FreshRef /\ heap' = [heap EXCEPT ![ref] = Empty]
         /\ worker' = [worker EXCEPT ![w].pc = "posting", ![w].ref = ref]
    BY DEF PostRead
<1>2. worker \in [Workers -> WorkerRecords]
    BY DEF NodeTypes, WorkerTypes
<1>3. /\ worker' \in [Workers -> WorkerRecords]
      /\ \A x \in Workers : x # w => worker'[x] = worker[x]
      /\ worker'[w].pc = "posting" /\ worker'[w].ref = ref
      /\ worker'[w].said = worker[w].said /\ worker'[w].left = worker[w].left
    BY <1>1, <1>2 DEF WorkerRecords, Holding
<1> QED BY <1>1, <1>3 DEF PostRead

LEMMA PostWriteMoves ==
    ASSUME NodeTypes, NEW w \in Workers, PostWrite(w)
    PROVE  /\ worker[w].pc = "posting" /\ mutex = w /\ mutex' = Nobody
           /\ worker' \in [Workers -> WorkerRecords]
           /\ \A x \in Workers : x # w => worker'[x] = worker[x]
           /\ worker'[w].pc = "put" /\ worker'[w].ref = Nobody
           /\ worker'[w].said = "running" /\ worker'[w].left = worker[w].left
           /\ StepOf(w[1]) \in Steps /\ worker[w].ref \in Refs
           /\ PostBody(w) \in NodeContexts
           /\ heap' = [heap EXCEPT ![worker[w].ref] = Put(@, StepOf(w[1]), PostBody(w))]
           /\ AllNodesContextSet' = Put(AllNodesContextSet, w[2], worker[w].ref)
           /\ CurrentStep' = StepOf(w[1]) /\ recorded' = recorded \cup {<<w[2], StepOf(w[1])>>}
           /\ UNCHANGED <<job, del>>
<1>1. /\ worker[w].pc = "posting" /\ mutex' = Nobody /\ UNCHANGED <<job, del>>
      /\ worker' = [worker EXCEPT ![w].pc = "put", ![w].ref = Nobody, ![w].said = "running"]
      /\ heap' = [heap EXCEPT ![worker[w].ref] = Put(@, StepOf(w[1]), PostBody(w))]
      /\ CurrentStep' = StepOf(w[1]) /\ recorded' = recorded \cup {<<w[2], StepOf(w[1])>>}
    BY DEF PostWrite, Posted, PostBody, StepOf
<1>2. worker \in [Workers -> WorkerRecords] /\ mutex = w /\ worker[w].ref \in Refs
    BY <1>1 DEF NodeTypes, WorkerTypes, Holding
<1>3. /\ worker' \in [Workers -> WorkerRecords]
      /\ \A x \in Workers : x # w => worker'[x] = worker[x]
      /\ worker'[w].pc = "put" /\ worker'[w].ref = Nobody
      /\ worker'[w].said = "running" /\ worker'[w].left = worker[w].left
    BY <1>1, <1>2 DEF WorkerRecords, States
<1>4. StepOf(w[1]) \in Steps
    <2>1. job[w[1]].pc = "work" /\ w[1] \in Jobs
        BY <1>1 DEF NodeTypes, WorkerTypes, Workers
    <2> QED BY <2>1, RequestType DEF NodeTypes, JobTypes, StepOf
<1>5. PostBody(w) \in NodeContexts
    BY DEF PostBody, NodeContexts, States
<1> QED BY <1>1, <1>2, <1>3, <1>4, <1>5 DEF PostWrite

LEMMA PostAgainMoves ==
    ASSUME NodeTypes, NEW w \in Workers, PostAgain(w)
    PROVE  /\ worker[w].pc = "put" /\ Opens(w)
           /\ worker' \in [Workers -> WorkerRecords]
           /\ \A x \in Workers : x # w => worker'[x] = worker[x]
           /\ worker'[w].pc = "post" /\ worker'[w].ref = Nobody
           /\ worker'[w].said = worker[w].said
           /\ UNCHANGED <<AllNodesContextSet, heap, CurrentStep, mutex, job, del, recorded>>
<1>1. /\ worker[w].pc = "put" /\ worker[w].left > 0 /\ Opens(w)
      /\ worker' = [worker EXCEPT ![w].pc = "post", ![w].left = @ - 1]
      /\ UNCHANGED <<table, job, del, recorded>>
    BY DEF PostAgain
<1>2. worker \in [Workers -> WorkerRecords] /\ worker[w].ref = Nobody
    BY <1>1 DEF NodeTypes, WorkerTypes, Holding
<1>3. worker[w].left - 1 \in 0..MaxPuts
    BY <1>1, <1>2, PutsAssumption DEF WorkerRecords
<1>4. /\ worker' \in [Workers -> WorkerRecords]
      /\ \A x \in Workers : x # w => worker'[x] = worker[x]
      /\ worker'[w].pc = "post" /\ worker'[w].ref = Nobody
      /\ worker'[w].said = worker[w].said
    BY <1>1, <1>2, <1>3 DEF WorkerRecords
<1> QED BY <1>1, <1>4 DEF table

LEMMA SentMoves ==
    ASSUME NodeTypes, NEW w \in Workers, NEW st \in States \cup {NoState},
           worker' = Sent(w, st)
    PROVE  /\ worker' \in [Workers -> WorkerRecords]
           /\ \A x \in Workers : x # w => worker'[x] = worker[x]
           /\ worker'[w].pc \in {"put", "done"} /\ worker'[w].ref = Nobody
           /\ worker'[w].said = IF st = NoState THEN worker[w].said ELSE st
<1> DEFINE v == [pc |-> IF worker[w].left = 0 THEN "done" ELSE "put",
                 left |-> IF worker[w].left = 0 THEN 0 ELSE worker[w].left - 1,
                 ref |-> Nobody,
                 said |-> IF st = NoState THEN worker[w].said ELSE st]
<1>1. worker' = [worker EXCEPT ![w] = v] /\ worker \in [Workers -> WorkerRecords]
    BY DEF Sent, NodeTypes, WorkerTypes
<1>2. worker[w].left \in 0..MaxPuts /\ worker[w].said \in States \cup {NoState}
    BY <1>1 DEF WorkerRecords
<1>3. v.left \in 0..MaxPuts
    BY <1>2, PutsAssumption
<1>4. v \in WorkerRecords
    BY <1>2, <1>3 DEF WorkerRecords
<1> QED BY <1>1, <1>4

LEMMA PutReadMoves ==
    ASSUME NodeTypes, NEW w \in Workers, PutRead(w)
    PROVE  /\ worker[w].pc = "put" /\ mutex = Nobody
           /\ worker' \in [Workers -> WorkerRecords]
           /\ \A x \in Workers : x # w => worker'[x] = worker[x]
           /\ worker'[w].said = worker[w].said
           /\ \/ /\ worker'[w].pc \in {"put", "done"} /\ worker'[w].ref = Nobody
                 /\ w[2] \notin DOMAIN AllNodesContextSet /\ mutex' = Nobody
              \/ /\ worker'[w].pc = "putting" /\ worker'[w].ref \in Refs /\ mutex' = w
                 /\ w[2] \in DOMAIN AllNodesContextSet
                 /\ worker'[w].ref = AllNodesContextSet[w[2]]
           /\ UNCHANGED <<AllNodesContextSet, heap, CurrentStep, job, del, recorded>>
<1>1. /\ worker[w].pc = "put" /\ mutex = Nobody
      /\ UNCHANGED <<AllNodesContextSet, heap, CurrentStep, job, del, recorded>>
    BY DEF PutRead
<1>2. CASE w[2] \notin DOMAIN AllNodesContextSet
    <2>1. worker' = Sent(w, NoState) /\ mutex' = mutex
        BY <1>2 DEF PutRead
    <2> QED BY <1>1, <1>2, <2>1, SentMoves
<1>3. CASE w[2] \in DOMAIN AllNodesContextSet
    <2> DEFINE r == AllNodesContextSet[w[2]]
    <2>1. mutex' = w /\ worker' = [worker EXCEPT ![w].pc = "putting", ![w].ref = r]
        BY <1>3 DEF PutRead
    <2>2. r \in Refs
        <3>1. AllNodesContextSet \in Tables(Hosts, Refs)
            BY DEF NodeTypes, TableTypes
        <3> QED BY <1>3, <3>1, TableElim
    <2>3. worker \in [Workers -> WorkerRecords]
        BY DEF NodeTypes, WorkerTypes
    <2>4. /\ worker' \in [Workers -> WorkerRecords]
          /\ \A x \in Workers : x # w => worker'[x] = worker[x]
          /\ worker'[w].pc = "putting" /\ worker'[w].ref = r
          /\ worker'[w].said = worker[w].said
        BY <2>1, <2>2, <2>3 DEF WorkerRecords, Holding
    <2> QED BY <1>1, <1>3, <2>1, <2>2, <2>4
<1> QED BY <1>2, <1>3

(* The context an update leaves under the current step.                    *)
Merged(w, st) == [state |-> IF st = NoState THEN StepState(w).state ELSE st,
                  by |-> StepState(w).by \cup {w}]

LEMMA PutWriteMoves ==
    ASSUME NodeTypes, NEW w \in Workers, NEW st \in States \cup {NoState}, PutWrite(w, st)
    PROVE  /\ worker[w].pc = "putting" /\ mutex = w /\ mutex' = Nobody
           /\ worker' \in [Workers -> WorkerRecords]
           /\ \A x \in Workers : x # w => worker'[x] = worker[x]
           /\ worker'[w].pc \in {"put", "done"} /\ worker'[w].ref = Nobody
           /\ worker'[w].said = IF st = NoState THEN worker[w].said ELSE st
           /\ worker[w].ref \in Refs /\ CurrentStep \in Steps /\ Merged(w, st) \in NodeContexts
           /\ heap' = [heap EXCEPT ![worker[w].ref] = Put(@, CurrentStep, Merged(w, st))]
           /\ AllNodesContextSet' = Put(AllNodesContextSet, w[2], worker[w].ref)
           /\ UNCHANGED <<CurrentStep, job, del, recorded>>
<1>1. /\ worker[w].pc = "putting" /\ mutex' = Nobody /\ worker' = Sent(w, st)
      /\ heap' = [heap EXCEPT ![worker[w].ref] = Put(@, CurrentStep, Merged(w, st))]
      /\ AllNodesContextSet' = Put(AllNodesContextSet, w[2], worker[w].ref)
      /\ UNCHANGED <<CurrentStep, job, del, recorded>>
    BY DEF PutWrite, Written, Merged
<1>2. mutex = w /\ worker[w].ref \in Refs /\ CurrentStep \in Steps
    BY <1>1 DEF NodeTypes, WorkerTypes, TableTypes, Holding
<1>3. StepState(w) \in NodeContexts
    <2>1. heap[worker[w].ref] \in Tables(Steps, NodeContexts)
        BY <1>2 DEF NodeTypes, TableTypes
    <2>2. CurrentStep \in DOMAIN heap[worker[w].ref] =>
              heap[worker[w].ref][CurrentStep] \in NodeContexts
        BY <2>1, TableElim
    <2>3. [state |-> NoState, by |-> {}] \in NodeContexts
        BY DEF NodeContexts
    <2> QED BY <2>2, <2>3 DEF StepState
<1>4. Merged(w, st) \in NodeContexts
    BY <1>3 DEF Merged, NodeContexts
<1> QED BY <1>1, <1>2, <1>4, SentMoves

LEMMA WorkTypes ==
    ASSUME NodeTypes, NEW w \in Workers, Work(w)
    PROVE  NodeTypes'
<1> USE DEF Takes, Gives, Passes, Holding
<1>0. /\ AllNodesContextSet \in Tables(Hosts, Refs)
      /\ heap \in [Refs -> Tables(Steps, NodeContexts)]
      /\ w[1] \in Jobs /\ w[2] \in Hosts /\ mutex \in Workers \cup {Nobody}
      /\ recorded \in SUBSET (Hosts \X Steps)
    BY DEF NodeTypes, TableTypes, Workers
<1>1. CASE PostRead(w)
    <2>1. Opens(w) /\ Takes(w) /\ worker[w].pc = "post"
        BY <1>1, PostReadMoves DEF NodeTypes, WorkerTypes
    <2>2. JobTypes' /\ DelTypes' /\ WorkerTypes'
        BY <1>1, <2>1, PostReadMoves, WorkerMoves
    <2>3. heap' \in [Refs -> Tables(Steps, NodeContexts)]
        BY <1>0, <1>1, PostReadMoves, EmptyTable
    <2>4. \A x \in Workers : worker'[x].pc = "putting" => worker[x].pc = "putting"
        BY <1>1, PostReadMoves
    <2> QED BY <1>1, <2>2, <2>3, <2>4, PostReadMoves DEF NodeTypes, TableTypes
<1>2. CASE PostWrite(w)
    <2>1. Gives(w)
        BY <1>2, PostWriteMoves
    <2>2. JobTypes' /\ DelTypes' /\ WorkerTypes'
        BY <1>2, <2>1, PostWriteMoves, WorkerMoves
    <2>3. heap' \in [Refs -> Tables(Steps, NodeContexts)]
        <3>1. heap[worker[w].ref] \in Tables(Steps, NodeContexts)
            BY <1>0, <1>2, PostWriteMoves
        <3>2. Put(heap[worker[w].ref], StepOf(w[1]), PostBody(w)) \in Tables(Steps, NodeContexts)
            BY <1>2, <3>1, PostWriteMoves, PutTable
        <3> QED BY <1>0, <1>2, <3>2, PostWriteMoves
    <2>4. AllNodesContextSet' \in Tables(Hosts, Refs)
        <3>1. /\ AllNodesContextSet' = Put(AllNodesContextSet, w[2], worker[w].ref)
              /\ worker[w].ref \in Refs
            BY <1>2, PostWriteMoves
        <3> QED BY <1>0, <3>1, PutTable
    <2>5. recorded' \in SUBSET (Hosts \X Steps) /\ CurrentStep' \in Steps
        BY <1>0, <1>2, PostWriteMoves
    <2> QED BY <1>2, <2>2, <2>3, <2>4, <2>5, PostWriteMoves DEF NodeTypes, TableTypes
<1>3. CASE PostAgain(w)
    <2>1. Passes(w)
        BY <1>3, PostAgainMoves
    <2>2. JobTypes' /\ DelTypes' /\ WorkerTypes'
        BY <1>3, <2>1, PostAgainMoves, WorkerMoves
    <2>3. \A x \in Workers : worker'[x].pc = "putting" => worker[x].pc = "putting"
        BY <1>3, PostAgainMoves
    <2> QED BY <1>3, <2>2, <2>3, PostAgainMoves DEF NodeTypes, TableTypes
<1>4. CASE PutRead(w)
    <2>1. Takes(w) \/ Passes(w)
        BY <1>4, PutReadMoves
    <2>2. JobTypes' /\ DelTypes' /\ WorkerTypes'
        <3>1. worker[w].pc = "put" /\ worker'[w].pc \notin {"post", "posting"}
            BY <1>4, PutReadMoves
        <3> QED BY <1>4, <2>1, <3>1, PutReadMoves, WorkerMoves
    <2>3. CurrentStep \in Steps \/ \A x \in Workers : worker'[x].pc # "putting"
        BY <1>4, PutReadMoves DEF NodeTypes, TableTypes
    <2> QED BY <1>0, <1>4, <2>2, <2>3, PutReadMoves DEF NodeTypes, TableTypes
<1>5. CASE \E st \in States \cup {NoState} : PutWrite(w, st)
    <2>1. PICK st \in States \cup {NoState} : PutWrite(w, st)
        BY <1>5
    <2>2. Gives(w)
        BY <2>1, PutWriteMoves
    <2>3. JobTypes' /\ DelTypes' /\ WorkerTypes'
        <3>1. worker[w].pc = "putting" /\ worker'[w].pc \notin {"post", "posting"}
            BY <2>1, PutWriteMoves
        <3> QED BY <2>1, <2>2, <3>1, PutWriteMoves, WorkerMoves
    <2>4. heap' \in [Refs -> Tables(Steps, NodeContexts)]
        <3>1. heap[worker[w].ref] \in Tables(Steps, NodeContexts)
            BY <1>0, <2>1, PutWriteMoves
        <3>2. Put(heap[worker[w].ref], CurrentStep, Merged(w, st)) \in Tables(Steps, NodeContexts)
            BY <2>1, <3>1, PutWriteMoves, PutTable
        <3> QED BY <1>0, <2>1, <3>2, PutWriteMoves
    <2>5. AllNodesContextSet' \in Tables(Hosts, Refs)
        <3>1. /\ AllNodesContextSet' = Put(AllNodesContextSet, w[2], worker[w].ref)
              /\ worker[w].ref \in Refs
            BY <2>1, PutWriteMoves
        <3> QED BY <1>0, <3>1, PutTable
    <2> QED BY <1>0, <2>1, <2>3, <2>4, <2>5, PutWriteMoves DEF NodeTypes, TableTypes
<1> QED BY <1>1, <1>2, <1>3, <1>4, <1>5 DEF Work

LEMMA NodeTypesStep == NodeTypes /\ [Next]_vars => NodeTypes'
<1> SUFFICES ASSUME NodeTypes, [Next]_vars PROVE NodeTypes'
    OBVIOUS
<1>1. ASSUME NEW j \in Jobs, NEW q \in Requests, Start(j, q) PROVE NodeTypes'
    BY <1>1, StartTypes
<1>2. ASSUME NEW j \in Jobs, Handler(j) PROVE NodeTypes'
    BY <1>2, DeleteReadTypes, DeleteTypes, LaunchTypes, FinishTypes DEF Handler
<1>3. ASSUME NEW w \in Workers, Work(w) PROVE NodeTypes'
    BY <1>3, WorkTypes
<1>4. CASE UNCHANGED vars
    BY <1>4 DEF vars, table, NodeTypes, JobTypes, DelTypes, WorkerTypes, TableTypes, Opens
<1> QED BY <1>1, <1>2, <1>3, <1>4 DEF Next, AllFinished

(* In every execution each handler refers to maps of the table's shape,    *)
(* and a goroutine is between the read and the write of a POST or a PUT    *)
(* exactly when it holds svc.mutex, whatever tasks overlap.                *)
THEOREM NodeTableTypeCorrect == Spec => []TypeOK
<1>1. NodeTypes => TypeOK
    <2> SUFFICES ASSUME NodeTypes PROVE TypeOK
        OBVIOUS
    <2>1. AllNodesContextSet \in UNION {[D -> Refs] : D \in SUBSET Hosts}
        BY DEF NodeTypes, TableTypes, Tables
    <2>2. heap \in [Refs -> InnerMaps]
        BY DEF NodeTypes, TableTypes, Tables, InnerMaps
    <2> QED BY <2>1, <2>2 DEF NodeTypes, TableTypes, JobTypes, WorkerTypes, TypeOK, Holding
<1> QED BY NodeTypesInit, NodeTypesStep, <1>1, PTL DEF Spec

-----------------------------------------------------------------------------
(* A finite function takes no more values than its domain has elements.    *)
LEMMA ImageBound ==
    ASSUME NEW S, IsFiniteSet(S), NEW f, DOMAIN f = S, f = [x \in S |-> f[x]]
    PROVE  LET T == {f[x] : x \in S}
           IN  IsFiniteSet(T) /\ Cardinality(T) \in Nat /\ Cardinality(T) <= Cardinality(S)
<1> DEFINE T == {f[x] : x \in S}
<1>1. f \in [S -> T] /\ \A t \in T : \E x \in S : f[x] = t
    OBVIOUS
<1>2. f \in Surjection(S, T)
    BY <1>1 DEF Surjection
<1> QED BY <1>2, FS_Surjection, FS_CardinalityType

(* make(map): while nobody holds the mutex there is a map nothing refers   *)
(* to, so the map a POST makes is one.                                     *)
LEMMA FreshExists ==
    ASSUME NodeTypes, mutex = Nobody
    PROVE  FreshRef \in Refs /\ FreshRef \notin Reachable
<1> DEFINE A == {AllNodesContextSet[h] : h \in DOMAIN AllNodesContextSet}
           dref == [j \in Jobs |-> del[j].ref]
           D == {dref[j] : j \in Jobs}
<1>1. IsFiniteSet(A) /\ Cardinality(A) \in Nat /\ Cardinality(A) <= Cardinality(Hosts)
    <2>1. AllNodesContextSet \in Tables(Hosts, Refs)
        BY DEF NodeTypes, TableTypes
    <2>2. /\ DOMAIN AllNodesContextSet \in SUBSET Hosts
          /\ AllNodesContextSet = [h \in DOMAIN AllNodesContextSet |-> AllNodesContextSet[h]]
        BY <2>1, TableElim
    <2>3. /\ IsFiniteSet(DOMAIN AllNodesContextSet)
          /\ Cardinality(DOMAIN AllNodesContextSet) <= Cardinality(Hosts)
          /\ Cardinality(DOMAIN AllNodesContextSet) \in Nat /\ Cardinality(Hosts) \in Nat
        BY <2>2, RefsAssumption, FS_Subset, FS_CardinalityType
    <2>4. /\ IsFiniteSet(A) /\ Cardinality(A) \in Nat
          /\ Cardinality(A) <= Cardinality(DOMAIN AllNodesContextSet)
        BY <2>2, <2>3, ImageBound
    <2> QED BY <2>3, <2>4
<1>2. IsFiniteSet(D) /\ Cardinality(D) \in Nat /\ Cardinality(D) <= Cardinality(Jobs)
    <2>1. DOMAIN dref = Jobs /\ dref = [j \in Jobs |-> dref[j]]
        OBVIOUS
    <2> HIDE DEF dref
    <2> QED BY <2>1, RefsAssumption, ImageBound
<1>3. IsFiniteSet(A \cup D) /\ Cardinality(A \cup D) <= Cardinality(Hosts) + Cardinality(Jobs)
    <2>1. IsFiniteSet(A \cap D)
        BY <1>1, FS_Subset
    <2>2. Cardinality(A \cap D) \in Nat
        BY <2>1, FS_CardinalityType
    <2>3. /\ IsFiniteSet(A \cup D)
          /\ Cardinality(A \cup D) = Cardinality(A) + Cardinality(D) - Cardinality(A \cap D)
        BY <1>1, <1>2, FS_Union
    <2>4. Cardinality(Hosts) \in Nat /\ Cardinality(Jobs) \in Nat
        BY RefsAssumption, FS_CardinalityType
    <2> HIDE DEF A, D
    <2> QED BY <1>1, <1>2, <2>2, <2>3, <2>4
<1>4. ~(Refs \subseteq A \cup D)
    <2>1. Refs \subseteq A \cup D => Cardinality(Refs) <= Cardinality(A \cup D)
        BY <1>3, FS_Subset
    <2>2. /\ Cardinality(A \cup D) \in Nat /\ Cardinality(Refs) \in Nat
          /\ Cardinality(Hosts) \in Nat /\ Cardinality(Jobs) \in Nat
        BY <1>3, RefsAssumption, FS_CardinalityType
    <2> HIDE DEF A, D
    <2> QED BY <1>3, <2>1, <2>2, RefsAssumption
<1>5. \A w \in Workers : worker[w].ref = Nobody
    BY NobodyAssumption DEF NodeTypes, WorkerTypes, Workers
<1>6. PICK r \in Refs : r \notin A /\ r \notin D
    BY <1>4
<1>7. r \notin Reachable
    BY <1>5, <1>6, RefsAssumption DEF Reachable
<1> QED BY <1>6, <1>7 DEF FreshRef

-----------------------------------------------------------------------------
(* Who may store a map under a host: the table has it there, or a DELETE   *)
(* or a worker of that host has read it. OutputStaysOnHost speaks of the   *)
(* table alone, but a handler stores what it read before.                  *)
TableRef(h, r) == h \in DOMAIN AllNodesContextSet /\ AllNodesContextSet[h] = r
DeletesIn(h, r) == \E j \in Jobs : del[j].pc # "none" /\ del[j].host = h /\ del[j].ref = r
WorksIn(h, r) == \E w \in Workers : worker[w].pc \in Holding /\ w[2] = h /\ worker[w].ref = r
Uses(h, r) == TableRef(h, r) \/ DeletesIn(h, r) \/ WorksIn(h, r)

OneHostEach == \A r \in Refs : \A h, k \in Hosts : Uses(h, r) /\ Uses(k, r) => h = k
OwnOutput ==
    \A r \in Refs : \A h \in Hosts :
        Uses(h, r) => \A s \in DOMAIN heap[r] : \A w \in heap[r][s].by : w[2] = h
HostInv == NodeTypes /\ OneHostEach /\ OwnOutput

(* What a step may do to the maps: a map gets no new user but when it is   *)
(* just made, and no writer but the workers that use it.                   *)
NoNewUser(r) == \A h \in Hosts : Uses(h, r)' => Uses(h, r)
OnlyUsersWrite(r) ==
    \A s \in DOMAIN heap'[r] : \A w \in heap'[r][s].by :
        \/ s \in DOMAIN heap[r] /\ w \in heap[r][s].by
        \/ w[2] \in Hosts /\ Uses(w[2], r)
JustMade(r) == /\ heap'[r] = Empty
               /\ \A h, k \in Hosts : Uses(h, r)' /\ Uses(k, r)' => h = k

LEMMA HostStep ==
    ASSUME HostInv, NodeTypes',
           \A r \in Refs : JustMade(r) \/ (NoNewUser(r) /\ OnlyUsersWrite(r))
    PROVE  HostInv'
<1>1. OneHostEach'
    BY DEF HostInv, OneHostEach, JustMade, NoNewUser
<1>2. OwnOutput'
    <2> SUFFICES ASSUME NEW r \in Refs, NEW h \in Hosts, Uses(h, r)',
                        NEW s \in DOMAIN heap'[r], NEW w \in heap'[r][s].by
                 PROVE  w[2] = h
        BY DEF OwnOutput
    <2>1. NoNewUser(r) /\ OnlyUsersWrite(r)
        BY EmptyTable DEF JustMade
    <2>2. Uses(h, r)
        BY <2>1 DEF NoNewUser
    <2> QED BY <2>1, <2>2 DEF OnlyUsersWrite, HostInv, OneHostEach, OwnOutput
<1> QED BY <1>1, <1>2 DEF HostInv

(* A step that leaves table and maps alone and starts no handler.          *)
LEMMA HostKept ==
    ASSUME HostInv, NodeTypes', UNCHANGED <<AllNodesContextSet, heap>>,
           \A i \in Jobs : del'[i].pc = "none" \/ (/\ del[i].pc # "none"
                                                  /\ del'[i].host = del[i].host
                                                  /\ del'[i].ref = del[i].ref),
           \A x \in Workers : worker'[x].pc \in Holding => worker'[x] = worker[x]
    PROVE  HostInv'
<1>1. ASSUME NEW r \in Refs PROVE NoNewUser(r) /\ OnlyUsersWrite(r)
    BY DEF NoNewUser, OnlyUsersWrite, Uses, TableRef, DeletesIn, WorksIn
<1> QED BY <1>1, HostStep

LEMMA HostInvInit == Init => HostInv
<1> SUFFICES ASSUME Init PROVE HostInv
    OBVIOUS
<1>1. \A h \in Hosts, r \in Refs : ~Uses(h, r)
    BY EmptyTable DEF Init, Uses, TableRef, DeletesIn, WorksIn, NoDelete, NoWorker, Holding
<1> QED BY <1>1, NodeTypesInit DEF HostInv, OneHostEach, OwnOutput

LEMMA HandlerKeepsHosts ==
    ASSUME HostInv, NEW j \in Jobs, Handler(j) \/ \E q \in Requests : Start(j, q)
    PROVE  HostInv'
<1>0. NodeTypes /\ NodeTypes'
    BY StartTypes, DeleteReadTypes, DeleteTypes, LaunchTypes, FinishTypes DEF HostInv, Handler
<1>1. CASE \E q \in Requests : Start(j, q)
    BY <1>0, <1>1, HostKept DEF Start, table, Holding
<1>2. CASE \E h \in Hosts : DeleteRead(j, h)
    <2>1. PICK h \in Hosts : DeleteRead(j, h)
        BY <1>2
    <2>2. UNCHANGED <<table, worker>> /\ del \in [Jobs -> DelRecords] /\ del[j] = NoDelete
        BY <1>0, <2>1 DEF DeleteRead, NodeTypes, DelTypes
    <2>3. CASE del' = del
        BY <1>0, <2>2, <2>3, HostKept DEF table
    <2>4. CASE /\ h \in DOMAIN AllNodesContextSet
               /\ del' = [del EXCEPT ![j] =
                            [pc |-> "delete", host |-> h, ref |-> AllNodesContextSet[h]]]
        <3>1. ASSUME NEW r \in Refs PROVE NoNewUser(r) /\ OnlyUsersWrite(r)
            BY <2>2, <2>4 DEF NoNewUser, OnlyUsersWrite, Uses, TableRef, DeletesIn, WorksIn, table
        <3> QED BY <1>0, <3>1, HostStep
    <2> QED BY <2>1, <2>3, <2>4 DEF DeleteRead
<1>3. CASE DeleteKey(j)
    <2>1. /\ del[j].pc = "delete" /\ del' = [del EXCEPT ![j].pc = "store"]
          /\ heap' = [heap EXCEPT ![del[j].ref] = Drop(@, StepOf(j))]
          /\ UNCHANGED <<AllNodesContextSet, CurrentStep, mutex, job, worker, recorded>>
        BY <1>3 DEF DeleteKey, StepOf
    <2>2. del \in [Jobs -> DelRecords] /\ heap \in [Refs -> Tables(Steps, NodeContexts)]
        BY <1>0 DEF NodeTypes, DelTypes, TableTypes
    <2>3. \A i \in Jobs : /\ del'[i].host = del[i].host /\ del'[i].ref = del[i].ref
                          /\ del'[i].pc # "none" <=> del[i].pc # "none"
        BY <2>1, <2>2 DEF DelRecords
    <2>4. ASSUME NEW r \in Refs PROVE NoNewUser(r) /\ OnlyUsersWrite(r)
        <3>1. heap'[r] = heap[r] \/ heap'[r] = Drop(heap[r], StepOf(j))
            BY <2>1, <2>2
        <3>2. OnlyUsersWrite(r)
            BY <2>2, <3>1, DropTable DEF OnlyUsersWrite, Drop
        <3>3. NoNewUser(r)
            BY <2>1, <2>3 DEF NoNewUser, Uses, TableRef, DeletesIn, WorksIn
        <3> QED BY <3>2, <3>3
    <2> QED BY <1>0, <2>4, HostStep
<1>4. CASE DeleteStore(j)
    <2>1. /\ del[j].pc = "store" /\ del' = [del EXCEPT ![j].pc = "check"]
          /\ AllNodesContextSet' = Put(AllNodesContextSet, del[j].host, del[j].ref)
          /\ UNCHANGED <<heap, CurrentStep, mutex, job, worker, recorded>>
        BY <1>4 DEF DeleteStore
    <2>2. del \in [Jobs -> DelRecords] /\ AllNodesContextSet \in Tables(Hosts, Refs)
        BY <1>0 DEF NodeTypes, DelTypes, TableTypes
    <2>3. \A i \in Jobs : /\ del'[i].host = del[i].host /\ del'[i].ref = del[i].ref
                          /\ del'[i].pc # "none" <=> del[i].pc # "none"
        BY <2>1, <2>2 DEF DelRecords
    <2>4. ASSUME NEW r \in Refs PROVE NoNewUser(r) /\ OnlyUsersWrite(r)
        BY <2>1, <2>2, <2>3
           DEF NoNewUser, OnlyUsersWrite, Uses, TableRef, DeletesIn, WorksIn, Put
    <2> QED BY <1>0, <2>4, HostStep
<1>5. CASE DeleteCheck(j)
    <2>1. /\ del[j].pc = "check"
          /\ \/ del' = [del EXCEPT ![j].pc = "drop"]
             \/ del' = [del EXCEPT ![j] = NoDelete]
          /\ UNCHANGED <<table, worker, recorded>>
        BY <1>5 DEF DeleteCheck, DeleteReturns
    <2>2. del \in [Jobs -> DelRecords]
        BY <1>0 DEF NodeTypes, DelTypes
    <2>3. \A i \in Jobs : del'[i].pc = "none" \/ (/\ del[i].pc # "none"
                                                 /\ del'[i].host = del[i].host
                                                 /\ del'[i].ref = del[i].ref)
        BY <2>1, <2>2 DEF DelRecords, NoDelete
    <2> QED BY <1>0, <2>1, <2>3, HostKept DEF table
<1>6. CASE DeleteDrop(j)
    <2>1. /\ AllNodesContextSet' = Drop(AllNodesContextSet, del[j].host)
          /\ del' = [del EXCEPT ![j] = NoDelete] /\ heap' = heap /\ worker' = worker
        BY <1>6 DEF DeleteDrop, DeleteReturns
    <2>2. del \in [Jobs -> DelRecords]
        BY <1>0 DEF NodeTypes, DelTypes
    <2>3. ASSUME NEW r \in Refs PROVE NoNewUser(r) /\ OnlyUsersWrite(r)
        BY <2>1, <2>2
           DEF NoNewUser, OnlyUsersWrite, Uses, TableRef, DeletesIn, WorksIn, Drop, NoDelete
    <2> QED BY <1>0, <2>3, HostStep
<1>7. CASE Launch(j)
    <2>1. StartWorkers(j) /\ UNCHANGED <<table, del, recorded>>
        BY <1>7 DEF Launch
    <2>2. \A x \in Workers : worker'[x].pc \in Holding => worker'[x] = worker[x]
        BY <2>1 DEF StartWorkers, Holding, NoWorker
    <2> QED BY <1>0, <2>1, <2>2, HostKept DEF table
<1>8. CASE Finish(j)
    BY <1>0, <1>8, HostKept DEF Finish, table
<1> QED BY <1>1, <1>2, <1>3, <1>4, <1>5, <1>6, <1>7, <1>8 DEF Handler

(* A worker that puts an entry into its map and stores the map.            *)
LEMMA WorkerStores ==
    ASSUME HostInv, NodeTypes', NEW w \in Workers, worker[w].pc \in Holding,
           NEW s, NEW v, v.by \subseteq (IF s \in DOMAIN heap[worker[w].ref]
                                         THEN heap[worker[w].ref][s].by ELSE {}) \cup {w},
           heap' = [heap EXCEPT ![worker[w].ref] = Put(@, s, v)],
           AllNodesContextSet' = Put(AllNodesContextSet, w[2], worker[w].ref),
           \A x \in Workers : worker'[x].pc \in Holding => worker'[x] = worker[x],
           del' = del
    PROVE  HostInv'
<1>1. /\ worker[w].ref \in Refs /\ Uses(w[2], worker[w].ref) /\ w[2] \in Hosts
      /\ heap \in [Refs -> Tables(Steps, NodeContexts)]
    BY DEF HostInv, NodeTypes, WorkerTypes, TableTypes, Uses, WorksIn, Workers
<1>2. ASSUME NEW r \in Refs PROVE NoNewUser(r) /\ OnlyUsersWrite(r)
    <2>1. NoNewUser(r)
        BY <1>1 DEF NoNewUser, Uses, TableRef, DeletesIn, WorksIn, Put
    <2>2. CASE r # worker[w].ref
        BY <1>1, <2>1, <2>2 DEF OnlyUsersWrite
    <2>3. CASE r = worker[w].ref
        <3>1. heap'[r] = Put(heap[r], s, v)
            BY <1>1, <2>3
        <3>2. /\ \A t \in DOMAIN heap'[r] : t = s \/ t \in DOMAIN heap[r]
              /\ \A t \in DOMAIN heap'[r] : heap'[r][t] = IF t = s THEN v ELSE heap[r][t]
            BY <3>1 DEF Put
        <3>3. OnlyUsersWrite(r)
            BY <1>1, <2>3, <3>2 DEF OnlyUsersWrite
        <3> QED BY <2>1, <3>3
    <2> QED BY <2>2, <2>3
<1> QED BY <1>2, HostStep

LEMMA WorkKeepsHosts ==
    ASSUME HostInv, NEW w \in Workers, Work(w)
    PROVE  HostInv'
<1>0. NodeTypes /\ NodeTypes' /\ heap \in [Refs -> Tables(Steps, NodeContexts)] /\ w[2] \in Hosts
    BY WorkTypes DEF HostInv, NodeTypes, TableTypes, Workers
<1>1. CASE PostRead(w)
    <2>1. PICK r0 \in Refs : r0 = FreshRef /\ r0 \notin Reachable
        BY <1>0, <1>1, PostReadMoves, FreshExists
    <2>2. \A h \in Hosts : ~Uses(h, r0)
        BY <2>1 DEF Reachable, Uses, TableRef, DeletesIn, WorksIn
    <2>3. /\ \A x \in Workers : x # w => worker'[x] = worker[x]
          /\ del' = del /\ AllNodesContextSet' = AllNodesContextSet
        BY <1>0, <1>1, PostReadMoves
    <2>4. CASE /\ w[2] \in DOMAIN AllNodesContextSet
               /\ worker'[w].ref = AllNodesContextSet[w[2]] /\ heap' = heap
        <3>1. ASSUME NEW r \in Refs PROVE NoNewUser(r) /\ OnlyUsersWrite(r)
            BY <2>3, <2>4 DEF NoNewUser, OnlyUsersWrite, Uses, TableRef, DeletesIn, WorksIn
        <3> QED BY <1>0, <3>1, HostStep
    <2>5. CASE worker'[w].ref = r0 /\ heap' = [heap EXCEPT ![r0] = Empty]
        <3>1. ASSUME NEW r \in Refs, r # r0 PROVE NoNewUser(r) /\ OnlyUsersWrite(r)
            BY <1>0, <2>3, <2>5, <3>1
               DEF NoNewUser, OnlyUsersWrite, Uses, TableRef, DeletesIn, WorksIn
        <3>2. \A h \in Hosts : Uses(h, r0)' => h = w[2]
            BY <2>2, <2>3 DEF Uses, TableRef, DeletesIn, WorksIn
        <3>3. JustMade(r0)
            BY <1>0, <2>1, <2>5, <3>2 DEF JustMade
        <3> QED BY <1>0, <3>1, <3>3, HostStep
    <2> QED BY <1>0, <1>1, <2>1, <2>4, <2>5, PostReadMoves
<1>2. CASE PostWrite(w)
    <2>1. worker[w].pc \in Holding /\ PostBody(w).by = {w} /\ worker'[w].pc \notin Holding
        BY <1>0, <1>2, PostWriteMoves DEF Holding, PostBody
    <2>2. /\ heap' = [heap EXCEPT ![worker[w].ref] = Put(@, StepOf(w[1]), PostBody(w))]
          /\ AllNodesContextSet' = Put(AllNodesContextSet, w[2], worker[w].ref) /\ del' = del
          /\ \A x \in Workers : worker'[x].pc \in Holding => worker'[x] = worker[x]
        BY <1>0, <1>2, <2>1, PostWriteMoves
    <2> HIDE DEF PostBody
    <2> QED BY <1>0, <2>1, <2>2, WorkerStores
<1>3. CASE PostAgain(w)
    <2>1. worker'[w].pc \notin Holding
        BY <1>0, <1>3, PostAgainMoves DEF Holding
    <2> QED BY <1>0, <1>3, <2>1, PostAgainMoves, HostKept
<1>4. CASE PutRead(w)
    <2>1. ASSUME NEW r \in Refs PROVE NoNewUser(r) /\ OnlyUsersWrite(r)
        BY <1>0, <1>4, PutReadMoves
           DEF NoNewUser, OnlyUsersWrite, Uses, TableRef, DeletesIn, WorksIn, Holding
    <2> QED BY <1>0, <2>1, HostStep
<1>5. CASE \E st \in States \cup {NoState} : PutWrite(w, st)
    <2>1. PICK st \in States \cup {NoState} : PutWrite(w, st)
        BY <1>5
    <2>2. /\ worker[w].pc \in Holding /\ worker'[w].pc \notin Holding
          /\ Merged(w, st).by = StepState(w).by \cup {w}
        BY <1>0, <2>1, PutWriteMoves DEF Holding, Merged
    <2>3. StepState(w).by = IF CurrentStep \in DOMAIN heap[worker[w].ref]
                            THEN heap[worker[w].ref][CurrentStep].by ELSE {}
        BY DEF StepState
    <2> QED BY <1>0, <2>1, <2>2, <2>3, PutWriteMoves, WorkerStores
<1> QED BY <1>1, <1>2, <1>3, <1>4, <1>5 DEF Work

LEMMA HostInvStep == HostInv /\ [Next]_vars => HostInv'
<1> SUFFICES ASSUME HostInv, [Next]_vars PROVE HostInv'
    OBVIOUS
<1>1. CASE UNCHANGED vars
    <2>1. NodeTypes'
        BY NodeTypesStep DEF HostInv
    <2> QED BY <1>1, <2>1, HostKept DEF vars, table
<1> QED BY <1>1, HandlerKeepsHosts, WorkKeepsHosts DEF Next, AllFinished

(* Whatever tasks overlap, an entry shown for a host has been written by   *)
(* workers of that host only: no DELETE, POST or PUT ever stores the map   *)
(* of one host under another, although each stores one it read before.     *)
THEOREM HostsShareNoMap == Spec => []OutputStaysOnHost
<1>1. HostInv => OutputStaysOnHost
    <2> SUFFICES ASSUME HostInv, NEW h \in DOMAIN AllNodesContextSet
                 PROVE  \A s \in DOMAIN heap[AllNodesContextSet[h]] :
                            \A w \in heap[AllNodesContextSet[h]][s].by : w[2] = h
        BY DEF OutputStaysOnHost
    <2>1. AllNodesContextSet \in Tables(Hosts, Refs)
        BY DEF HostInv, NodeTypes, TableTypes
    <2>2. AllNodesContextSet[h] \in Refs /\ h \in Hosts
        BY <2>1, TableElim
    <2>3. Uses(h, AllNodesContextSet[h])
        BY DEF Uses, TableRef
    <2> QED BY <2>2, <2>3 DEF HostInv, OwnOutput
<1> QED BY HostInvInit, HostInvStep, <1>1, PTL DEF Spec

-----------------------------------------------------------------------------
(* When clients wait for a task before they start the next one (~Overlap). *)
Entry(h, s) == heap[AllNodesContextSet[h]][s]

(* One task runs at a time, so its DELETEs and its workers never meet.     *)
OneTask == \A i, j \in Jobs : Running(i) /\ Running(j) => i = j

(* A DELETE still holds the map of the table, its entry is no longer       *)
(* promised to anybody, and is gone once it has been taken out.            *)
DeleteOwn ==
    \A j \in Jobs, h \in Hosts : del[j].pc # "none" /\ del[j].host = h =>
        /\ TableRef(h, del[j].ref)
        /\ \A s \in Steps :
             /\ s = StepOf(j) => <<h, s>> \notin recorded
             /\ s = StepOf(j) /\ del[j].pc # "delete" => ~Shown(h, s)
             /\ del[j].pc = "drop" => ~Shown(h, s)

(* A worker holds the map of the table, or a POST an empty new one for a   *)
(* host without entries.                                                   *)
WorkerOwn ==
    \A w \in Workers : worker[w].pc \in Holding =>
        \/ TableRef(w[2], worker[w].ref)
        \/ /\ worker[w].pc = "posting" /\ heap[worker[w].ref] = Empty
           /\ \A s \in Steps : ~Shown(w[2], s)

(* A cleaned host shows the step of the task no more, and once the task    *)
(* works shows output of its own workers only.                             *)
CleanedFirst ==
    \A j \in Jobs, h \in Hosts, s \in Steps :
        h \in job[j].req.clean /\ s = StepOf(j) =>
            /\ job[j].pc = "clean" /\ h \notin job[j].todo => ~Shown(h, s)
            /\ job[j].pc = "work" /\ Shown(h, s) => Entry(h, s).by \subseteq {j} \X Hosts

(* After its POST a worker's step is the current one, and its entry is     *)
(* shown with its output.                                                  *)
OpenedOwn ==
    \A w \in Workers, s \in Steps :
        Opens(w) /\ worker[w].pc \in {"put", "putting"} /\ s = StepOf(w[1]) =>
            CurrentStep = s /\ Shown(w[2], s) /\ w \in Entry(w[2], s).by

(* Who is shown as a writer has been started.                              *)
WritersStarted ==
    \A h \in Hosts, s \in Steps : Shown(h, s) =>
        \A w \in Entry(h, s).by : job[w[1]].pc \in {"work", "finished"}

SerialInv ==
    /\ HostInv /\ OneTask /\ DeleteOwn /\ WorkerOwn /\ CleanedFirst /\ OpenedOwn
    /\ WritersStarted /\ CleaningKeepsOtherSteps /\ UpdatesReachOwnStep /\ LastStateIsShown

LEMMA WhileCleaning ==
    ASSUME NodeTypes, OneTask, NEW j \in Jobs, job[j].pc = "clean"
    PROVE  /\ \A w \in Workers : worker[w].pc \in {"off", "done"}
           /\ \A i \in Jobs : i # j => del[i].pc = "none" /\ ~Running(i)
<1>1. \A i \in Jobs : i # j => ~Running(i)
    BY DEF OneTask, Running
<1>2. \A w \in Workers : worker[w].pc \in {"off", "done"}
    <2> SUFFICES ASSUME NEW w \in Workers, worker[w].pc \notin {"off", "done"} PROVE FALSE
        OBVIOUS
    <2>1. w[1] \in Jobs /\ job[w[1]].pc = "work"
        BY DEF NodeTypes, WorkerTypes, Workers
    <2> QED BY <1>1, <2>1 DEF Running
<1>3. \A i \in Jobs : i # j => del[i].pc = "none"
    BY <1>1 DEF NodeTypes, DelTypes, Running
<1> QED BY <1>1, <1>2, <1>3

LEMMA WhileWorking ==
    ASSUME NodeTypes, OneTask, NEW w \in Workers, worker[w].pc \notin {"off", "done"}
    PROVE  /\ w[1] \in Jobs /\ w[2] \in Hosts /\ job[w[1]].pc = "work"
           /\ \A i \in Jobs : del[i].pc = "none" /\ (i # w[1] => ~Running(i))
           /\ \A x \in Workers : worker[x].pc \notin {"off", "done"} => x[1] = w[1]
<1>1. w[1] \in Jobs /\ w[2] \in Hosts /\ job[w[1]].pc = "work"
    BY DEF NodeTypes, WorkerTypes, Workers
<1>2. \A i \in Jobs : i # w[1] => ~Running(i)
    BY <1>1 DEF OneTask, Running
<1>3. \A i \in Jobs : del[i].pc = "none"
    BY <1>1, <1>2 DEF NodeTypes, DelTypes, Running
<1>4. \A x \in Workers : worker[x].pc \notin {"off", "done"} => x[1] = w[1]
    BY <1>2 DEF NodeTypes, WorkerTypes, Workers, Running
<1> QED BY <1>1, <1>2, <1>3, <1>4

(* What is shown changes in three ways.                                    *)
SameViews ==
    \A h \in Hosts, s \in Steps : /\ Shown(h, s)' <=> Shown(h, s)
                                  /\ Shown(h, s) => Entry(h, s)' = Entry(h, s)
Cleaned(k, t) ==
    \A h \in Hosts, s \in Steps : /\ Shown(h, s)' <=> Shown(h, s) /\ ~(h = k /\ s = t)
                                  /\ Shown(h, s)' => Entry(h, s)' = Entry(h, s)
Wrote(k, t, c) ==
    \A h \in Hosts, s \in Steps :
        /\ Shown(h, s)' <=> Shown(h, s) \/ (h = k /\ s = t)
        /\ Shown(h, s)' => Entry(h, s)' = IF h = k /\ s = t THEN c ELSE Entry(h, s)

LEMMA SameTableViews ==
    ASSUME UNCHANGED <<AllNodesContextSet, heap>> PROVE SameViews
BY DEF SameViews, Shown, Entry

(* The map a host's handler holds is the table's map of no other host.     *)
LEMMA NoOtherHost ==
    ASSUME HostInv, NEW h \in Hosts, NEW r \in Refs, Uses(h, r),
           NEW k \in DOMAIN AllNodesContextSet, AllNodesContextSet[k] = r
    PROVE  k = h
<1>1. AllNodesContextSet \in Tables(Hosts, Refs)
    BY DEF HostInv, NodeTypes, TableTypes
<1>2. k \in Hosts
    BY <1>1, TableElim
<1> QED BY <1>2 DEF HostInv, OneHostEach, Uses, TableRef

LEMMA WriteViews ==
    ASSUME HostInv, WorkerOwn, NEW w \in Workers, worker[w].pc \in Holding,
           NEW s \in Steps, NEW c \in NodeContexts,
           heap' = [heap EXCEPT ![worker[w].ref] = Put(@, s, c)],
           AllNodesContextSet' = Put(AllNodesContextSet, w[2], worker[w].ref)
    PROVE  Wrote(w[2], s, c)
<1> DEFINE r == worker[w].ref
<1>1. /\ r \in Refs /\ w[2] \in Hosts /\ Uses(w[2], r)
      /\ AllNodesContextSet \in Tables(Hosts, Refs)
      /\ heap \in [Refs -> Tables(Steps, NodeContexts)]
    BY DEF HostInv, NodeTypes, WorkerTypes, TableTypes, Workers, Uses, WorksIn
<1>2. /\ \A x \in Refs : heap'[x] = IF x = r THEN Put(heap[r], s, c) ELSE heap[x]
      /\ heap[r] \in Tables(Steps, NodeContexts)
    BY <1>1
<1>3. /\ DOMAIN AllNodesContextSet' = DOMAIN AllNodesContextSet \cup {w[2]}
      /\ AllNodesContextSet'[w[2]] = r
      /\ \A h \in DOMAIN AllNodesContextSet : h # w[2] =>
            AllNodesContextSet'[h] = AllNodesContextSet[h]
    BY <1>1, PutTable
<1>4. /\ DOMAIN heap'[r] = DOMAIN heap[r] \cup {s} /\ heap'[r][s] = c
      /\ \A t \in DOMAIN heap[r] : t # s => heap'[r][t] = heap[r][t]
    <2>1. heap'[r] = Put(heap[r], s, c)
        BY <1>1, <1>2
    <2> QED BY <2>1 DEF Put
<1>5. ASSUME NEW h \in Hosts, NEW t \in Steps, h # w[2]
      PROVE  /\ Shown(h, t)' <=> Shown(h, t)
             /\ Shown(h, t) => Entry(h, t)' = Entry(h, t)
    <2>1. CASE h \notin DOMAIN AllNodesContextSet
        BY <1>3, <1>5, <2>1 DEF Shown
    <2>2. CASE h \in DOMAIN AllNodesContextSet
        <3>1. AllNodesContextSet[h] # r /\ AllNodesContextSet[h] \in Refs
            BY <1>1, <1>5, <2>2, NoOtherHost, TableElim
        <3>2. /\ AllNodesContextSet'[h] = AllNodesContextSet[h]
              /\ heap'[AllNodesContextSet[h]] = heap[AllNodesContextSet[h]]
            BY <1>2, <1>3, <1>5, <2>2, <3>1
        <3> QED BY <1>3, <2>2, <3>2 DEF Shown, Entry
    <2> QED BY <2>1, <2>2
<1>6. ASSUME NEW t \in Steps
      PROVE  /\ Shown(w[2], t)' <=> Shown(w[2], t) \/ t = s
             /\ Shown(w[2], t)' => Entry(w[2], t)' = IF t = s THEN c ELSE Entry(w[2], t)
    <2>1. /\ Shown(w[2], t)' <=> t \in DOMAIN heap[r] \cup {s}
          /\ Entry(w[2], t)' = heap'[r][t]
        BY <1>3, <1>4 DEF Shown, Entry
    <2>2. CASE TableRef(w[2], r)
        BY <1>4, <2>1, <2>2 DEF Shown, Entry, TableRef
    <2>3. CASE heap[r] = Empty /\ ~Shown(w[2], t)
        BY <1>4, <2>1, <2>3, EmptyTable
    <2> QED BY <2>2, <2>3 DEF WorkerOwn
<1>7. ASSUME NEW h \in Hosts, NEW t \in Steps
      PROVE  /\ Shown(h, t)' <=> Shown(h, t) \/ (h = w[2] /\ t = s)
             /\ Shown(h, t)' => Entry(h, t)' = IF h = w[2] /\ t = s THEN c ELSE Entry(h, t)
    <2>1. CASE h # w[2]
        BY <1>5, <2>1
    <2>2. CASE h = w[2]
        BY <1>6, <2>2
    <2> QED BY <2>1, <2>2
<1> QED BY <1>7 DEF Wrote

(* The writers of what is shown for a host are its workers.                *)
LEMMA WritersOfHost ==
    ASSUME HostInv, NEW h \in Hosts, NEW s \in Steps, Shown(h, s)
    PROVE  /\ Entry(h, s) \in NodeContexts
           /\ \A w \in Entry(h, s).by : w \in Workers /\ w[1] \in Jobs /\ w[2] = h
<1>1. /\ AllNodesContextSet \in Tables(Hosts, Refs)
      /\ heap \in [Refs -> Tables(Steps, NodeContexts)]
    BY DEF HostInv, NodeTypes, TableTypes
<1>2. AllNodesContextSet[h] \in Refs /\ Uses(h, AllNodesContextSet[h])
    BY <1>1, TableElim DEF Shown, Uses, TableRef
<1>3. heap[AllNodesContextSet[h]] \in Tables(Steps, NodeContexts)
    BY <1>1, <1>2
<1>4. Entry(h, s) \in NodeContexts
    BY <1>3, TableElim DEF Shown, Entry
<1>5. \A w \in Entry(h, s).by : w \in Workers /\ w[1] \in Jobs
    BY <1>4 DEF NodeContexts, Workers
<1>6. \A w \in Entry(h, s).by : w[2] = h
    BY <1>2 DEF HostInv, OwnOutput, Shown, Entry
<1> QED BY <1>4, <1>5, <1>6

(* A step that shows nothing new and leaves the tasks that have worked,    *)
(* with what their workers said, as they were.                             *)
LEMMA OldOutput ==
    ASSUME SerialInv,
           \A h \in Hosts, s \in Steps : Shown(h, s)' => Shown(h, s) /\ Entry(h, s)' = Entry(h, s),
           \A w \in Workers : job[w[1]].pc \in {"work", "finished"} =>
               /\ job'[w[1]].pc \in {"work", "finished"} /\ job'[w[1]].req = job[w[1]].req
               /\ worker'[w].said = worker[w].said
    PROVE  WritersStarted' /\ UpdatesReachOwnStep' /\ LastStateIsShown'
<1>1. ASSUME NEW h \in Hosts, NEW s \in Steps, Shown(h, s)'
      PROVE  /\ Shown(h, s) /\ Entry(h, s)' = Entry(h, s)
             /\ \A w \in Entry(h, s).by :
                  /\ w \in Workers /\ w[1] \in Jobs
                  /\ job[w[1]].pc \in {"work", "finished"}
                  /\ job'[w[1]].pc \in {"work", "finished"} /\ job'[w[1]].req = job[w[1]].req
                  /\ worker'[w].said = worker[w].said
                  /\ Opens(w)' <=> Opens(w)
    <2>1. Shown(h, s) /\ Entry(h, s)' = Entry(h, s)
        BY <1>1
    <2>2. \A w \in Entry(h, s).by : /\ w \in Workers /\ w[1] \in Jobs
                                    /\ job[w[1]].pc \in {"work", "finished"}
        BY <2>1, WritersOfHost DEF SerialInv, WritersStarted
    <2> QED BY <2>1, <2>2 DEF Opens
<1>2. WritersStarted'
    BY <1>1 DEF WritersStarted
<1>3. UpdatesReachOwnStep'
    BY <1>1 DEF SerialInv, UpdatesReachOwnStep, Entry
<1>4. LastStateIsShown'
    BY <1>1 DEF SerialInv, LastStateIsShown, Entry
<1> QED BY <1>2, <1>3, <1>4

LEMMA StartSerial ==
    ASSUME ~Overlap, SerialInv, NEW j \in Jobs, NEW q \in Requests, Start(j, q)
    PROVE  SerialInv'
<1>0. HostInv' /\ NodeTypes
    BY HandlerKeepsHosts DEF SerialInv, HostInv
<1>1. /\ job[j].pc = "idle" /\ \A i \in Jobs : ~Running(i)
      /\ job' = [job EXCEPT ![j] = [pc |-> "clean", req |-> q, todo |-> q.clean]]
      /\ UNCHANGED <<table, del, worker, recorded>> /\ job \in [Jobs -> JobRecords]
    BY <1>0 DEF Start, NodeTypes, JobTypes
<1>2. /\ job'[j].pc = "clean" /\ job'[j].req = q /\ job'[j].todo = q.clean
      /\ \A i \in Jobs : i # j => job'[i] = job[i]
    BY <1>1
<1>3. /\ \A i \in Jobs : del[i].pc = "none"
      /\ \A w \in Workers : worker[w].pc \in {"off", "done"}
    BY <1>0, <1>1 DEF NodeTypes, DelTypes, WorkerTypes, Workers, Running
<1>4. SameViews
    BY <1>1, SameTableViews DEF table
<1>5. OneTask'
    BY <1>1, <1>2 DEF OneTask, Running
<1>6. DeleteOwn' /\ WorkerOwn' /\ OpenedOwn'
    BY <1>1, <1>3 DEF DeleteOwn, WorkerOwn, OpenedOwn, Holding
<1>7. CleanedFirst'
    BY <1>1, <1>2, <1>4 DEF CleanedFirst, SameViews, StepOf, Running
<1>8. WritersStarted' /\ UpdatesReachOwnStep' /\ LastStateIsShown'
    <2>1. \A w \in Workers : job[w[1]].pc \in {"work", "finished"} =>
              /\ job'[w[1]].pc \in {"work", "finished"} /\ job'[w[1]].req = job[w[1]].req
              /\ worker'[w].said = worker[w].said
        BY <1>1, <1>2 DEF Workers
    <2> QED BY <1>4, <2>1, OldOutput DEF SameViews
<1>9. CleaningKeepsOtherSteps'
    BY <1>0, <1>1, <1>4 DEF SerialInv, CleaningKeepsOtherSteps, SameViews, NodeTypes, TableTypes
<1> QED BY <1>0, <1>5, <1>6, <1>7, <1>8, <1>9 DEF SerialInv

LEMMA DeleteReadSerial ==
    ASSUME SerialInv, NEW j \in Jobs, NEW k \in Hosts, DeleteRead(j, k)
    PROVE  SerialInv'
<1>0. HostInv' /\ NodeTypes
    BY HandlerKeepsHosts DEF SerialInv, HostInv, Handler
<1>1. /\ job[j].pc = "clean" /\ k \in job[j].todo /\ del[j] = NoDelete
      /\ recorded' = recorded \ {<<k, StepOf(j)>>} /\ UNCHANGED <<table, worker>>
      /\ job \in [Jobs -> JobRecords] /\ del \in [Jobs -> DelRecords] /\ StepOf(j) \in Steps
    BY <1>0, RequestType DEF DeleteRead, StepOf, NodeTypes, JobTypes, DelTypes
<1>2. /\ \A w \in Workers : worker[w].pc \in {"off", "done"}
      /\ \A i \in Jobs : i # j => del[i].pc = "none" /\ ~Running(i)
    BY <1>0, <1>1, WhileCleaning DEF SerialInv
<1>3. SameViews
    BY <1>1, SameTableViews DEF table
<1>4. \/ job' = [job EXCEPT ![j].todo = @ \ {k}] /\ del' = del /\ k \notin DOMAIN AllNodesContextSet
      \/ /\ k \in DOMAIN AllNodesContextSet /\ job' = job
         /\ del' = [del EXCEPT ![j] =
                      [pc |-> "delete", host |-> k, ref |-> AllNodesContextSet[k]]]
    BY DEF DeleteRead
<1>5. \A i \in Jobs : /\ job'[i].pc = job[i].pc /\ job'[i].req = job[i].req
                      /\ i # j => job'[i] = job[i] /\ del'[i] = del[i]
    BY <1>1, <1>4 DEF JobRecords
<1>6. OneTask'
    BY <1>5 DEF SerialInv, OneTask, Running
<1>7. DeleteOwn'
    <2>1. CASE del' = del
        BY <1>1, <1>2, <2>1 DEF DeleteOwn, NoDelete
    <2>2. CASE /\ k \in DOMAIN AllNodesContextSet
               /\ del' = [del EXCEPT ![j] =
                            [pc |-> "delete", host |-> k, ref |-> AllNodesContextSet[k]]]
        BY <1>1, <1>2, <1>5, <2>2 DEF DeleteOwn, TableRef, StepOf, table
    <2> QED BY <1>4, <2>1, <2>2
<1>8. WorkerOwn' /\ OpenedOwn'
    BY <1>1, <1>2 DEF WorkerOwn, OpenedOwn, Holding
<1>9. CleanedFirst'
    <2>1. ASSUME NEW h \in Hosts, NEW s \in Steps, h \in job[j].req.clean, s = StepOf(j),
                 h \notin job'[j].todo
          PROVE  ~Shown(h, s)
        <3>1. CASE h \notin job[j].todo
            BY <1>1, <2>1, <3>1 DEF SerialInv, CleanedFirst
        <3>2. CASE h \in job[j].todo
            BY <1>1, <1>4, <2>1, <3>2 DEF Shown, JobRecords
        <3> QED BY <3>1, <3>2
    <2> QED BY <1>1, <1>2, <1>3, <1>5, <2>1 DEF CleanedFirst, SameViews, StepOf, Running
<1>10. WritersStarted' /\ UpdatesReachOwnStep' /\ LastStateIsShown'
    <2>1. \A w \in Workers : job[w[1]].pc \in {"work", "finished"} =>
              /\ job'[w[1]].pc \in {"work", "finished"} /\ job'[w[1]].req = job[w[1]].req
              /\ worker'[w].said = worker[w].said
        BY <1>1, <1>5 DEF Workers
    <2> QED BY <1>3, <2>1, OldOutput DEF SameViews
<1>11. CleaningKeepsOtherSteps'
    BY <1>0, <1>1, <1>3 DEF SerialInv, CleaningKeepsOtherSteps, SameViews, NodeTypes, TableTypes
<1> QED BY <1>0, <1>6, <1>7, <1>8, <1>9, <1>10, <1>11 DEF SerialInv

(* A DELETE that takes its entry out, stores its map, finds it without     *)
(* entries or drops its host: all it can do to what is shown is to hide    *)
(* its own entry.                                                          *)
LEMMA DeleteSerial ==
    ASSUME SerialInv, NEW j \in Jobs, HostInv', NEW k \in Hosts, NEW t \in Steps,
           del[j].pc # "none", k = del[j].host, t = StepOf(j),
           SameViews \/ Cleaned(k, t),
           worker' = worker, recorded' = recorded, CurrentStep' = CurrentStep,
           \/ /\ job' = job /\ del'[j].pc # "none"
              /\ del'[j].host = del[j].host /\ del'[j].ref = del[j].ref
              /\ TableRef(k, del[j].ref)'
              /\ \/ del'[j].pc = "delete"
                 \/ ~Shown(k, t)'
              /\ del'[j].pc = "drop" => \A s \in Steps : ~Shown(k, s)'
           \/ /\ job' = [job EXCEPT ![j].todo = @ \ {k}] /\ del'[j] = NoDelete
              /\ ~Shown(k, t)',
           \A i \in Jobs : i # j => del'[i] = del[i]
    PROVE  SerialInv'
<1>0. NodeTypes /\ NodeTypes'
    BY DEF SerialInv, HostInv
<1>1. job[j].pc = "clean" /\ job \in [Jobs -> JobRecords]
    BY <1>0 DEF NodeTypes, DelTypes, JobTypes
<1>2. /\ \A w \in Workers : worker[w].pc \in {"off", "done"}
      /\ \A i \in Jobs : i # j => del[i].pc = "none" /\ ~Running(i)
    BY <1>0, <1>1, WhileCleaning DEF SerialInv
<1>3. \A i \in Jobs : /\ job'[i].pc = job[i].pc /\ job'[i].req = job[i].req
                      /\ i # j => job'[i] = job[i]
    BY <1>1 DEF JobRecords
<1>4. \A h \in Hosts, s \in Steps : /\ Shown(h, s)' => Shown(h, s) /\ Entry(h, s)' = Entry(h, s)
                                    /\ ~(h = k /\ s = t) => (Shown(h, s)' <=> Shown(h, s))
    BY DEF SameViews, Cleaned
<1>5. <<k, t>> \notin recorded
    BY DEF SerialInv, DeleteOwn
<1>6. OneTask'
    BY <1>3 DEF SerialInv, OneTask, Running
<1>7. DeleteOwn'
    <2> SUFFICES ASSUME NEW i \in Jobs, NEW h \in Hosts, del'[i].pc # "none", del'[i].host = h
                 PROVE  /\ TableRef(h, del[i].ref)'
                        /\ \A s \in Steps :
                             /\ s = StepOf(i)' => <<h, s>> \notin recorded'
                             /\ s = StepOf(i)' /\ del'[i].pc # "delete" => ~Shown(h, s)'
                             /\ del'[i].pc = "drop" => ~Shown(h, s)'
        BY DEF DeleteOwn
    <2>1. i = j /\ del'[j] # NoDelete
        BY <1>2 DEF NoDelete
    <2>2. h = k /\ StepOf(i)' = t
        BY <1>3, <2>1 DEF StepOf
    <2>3. /\ TableRef(k, del[j].ref)' /\ (del'[j].pc = "delete" \/ ~Shown(k, t)')
          /\ del'[j].pc = "drop" => \A s \in Steps : ~Shown(k, s)'
        BY <2>1
    <2> QED BY <1>5, <2>1, <2>2, <2>3 DEF TableRef
<1>8. WorkerOwn' /\ OpenedOwn'
    BY <1>2 DEF WorkerOwn, OpenedOwn, Holding
<1>9. CleanedFirst'
    <2>1. ASSUME NEW h \in Hosts, NEW s \in Steps, h \in job[j].req.clean, s = StepOf(j),
                 h \notin job'[j].todo
          PROVE  ~Shown(h, s)'
        <3>1. CASE h \notin job[j].todo
            BY <1>1, <1>4, <2>1, <3>1 DEF SerialInv, CleanedFirst
        <3>2. CASE h \in job[j].todo
            BY <1>1, <2>1, <3>2 DEF JobRecords
        <3> QED BY <3>1, <3>2
    <2> QED BY <1>1, <1>2, <1>3, <2>1 DEF CleanedFirst, StepOf, Running
<1>10. WritersStarted' /\ UpdatesReachOwnStep' /\ LastStateIsShown'
    <2>1. \A w \in Workers : job[w[1]].pc \in {"work", "finished"} =>
              /\ job'[w[1]].pc \in {"work", "finished"} /\ job'[w[1]].req = job[w[1]].req
              /\ worker'[w].said = worker[w].said
        BY <1>3 DEF Workers
    <2> QED BY <1>4, <2>1, OldOutput
<1>11. CleaningKeepsOtherSteps'
    <2>1. ASSUME NEW p \in recorded
          PROVE  /\ p[1] \in Hosts /\ p[2] \in Steps /\ Shown(p[1], p[2])
                 /\ ~(p[1] = k /\ p[2] = t)
        <3>1. recorded \subseteq Hosts \X Steps
            BY <1>0 DEF NodeTypes, TableTypes
        <3>2. p[1] \in Hosts /\ p[2] \in Steps /\ p = <<p[1], p[2]>>
            BY <3>1
        <3>3. Shown(p[1], p[2])
            BY DEF SerialInv, CleaningKeepsOtherSteps
        <3> QED BY <1>5, <3>2, <3>3
    <2> QED BY <1>4, <2>1 DEF CleaningKeepsOtherSteps
<1> QED BY <1>6, <1>7, <1>8, <1>9, <1>10, <1>11 DEF SerialInv

LEMMA DeletesSerial ==
    ASSUME SerialInv, NEW j \in Jobs,
           DeleteKey(j) \/ DeleteStore(j) \/ DeleteCheck(j) \/ DeleteDrop(j)
    PROVE  SerialInv'
<1>0. HostInv' /\ HostInv /\ NodeTypes
    BY HandlerKeepsHosts DEF SerialInv, HostInv, Handler
<1>1. del[j].pc # "none" /\ del \in [Jobs -> DelRecords] /\ job[j].pc = "clean"
    BY <1>0 DEF DeleteKey, DeleteStore, DeleteCheck, DeleteDrop, NodeTypes, DelTypes
<1>2. PICK k \in Hosts, t \in Steps, r \in Refs : k = del[j].host /\ t = StepOf(j) /\ r = del[j].ref
    BY <1>0, <1>1, RequestType DEF NodeTypes, DelTypes, JobTypes, JobRecords, StepOf
<1>3. /\ TableRef(k, r) /\ Uses(k, r)
      /\ AllNodesContextSet \in Tables(Hosts, Refs)
      /\ heap \in [Refs -> Tables(Steps, NodeContexts)]
    BY <1>0, <1>1, <1>2 DEF SerialInv, DeleteOwn, Uses, NodeTypes, TableTypes
<1>4. CASE DeleteKey(j)
    <2>1. /\ del' = [del EXCEPT ![j].pc = "store"] /\ heap' = [heap EXCEPT ![r] = Drop(@, t)]
          /\ UNCHANGED <<AllNodesContextSet, CurrentStep, mutex, job, worker, recorded>>
        BY <1>2, <1>4 DEF DeleteKey, StepOf
    <2>2. /\ del'[j].pc = "store" /\ del'[j].host = del[j].host /\ del'[j].ref = del[j].ref
          /\ \A i \in Jobs : i # j => del'[i] = del[i]
        BY <1>1, <2>1 DEF DelRecords
    <2>3. \A x \in Refs : heap'[x] = IF x = r THEN Drop(heap[r], t) ELSE heap[x]
        BY <1>3, <2>1
    <2>4. ASSUME NEW h \in Hosts, NEW s \in Steps
          PROVE  /\ Shown(h, s)' <=> Shown(h, s) /\ ~(h = k /\ s = t)
                 /\ Shown(h, s)' => Entry(h, s)' = Entry(h, s)
        <3>1. CASE h \notin DOMAIN AllNodesContextSet
            BY <2>1, <3>1 DEF Shown
        <3>2. CASE h \in DOMAIN AllNodesContextSet /\ AllNodesContextSet[h] = r
            <4>1. h = k
                BY <1>0, <1>3, <3>2, NoOtherHost
            <4>2. heap'[r] = Drop(heap[r], t)
                BY <2>3
            <4>3. Shown(h, s)' <=> s \in DOMAIN heap[r] \ {t}
                BY <2>1, <3>2, <4>2 DEF Shown, Drop
            <4>4. s \in DOMAIN heap[r] \ {t} => heap'[r][s] = heap[r][s]
                BY <4>2 DEF Drop
            <4> QED BY <2>1, <3>2, <4>1, <4>3, <4>4 DEF Shown, Entry
        <3>3. CASE h \in DOMAIN AllNodesContextSet /\ AllNodesContextSet[h] # r
            <4>1. AllNodesContextSet[h] \in Refs /\ h # k
                BY <1>3, <3>3, TableElim DEF TableRef
            <4>2. heap'[AllNodesContextSet[h]] = heap[AllNodesContextSet[h]]
                BY <2>3, <3>3, <4>1
            <4> QED BY <2>1, <3>3, <4>1, <4>2 DEF Shown, Entry
        <3> QED BY <3>1, <3>2, <3>3
    <2>5. Cleaned(k, t) /\ ~Shown(k, t)' /\ TableRef(k, del[j].ref)'
        <3>1. Cleaned(k, t)
            BY <2>4 DEF Cleaned
        <3>2. ~Shown(k, t)'
            BY <2>4
        <3> QED BY <1>2, <1>3, <2>1, <2>2, <3>1, <3>2 DEF TableRef
    <2> QED BY <1>0, <1>1, <1>2, <2>1, <2>2, <2>5, DeleteSerial
<1>5. CASE DeleteStore(j)
    <2>1. /\ del[j].pc = "store" /\ del' = [del EXCEPT ![j].pc = "check"]
          /\ AllNodesContextSet' = Put(AllNodesContextSet, k, r)
          /\ UNCHANGED <<heap, CurrentStep, mutex, job, worker, recorded>>
        BY <1>2, <1>5 DEF DeleteStore
    <2>2. /\ del'[j].pc = "check" /\ del'[j].host = del[j].host /\ del'[j].ref = del[j].ref
          /\ \A i \in Jobs : i # j => del'[i] = del[i]
        BY <1>1, <2>1 DEF DelRecords
    <2>3. AllNodesContextSet' = AllNodesContextSet
        <3>1. AllNodesContextSet = [h \in DOMAIN AllNodesContextSet |-> AllNodesContextSet[h]]
            BY <1>3, TableElim
        <3> QED BY <1>3, <2>1, <3>1 DEF Put, TableRef
    <2>4. SameViews
        BY <2>1, <2>3, SameTableViews
    <2>5. ~Shown(k, t)' /\ TableRef(k, del[j].ref)'
        BY <1>1, <1>2, <1>3, <2>1, <2>2, <2>3, <2>4
           DEF SerialInv, DeleteOwn, SameViews, TableRef
    <2> QED BY <1>0, <1>1, <1>2, <2>1, <2>2, <2>4, <2>5, DeleteSerial
<1>6. CASE DeleteCheck(j)
    <2>1. del[j].pc = "check" /\ UNCHANGED <<table, worker, recorded>>
        BY <1>6 DEF DeleteCheck
    <2>2. SameViews /\ ~Shown(k, t)'
        <3>1. SameViews
            BY <2>1, SameTableViews DEF table
        <3> QED BY <1>1, <1>2, <2>1, <3>1 DEF SerialInv, DeleteOwn, SameViews
    <2>3. CASE DOMAIN heap[r] = {} /\ del' = [del EXCEPT ![j].pc = "drop"] /\ job' = job
        <3>1. /\ del'[j].pc = "drop" /\ del'[j].host = del[j].host /\ del'[j].ref = del[j].ref
              /\ \A i \in Jobs : i # j => del'[i] = del[i]
            BY <1>1, <2>3 DEF DelRecords
        <3>2. \A s \in Steps : ~Shown(k, s)'
            BY <1>3, <2>1, <2>3 DEF Shown, TableRef, table
        <3>3. TableRef(k, del[j].ref)'
            BY <1>2, <1>3, <2>1, <3>1 DEF TableRef, table
        <3> QED BY <1>0, <1>1, <1>2, <2>1, <2>2, <2>3, <3>1, <3>2, <3>3, DeleteSerial DEF table
    <2>4. CASE DeleteReturns(j)
        <3>1. /\ del'[j] = NoDelete /\ \A i \in Jobs : i # j => del'[i] = del[i]
              /\ job' = [job EXCEPT ![j].todo = @ \ {k}]
            BY <1>1, <1>2, <2>4 DEF DeleteReturns
        <3> QED BY <1>0, <1>1, <1>2, <2>1, <2>2, <3>1, DeleteSerial DEF table
    <2> QED BY <1>2, <1>6, <2>3, <2>4 DEF DeleteCheck
<1>7. CASE DeleteDrop(j)
    <2>1. /\ del[j].pc = "drop" /\ AllNodesContextSet' = Drop(AllNodesContextSet, k)
          /\ UNCHANGED <<heap, CurrentStep, mutex, worker, recorded>>
          /\ del'[j] = NoDelete /\ \A i \in Jobs : i # j => del'[i] = del[i]
          /\ job' = [job EXCEPT ![j].todo = @ \ {k}]
        BY <1>1, <1>2, <1>7 DEF DeleteDrop, DeleteReturns
    <2>2. \A s \in Steps : ~Shown(k, s)
        BY <1>1, <1>2, <2>1 DEF SerialInv, DeleteOwn
    <2>3. SameViews /\ ~Shown(k, t)'
        <3>1. ASSUME NEW h \in Hosts, NEW s \in Steps
              PROVE  /\ Shown(h, s)' <=> Shown(h, s)
                     /\ Shown(h, s) => Entry(h, s)' = Entry(h, s)
            BY <2>1, <2>2 DEF Shown, Entry, Drop
        <3> QED BY <2>2, <3>1 DEF SameViews
    <2> QED BY <1>0, <1>1, <1>2, <2>1, <2>3, DeleteSerial
<1> QED BY <1>4, <1>5, <1>6, <1>7

LEMMA LaunchSerial ==
    ASSUME SerialInv, NEW j \in Jobs, Launch(j)
    PROVE  SerialInv'
<1>0. HostInv' /\ HostInv /\ NodeTypes /\ NodeTypes'
    BY HandlerKeepsHosts DEF SerialInv, HostInv, Handler
<1>1. /\ job[j].pc = "clean" /\ job[j].todo = {}
      /\ job' = [job EXCEPT ![j].pc = "work"] /\ StartWorkers(j)
      /\ UNCHANGED <<table, del, recorded>>
      /\ job \in [Jobs -> JobRecords]
    BY <1>0 DEF Launch, NodeTypes, JobTypes
<1>2. /\ \A w \in Workers : worker[w].pc \in {"off", "done"}
      /\ \A i \in Jobs : i # j => del[i].pc = "none" /\ ~Running(i)
    BY <1>0, <1>1, WhileCleaning DEF SerialInv
<1>3. \A i \in Jobs : /\ job'[i].req = job[i].req /\ (i # j => job'[i] = job[i])
                      /\ job'[j].pc = "work"
    BY <1>1 DEF JobRecords
<1>4. \A i \in Jobs : del[i].pc = "none"
    BY <1>0, <1>1, <1>2 DEF NodeTypes, DelTypes
<1>5. \A w \in Workers :
        /\ worker'[w].pc \in {"off", "done", "post", "put"}
        /\ worker'[w].pc = "put" => ~Opens(w)
        /\ w[1] # j => worker'[w] = worker[w]
    <2> SUFFICES ASSUME NEW w \in Workers
                 PROVE  /\ worker'[w].pc \in {"off", "done", "post", "put"}
                        /\ worker'[w].pc = "put" => ~Opens(w)
                        /\ w[1] # j => worker'[w] = worker[w]
        OBVIOUS
    <2>1. CASE w \in {j} \X job[j].req.work
        <3>1. worker'[w] = [NoWorker EXCEPT !.pc = IF Opens(w) THEN "post" ELSE "put"]
            BY <1>1, <2>1 DEF StartWorkers
        <3>2. worker'[w].pc = IF Opens(w) THEN "post" ELSE "put"
            BY <3>1 DEF NoWorker
        <3>3. w[1] = j
            BY <2>1
        <3> QED BY <3>2, <3>3
    <2>2. CASE w \notin {j} \X job[j].req.work
        <3>1. worker'[w] = worker[w]
            BY <1>1, <2>2 DEF StartWorkers
        <3> QED BY <1>2, <3>1
    <2> QED BY <2>1, <2>2
<1>6. SameViews
    BY <1>1, SameTableViews DEF table
<1>7. OneTask'
    BY <1>1, <1>2, <1>3 DEF OneTask, Running
<1>8. DeleteOwn'
    BY <1>1, <1>4 DEF DeleteOwn
<1>9. WorkerOwn' /\ OpenedOwn'
    <2>1. WorkerOwn'
        BY <1>5 DEF WorkerOwn, Holding
    <2>2. \A w \in Workers : Opens(w)' <=> Opens(w)
        BY <1>3 DEF Opens, Workers
    <2> QED BY <1>5, <2>1, <2>2 DEF OpenedOwn
<1>10. CleanedFirst'
    BY <1>1, <1>2, <1>3, <1>6 DEF SerialInv, CleanedFirst, SameViews, StepOf, Running
<1>11. WritersStarted' /\ UpdatesReachOwnStep' /\ LastStateIsShown'
    <2>1. \A w \in Workers : job[w[1]].pc \in {"work", "finished"} =>
              /\ job'[w[1]].pc \in {"work", "finished"} /\ job'[w[1]].req = job[w[1]].req
              /\ worker'[w].said = worker[w].said
        BY <1>1, <1>3, <1>5 DEF Workers
    <2> QED BY <1>6, <2>1, OldOutput DEF SameViews
<1>12. CleaningKeepsOtherSteps'
    BY <1>0, <1>1, <1>6 DEF SerialInv, CleaningKeepsOtherSteps, SameViews, NodeTypes, TableTypes
<1> QED BY <1>0, <1>7, <1>8, <1>9, <1>10, <1>11, <1>12 DEF SerialInv

LEMMA FinishSerial ==
    ASSUME SerialInv, NEW j \in Jobs, Finish(j)
    PROVE  SerialInv'
<1>0. HostInv' /\ HostInv /\ NodeTypes
    BY HandlerKeepsHosts DEF SerialInv, HostInv, Handler
<1>1. /\ job[j].pc = "work" /\ UNCHANGED <<table, del, worker, recorded>>
      /\ job' = [job EXCEPT ![j].pc = "finished"] /\ job \in [Jobs -> JobRecords]
    BY <1>0 DEF Finish, NodeTypes, JobTypes
<1>2. \A i \in Jobs : /\ job'[i].req = job[i].req /\ (i # j => job'[i] = job[i])
                      /\ job'[j].pc = "finished" /\ job'[i].todo = job[i].todo
    BY <1>1 DEF JobRecords
<1>3. \A w \in Workers : (Opens(w)' <=> Opens(w)) /\ StepOf(w[1])' = StepOf(w[1])
    BY <1>2 DEF Opens, StepOf, Workers
<1>4. SameViews
    BY <1>1, SameTableViews DEF table
<1>5. OneTask'
    BY <1>2 DEF SerialInv, OneTask, Running
<1>6. DeleteOwn'
    BY <1>1, <1>2, <1>4 DEF SerialInv, DeleteOwn, SameViews, StepOf, TableRef, table
<1>7. WorkerOwn'
    BY <1>1, <1>4 DEF SerialInv, WorkerOwn, SameViews, TableRef, table, Workers
<1>8. OpenedOwn'
    BY <1>1, <1>3, <1>4 DEF SerialInv, OpenedOwn, SameViews, table, Workers
<1>9. CleanedFirst'
    BY <1>2, <1>4 DEF SerialInv, CleanedFirst, SameViews, StepOf
<1>10. WritersStarted' /\ UpdatesReachOwnStep' /\ LastStateIsShown'
    <2>1. \A w \in Workers : job[w[1]].pc \in {"work", "finished"} =>
              /\ job'[w[1]].pc \in {"work", "finished"} /\ job'[w[1]].req = job[w[1]].req
              /\ worker'[w].said = worker[w].said
        BY <1>1, <1>2 DEF Workers
    <2> QED BY <1>4, <2>1, OldOutput DEF SameViews
<1>11. CleaningKeepsOtherSteps'
    BY <1>0, <1>1, <1>4 DEF SerialInv, CleaningKeepsOtherSteps, SameViews, NodeTypes, TableTypes
<1> QED BY <1>0, <1>5, <1>6, <1>7, <1>8, <1>9, <1>10, <1>11 DEF SerialInv

(* A worker that only reads: what is shown and said stays.                 *)
LEMMA ReadingSerial ==
    ASSUME SerialInv, HostInv', NEW w \in Workers, worker[w].pc \notin {"off", "done"},
           SameViews, UNCHANGED <<job, del, recorded, CurrentStep>>,
           \A x \in Workers : x # w => worker'[x] = worker[x],
           worker'[w].said = worker[w].said,
           worker'[w].pc \in {"put", "putting"} => worker[w].pc = "put",
           worker'[w].pc \in Holding =>
               \/ TableRef(w[2], worker[w].ref)'
               \/ /\ worker'[w].pc = "posting" /\ heap'[worker'[w].ref] = Empty
                  /\ \A s \in Steps : ~Shown(w[2], s),
           worker'[w].pc \in Holding => \A x \in Workers : worker[x].pc \notin Holding,
           worker'[w].pc \notin Holding => UNCHANGED <<AllNodesContextSet, heap>>
    PROVE  SerialInv'
<1>0. NodeTypes
    BY DEF SerialInv, HostInv
<1>1. \A i \in Jobs : del[i].pc = "none"
    BY <1>0, WhileWorking DEF SerialInv
<1>2. OneTask'
    BY DEF SerialInv, OneTask, Running
<1>3. DeleteOwn'
    BY <1>1 DEF DeleteOwn
<1>4. WorkerOwn'
    <2> SUFFICES ASSUME NEW x \in Workers, worker'[x].pc \in Holding
                 PROVE  \/ TableRef(x[2], worker[x].ref)'
                        \/ /\ worker'[x].pc = "posting" /\ heap'[worker'[x].ref] = Empty
                           /\ \A s \in Steps : ~Shown(x[2], s)'
        BY DEF WorkerOwn
    <2>1. x[2] \in Hosts
        BY DEF Workers
    <2>2. CASE x = w
        BY <2>1, <2>2 DEF SameViews, TableRef
    <2>3. CASE x # w
        <3>1. /\ worker'[x] = worker[x] /\ worker[x].pc \in Holding
              /\ UNCHANGED <<AllNodesContextSet, heap>>
            BY <2>3
        <3> QED BY <2>1, <3>1 DEF SerialInv, WorkerOwn, SameViews, TableRef
    <2> QED BY <2>2, <2>3
<1>5. OpenedOwn'
    <2>1. \A x \in Workers : worker'[x].pc \in {"put", "putting"} => worker[x].pc \in {"put", "putting"}
        OBVIOUS
    <2>2. \A x \in Workers : /\ Opens(x)' <=> Opens(x)
                             /\ StepOf(x[1])' = StepOf(x[1]) /\ x[2] \in Hosts
        BY DEF Opens, StepOf, Workers
    <2> QED BY <2>1, <2>2 DEF SerialInv, OpenedOwn, SameViews
<1>6. CleanedFirst'
    BY DEF SerialInv, CleanedFirst, SameViews, StepOf
<1>7. WritersStarted' /\ UpdatesReachOwnStep' /\ LastStateIsShown'
    BY OldOutput DEF SameViews
<1>8. CleaningKeepsOtherSteps'
    BY <1>0 DEF SerialInv, CleaningKeepsOtherSteps, SameViews, NodeTypes, TableTypes
<1> QED BY <1>2, <1>3, <1>4, <1>5, <1>6, <1>7, <1>8 DEF SerialInv

(* A worker that writes an entry: under the step of its task when it has   *)
(* opened one, and alone only if the entry shows what it has just said.    *)
LEMMA WritingSerial ==
    ASSUME SerialInv, HostInv', NEW w \in Workers, NEW t \in Steps, NEW c \in NodeContexts,
           worker[w].pc \in Holding, worker'[w].pc \in {"put", "done"},
           UNCHANGED <<job, del>>, Wrote(w[2], t, c),
           \A x \in Workers : x # w => worker'[x] = worker[x],
           CurrentStep' = t, CurrentStep' = CurrentStep \/ Opens(w),
           Opens(w) => t = StepOf(w[1]),
           recorded' = recorded \/ recorded' = recorded \cup {<<w[2], t>>},
           w \in c.by,
           c.by \subseteq {w} \cup IF Shown(w[2], t) THEN Entry(w[2], t).by ELSE {},
           c.by = {w} /\ Opens(w) => c.state = worker'[w].said
    PROVE  SerialInv'
<1>0. HostInv /\ NodeTypes
    BY DEF SerialInv, HostInv
<1>1. /\ w[1] \in Jobs /\ w[2] \in Hosts /\ job[w[1]].pc = "work"
      /\ \A i \in Jobs : del[i].pc = "none" /\ (i # w[1] => ~Running(i))
      /\ \A x \in Workers : worker[x].pc \notin {"off", "done"} => x[1] = w[1]
    BY <1>0, WhileWorking DEF SerialInv, Holding
<1>2. \A x \in Workers : x # w => worker[x].pc \notin Holding
    BY <1>0 DEF NodeTypes, WorkerTypes
<1>3. ASSUME NEW h \in Hosts, NEW s \in Steps
      PROVE  /\ Shown(h, s) => Shown(h, s)'
             /\ h = w[2] /\ s = t => Shown(h, s)' /\ Entry(h, s)' = c
             /\ ~(h = w[2] /\ s = t) /\ Shown(h, s)' => Shown(h, s) /\ Entry(h, s)' = Entry(h, s)
    BY DEF Wrote
<1>4. ASSUME NEW h \in Hosts, NEW s \in Steps, Shown(h, s)', NEW x \in Entry(h, s)'.by
      PROVE  \/ x = w /\ h = w[2] /\ s = t
             \/ Shown(h, s) /\ x \in Entry(h, s).by
    BY <1>3, <1>4
<1>5. OneTask' /\ DeleteOwn'
    BY <1>1 DEF SerialInv, OneTask, Running, DeleteOwn
<1>6. WorkerOwn'
    BY <1>2 DEF WorkerOwn, Holding
<1>7. OpenedOwn'
    <2> SUFFICES ASSUME NEW x \in Workers, NEW s \in Steps, Opens(x),
                        worker'[x].pc \in {"put", "putting"}, s = StepOf(x[1])
                 PROVE  CurrentStep' = s /\ Shown(x[2], s)' /\ x \in Entry(x[2], s)'.by
        BY DEF OpenedOwn, Opens, StepOf
    <2>1. CASE x = w
        BY <1>1, <1>3, <2>1
    <2>2. CASE x # w
        <3>1. /\ worker[x].pc \in {"put", "putting"} /\ x[1] = w[1]
              /\ CurrentStep = s /\ Shown(x[2], s) /\ x \in Entry(x[2], s).by
            BY <1>1, <2>2 DEF SerialInv, OpenedOwn
        <3>2. x[2] # w[2] /\ x[2] \in Hosts
            BY <2>2, <3>1 DEF Workers
        <3>3. Shown(x[2], s)' /\ Entry(x[2], s)' = Entry(x[2], s)
            BY <1>3, <3>1, <3>2
        <3>4. CurrentStep' = s
            BY <3>1
        <3> QED BY <3>1, <3>3, <3>4
    <2> QED BY <2>1, <2>2
<1>8. CleanedFirst'
    <2> SUFFICES ASSUME NEW j \in Jobs, NEW h \in Hosts, NEW s \in Steps,
                        h \in job[j].req.clean, s = StepOf(j)
                 PROVE  /\ job[j].pc = "clean" /\ h \notin job[j].todo => ~Shown(h, s)'
                        /\ job[j].pc = "work" /\ Shown(h, s)' =>
                             Entry(h, s)'.by \subseteq {j} \X Hosts
        BY DEF CleanedFirst, StepOf
    <2>1. CASE j # w[1]
        BY <1>1, <2>1 DEF Running
    <2>2. CASE j = w[1]
        <3>1. Shown(h, s) => Entry(h, s).by \subseteq {j} \X Hosts
            BY <1>1, <2>2 DEF SerialInv, CleanedFirst
        <3>2. w \in {j} \X Hosts
            BY <2>2 DEF Workers
        <3> QED BY <1>1, <1>4, <2>2, <3>1, <3>2
    <2> QED BY <2>1, <2>2
<1>9. WritersStarted'
    <2> SUFFICES ASSUME NEW h \in Hosts, NEW s \in Steps, Shown(h, s)', NEW x \in Entry(h, s)'.by
                 PROVE  job[x[1]].pc \in {"work", "finished"}
        BY DEF WritersStarted
    <2> QED BY <1>1, <1>4 DEF SerialInv, WritersStarted
<1>10. CleaningKeepsOtherSteps'
    <2> SUFFICES ASSUME NEW p \in recorded' PROVE Shown(p[1], p[2])'
        BY DEF CleaningKeepsOtherSteps
    <2>1. CASE p \in recorded
        <3>1. recorded \subseteq Hosts \X Steps
            BY <1>0 DEF NodeTypes, TableTypes
        <3>2. p[1] \in Hosts /\ p[2] \in Steps
            BY <2>1, <3>1
        <3>3. Shown(p[1], p[2])
            BY <2>1 DEF SerialInv, CleaningKeepsOtherSteps
        <3> QED BY <1>3, <3>2, <3>3
    <2>2. CASE p = <<w[2], t>>
        BY <1>1, <1>3, <2>2
    <2> QED BY <2>1, <2>2
<1>11. UpdatesReachOwnStep'
    <2> SUFFICES ASSUME NEW h \in Hosts, NEW s \in Steps, Shown(h, s)',
                        NEW x \in Entry(h, s)'.by, Opens(x)
                 PROVE  StepOf(x[1]) = s
        BY DEF UpdatesReachOwnStep, Entry, Opens, StepOf
    <2>1. CASE x = w /\ h = w[2] /\ s = t
        BY <2>1
    <2>2. CASE Shown(h, s) /\ x \in Entry(h, s).by
        BY <2>2 DEF SerialInv, UpdatesReachOwnStep, Entry, StepOf
    <2> QED BY <1>4, <2>1, <2>2
<1>12. LastStateIsShown'
    <2> SUFFICES ASSUME NEW h \in Hosts, NEW s \in Steps, NEW x \in Workers, Shown(h, s)',
                        Entry(h, s)'.by = {x}, Opens(x)
                 PROVE  Entry(h, s)'.state = worker'[x].said
        BY DEF LastStateIsShown, Entry, Opens
    <2>1. CASE h = w[2] /\ s = t
        <3>1. Entry(h, s)' = c
            BY <1>3, <2>1
        <3>2. x = w
            BY <3>1
        <3> QED BY <3>1, <3>2
    <2>2. CASE ~(h = w[2] /\ s = t)
        <3>1. Shown(h, s) /\ Entry(h, s)' = Entry(h, s)
            BY <1>3, <2>2
        <3>2. x[2] = h /\ StepOf(x[1]) = s
            BY <1>0, <3>1, WritersOfHost DEF SerialInv, UpdatesReachOwnStep, Entry, StepOf
        <3>3. x # w
            BY <2>2, <3>2
        <3>4. Entry(h, s).state = worker[x].said
            BY <3>1 DEF SerialInv, LastStateIsShown, Entry
        <3> QED BY <3>1, <3>3, <3>4
    <2> QED BY <2>1, <2>2
<1> QED BY <1>5, <1>6, <1>7, <1>8, <1>9, <1>10, <1>11, <1>12 DEF SerialInv

LEMMA WorkSerial ==
    ASSUME SerialInv, NEW w \in Workers, Work(w)
    PROVE  SerialInv'
<1>0. HostInv /\ HostInv' /\ NodeTypes /\ w[2] \in Hosts
    BY WorkKeepsHosts DEF SerialInv, HostInv, Workers
<1>1. CASE PostRead(w)
    <2>1. /\ worker[w].pc = "post" /\ mutex = Nobody /\ worker'[w].pc = "posting"
          /\ \A x \in Workers : x # w => worker'[x] = worker[x]
          /\ worker'[w].said = worker[w].said
          /\ UNCHANGED <<AllNodesContextSet, CurrentStep, job, del, recorded>>
        BY <1>0, <1>1, PostReadMoves
    <2>2. \A x \in Workers : worker[x].pc \notin Holding
        BY <1>0, <2>1, NobodyAssumption DEF NodeTypes, WorkerTypes, Workers
    <2>3. CASE /\ w[2] \in DOMAIN AllNodesContextSet
               /\ worker'[w].ref = AllNodesContextSet[w[2]] /\ heap' = heap
        <3>1. SameViews /\ TableRef(w[2], worker[w].ref)'
            BY <2>1, <2>3, SameTableViews DEF TableRef
        <3> QED BY <1>0, <2>1, <2>2, <2>3, <3>1, ReadingSerial DEF TableRef, Holding
    <2>4. CASE /\ worker'[w].ref = FreshRef /\ heap' = [heap EXCEPT ![FreshRef] = Empty]
               /\ ~(/\ w[2] \in DOMAIN AllNodesContextSet
                    /\ DOMAIN heap[AllNodesContextSet[w[2]]] # {})
        <3>1. PICK r0 \in Refs : r0 = FreshRef /\ r0 \notin Reachable
            BY <1>0, <2>1, FreshExists
        <3>2. heap'[r0] = Empty /\ \A r \in Refs : r # r0 => heap'[r] = heap[r]
            BY <1>0, <2>4, <3>1 DEF NodeTypes, TableTypes
        <3>3. \A h \in DOMAIN AllNodesContextSet :
                  AllNodesContextSet[h] \in Refs /\ AllNodesContextSet[h] # r0
            <4>1. AllNodesContextSet \in Tables(Hosts, Refs)
                BY <1>0 DEF NodeTypes, TableTypes
            <4> QED BY <3>1, <4>1, TableElim DEF Reachable
        <3>4. SameViews
            BY <2>1, <3>2, <3>3 DEF SameViews, Shown, Entry
        <3>5. \A s \in Steps : ~Shown(w[2], s)
            BY <2>4 DEF Shown
        <3>6. heap'[worker'[w].ref] = Empty
            BY <2>4, <3>1, <3>2
        <3> QED BY <1>0, <2>1, <2>2, <3>4, <3>5, <3>6, ReadingSerial DEF Holding
    <2> QED BY <1>0, <1>1, <2>3, <2>4, PostReadMoves
<1>2. CASE PostAgain(w)
    <2>1. /\ worker[w].pc = "put" /\ worker'[w].pc = "post" /\ worker'[w].said = worker[w].said
          /\ \A x \in Workers : x # w => worker'[x] = worker[x]
          /\ UNCHANGED <<AllNodesContextSet, heap, CurrentStep, job, del, recorded>>
        BY <1>0, <1>2, PostAgainMoves
    <2>2. SameViews
        BY <2>1, SameTableViews
    <2> QED BY <1>0, <2>1, <2>2, ReadingSerial DEF Holding
<1>3. CASE PutRead(w)
    <2>1. /\ worker[w].pc = "put" /\ mutex = Nobody /\ worker'[w].said = worker[w].said
          /\ \A x \in Workers : x # w => worker'[x] = worker[x]
          /\ \/ worker'[w].pc \in {"put", "done"}
             \/ /\ worker'[w].pc = "putting" /\ w[2] \in DOMAIN AllNodesContextSet
                /\ worker'[w].ref = AllNodesContextSet[w[2]]
          /\ UNCHANGED <<AllNodesContextSet, heap, CurrentStep, job, del, recorded>>
        BY <1>0, <1>3, PutReadMoves
    <2>2. \A x \in Workers : worker[x].pc \notin Holding
        BY <1>0, <2>1, NobodyAssumption DEF NodeTypes, WorkerTypes, Workers
    <2>3. SameViews
        BY <2>1, SameTableViews
    <2>4. worker'[w].pc \in Holding => TableRef(w[2], worker[w].ref)'
        BY <2>1 DEF Holding, TableRef
    <2> QED BY <1>0, <2>1, <2>2, <2>3, <2>4, ReadingSerial
<1>4. CASE PostWrite(w)
    <2>1. PICK t \in Steps, c \in NodeContexts : t = StepOf(w[1]) /\ c = PostBody(w)
        BY <1>0, <1>4, PostWriteMoves
    <2>2. /\ worker[w].pc = "posting" /\ worker'[w].pc = "put" /\ worker'[w].said = "running"
          /\ \A x \in Workers : x # w => worker'[x] = worker[x]
          /\ heap' = [heap EXCEPT ![worker[w].ref] = Put(@, t, c)]
          /\ AllNodesContextSet' = Put(AllNodesContextSet, w[2], worker[w].ref)
          /\ CurrentStep' = t /\ recorded' = recorded \cup {<<w[2], t>>} /\ UNCHANGED <<job, del>>
        BY <1>0, <1>4, <2>1, PostWriteMoves
    <2>3. Wrote(w[2], t, c)
        BY <1>0, <2>2, WriteViews DEF SerialInv, Holding
    <2>4. c.by = {w} /\ c.state = "running" /\ Opens(w)
        BY <1>0, <2>1, <2>2 DEF PostBody, NodeTypes, WorkerTypes
    <2>5. worker[w].pc \in Holding /\ worker'[w].pc \in {"put", "done"}
        BY <2>2 DEF Holding
    <2>6. c.by \subseteq {w} \cup IF Shown(w[2], t) THEN Entry(w[2], t).by ELSE {}
        BY <2>4
    <2> QED BY <1>0, <2>1, <2>2, <2>3, <2>4, <2>5, <2>6, WritingSerial
<1>5. CASE \E st \in States \cup {NoState} : PutWrite(w, st)
    <2>1. PICK st \in States \cup {NoState} : PutWrite(w, st)
        BY <1>5
    <2>2. PICK t \in Steps, c \in NodeContexts : t = CurrentStep /\ c = Merged(w, st)
        BY <1>0, <2>1, PutWriteMoves
    <2>3. /\ worker[w].pc = "putting" /\ worker'[w].pc \in {"put", "done"}
          /\ worker'[w].said = IF st = NoState THEN worker[w].said ELSE st
          /\ \A x \in Workers : x # w => worker'[x] = worker[x]
          /\ heap' = [heap EXCEPT ![worker[w].ref] = Put(@, t, c)]
          /\ AllNodesContextSet' = Put(AllNodesContextSet, w[2], worker[w].ref)
          /\ CurrentStep' = CurrentStep /\ recorded' = recorded /\ UNCHANGED <<job, del>>
        BY <1>0, <2>1, <2>2, PutWriteMoves
    <2>4. worker[w].pc \in Holding /\ TableRef(w[2], worker[w].ref)
        BY <2>3 DEF SerialInv, WorkerOwn, Holding
    <2>5. Wrote(w[2], t, c)
        BY <1>0, <2>3, <2>4, WriteViews DEF SerialInv
    <2>6. /\ c.state = IF st = NoState THEN StepState(w).state ELSE st
          /\ c.by = StepState(w).by \cup {w}
          /\ Shown(w[2], t) => StepState(w) = Entry(w[2], t)
          /\ ~Shown(w[2], t) => StepState(w).by = {}
        BY <2>2, <2>4 DEF Merged, StepState, Shown, Entry, TableRef
    <2>7. StepOf(w[1]) \in Steps
        <3>1. w[1] \in Jobs /\ job[w[1]].pc = "work"
            BY <1>0, <2>3 DEF NodeTypes, WorkerTypes, Workers
        <3> QED BY <1>0, <3>1, RequestType DEF NodeTypes, JobTypes, StepOf
    <2>8. Opens(w) => t = StepOf(w[1]) /\ Shown(w[2], t) /\ w \in Entry(w[2], t).by
        BY <2>2, <2>3, <2>7 DEF SerialInv, OpenedOwn
    <2>9. ASSUME c.by = {w}, Opens(w) PROVE c.state = worker'[w].said
        <3>1. Shown(w[2], t) /\ Entry(w[2], t).by = {w} /\ StepState(w) = Entry(w[2], t)
            BY <2>6, <2>8, <2>9
        <3>2. Entry(w[2], t).state = worker[w].said
            BY <1>0, <2>9, <3>1 DEF SerialInv, LastStateIsShown, Entry
        <3> QED BY <2>3, <2>6, <3>1, <3>2
    <2>10. /\ w \in c.by
           /\ c.by \subseteq {w} \cup IF Shown(w[2], t) THEN Entry(w[2], t).by ELSE {}
        BY <2>6
    <2> QED BY <1>0, <2>2, <2>3, <2>4, <2>5, <2>8, <2>9, <2>10, WritingSerial
<1> QED BY <1>1, <1>2, <1>3, <1>4, <1>5 DEF Work

LEMMA SerialInvInit == Init => SerialInv
<1> SUFFICES ASSUME Init PROVE SerialInv
    OBVIOUS
<1>1. \A h, s : ~Shown(h, s)
    BY EmptyTable DEF Init, Shown
<1>2. /\ \A j \in Jobs : job[j].pc = "idle" /\ del[j].pc = "none"
      /\ \A w \in Workers : worker[w].pc = "off"
      /\ recorded = {}
    BY DEF Init, NoDelete, NoWorker
<1>3. OneTask /\ DeleteOwn /\ WorkerOwn /\ CleanedFirst /\ OpenedOwn
    BY <1>1, <1>2 DEF OneTask, Running, DeleteOwn, WorkerOwn, Holding, CleanedFirst, OpenedOwn
<1>4. /\ WritersStarted /\ CleaningKeepsOtherSteps /\ UpdatesReachOwnStep /\ LastStateIsShown
    BY <1>1, <1>2
       DEF WritersStarted, CleaningKeepsOtherSteps, UpdatesReachOwnStep, LastStateIsShown
<1> QED BY <1>3, <1>4, HostInvInit DEF SerialInv

LEMMA SerialInvStep == ~Overlap /\ SerialInv /\ [Next]_vars => SerialInv'
<1> SUFFICES ASSUME ~Overlap, SerialInv, [Next]_vars PROVE SerialInv'
    OBVIOUS
<1>1. ASSUME NEW j \in Jobs, NEW q \in Requests, Start(j, q) PROVE SerialInv'
    BY <1>1, StartSerial
<1>2. ASSUME NEW j \in Jobs, Handler(j) PROVE SerialInv'
    BY <1>2, DeleteReadSerial, DeletesSerial, LaunchSerial, FinishSerial DEF Handler
<1>3. ASSUME NEW w \in Workers, Work(w) PROVE SerialInv'
    BY <1>3, WorkSerial
<1>4. CASE UNCHANGED vars
    <2>1. HostInv'
        BY HostInvStep DEF SerialInv
    <2>2. \A h, s : (Shown(h, s)' <=> Shown(h, s)) /\ Entry(h, s)' = Entry(h, s)
        BY <1>4 DEF vars, table, Shown, Entry
    <2>3. OneTask' /\ DeleteOwn' /\ WorkerOwn' /\ CleanedFirst' /\ OpenedOwn'
        BY <1>4, <2>2 DEF vars, table, SerialInv, OneTask, Running, DeleteOwn, WorkerOwn,
                          CleanedFirst, OpenedOwn, TableRef, StepOf, Opens
    <2>4. /\ WritersStarted' /\ CleaningKeepsOtherSteps' /\ UpdatesReachOwnStep'
          /\ LastStateIsShown'
        BY <1>4, <2>2 DEF vars, table, SerialInv, WritersStarted, CleaningKeepsOtherSteps,
                          UpdatesReachOwnStep, LastStateIsShown, Entry, Opens
    <2> QED BY <2>1, <2>3, <2>4 DEF SerialInv
<1> QED BY <1>1, <1>2, <1>3, <1>4 DEF Next, AllFinished

LEMMA SerialInvariant ==
    ASSUME ~Overlap PROVE Spec => []SerialInv
<1>1. SerialInv /\ [Next]_vars => SerialInv'
    BY SerialInvStep
<1> QED BY <1>1, SerialInvInit, PTL DEF Spec

(* An entry that was opened is shown until a handler asks to clean that    *)
(* very host and step, although DELETE drops whole hosts and takes no      *)
(* mutex.                                                                  *)
THEOREM CleaningIsPrecise == ASSUME ~Overlap PROVE Spec => []CleaningKeepsOtherSteps
<1>1. SerialInv => CleaningKeepsOtherSteps
    BY DEF SerialInv
<1> QED BY <1>1, SerialInvariant, PTL

(* When a worker opens its entry on a host its task has cleaned, nothing   *)
(* an earlier task reported for that step is left there.                   *)
THEOREM TablesStartClean == ASSUME ~Overlap PROVE Spec => []StartsFromCleanTable
<1>1. SerialInv => StartsFromCleanTable
    <2> SUFFICES ASSUME SerialInv, NEW w \in Workers, worker[w].pc \in {"post", "posting"},
                        w[2] \in job[w[1]].req.clean, Shown(w[2], StepOf(w[1]))
                 PROVE  Entry(w[2], StepOf(w[1])).by \subseteq {w[1]} \X Hosts
        BY DEF StartsFromCleanTable, StepOf, Entry
    <2>1. /\ NodeTypes /\ w[1] \in Jobs /\ w[2] \in Hosts /\ job[w[1]].pc = "work"
        BY DEF SerialInv, HostInv, NodeTypes, WorkerTypes, Workers
    <2>2. StepOf(w[1]) \in Steps
        BY <2>1, RequestType DEF NodeTypes, JobTypes, StepOf
    <2> QED BY <2>1, <2>2 DEF SerialInv, CleanedFirst
<1> QED BY <1>1, SerialInvariant, PTL

(* The PUT of a worker that has opened an entry reaches the entry of its   *)
(* own step, although it names no step and another task's POST could have  *)
(* changed the current one.                                                *)
THEOREM UpdatesAreNotLost == ASSUME ~Overlap PROVE Spec => []UpdatesReachOwnStep
<1>1. SerialInv => UpdatesReachOwnStep
    BY DEF SerialInv
<1> QED BY <1>1, SerialInvariant, PTL

(* An update without a state leaves the state the worker gave last.        *)
THEOREM StateIsTheLastGiven == ASSUME ~Overlap PROVE Spec => []LastStateIsShown
<1>1. SerialInv => LastStateIsShown
    BY DEF SerialInv
<1> QED BY <1>1, SerialInvariant, PTL

(* DELETE does without the mutex because no worker is inside a POST or a   *)
(* PUT while a task still cleans: no Go map is written twice at once.      *)
THEOREM MapsHaveOneWriter == ASSUME ~Overlap PROVE Spec => []MapsWrittenAlone
<1>1. SerialInv => MapsWrittenAlone
    <2> SUFFICES ASSUME SerialInv, NEW j \in Jobs, del[j].pc # "none"
                 PROVE  /\ \A w \in Workers : worker[w].pc \notin {"posting", "putting"}
                        /\ mutex = Nobody
        BY DEF MapsWrittenAlone
    <2>1. NodeTypes /\ job[j].pc = "clean"
        BY DEF SerialInv, HostInv, NodeTypes, DelTypes
    <2>2. \A w \in Workers : worker[w].pc \in {"off", "done"}
        BY <2>1, WhileCleaning DEF SerialInv
    <2> QED BY <2>1, <2>2 DEF NodeTypes, WorkerTypes, TableTypes, Holding
<1> QED BY <1>1, SerialInvariant, PTL

-----------------------------------------------------------------------------
(* The table as a store (View). With one task at a time each request does  *)
(* to it at once what NodeStore says. NoneEmpty adds that a host without   *)
(* entries is on its way out of the table, so an update of a host that is  *)
(* in the table adds to entries that are shown.                            *)
NoneEmpty ==
    \A h \in DOMAIN AllNodesContextSet :
        DOMAIN heap[AllNodesContextSet[h]] = {} =>
            \E j \in Jobs : del[j].pc \in {"store", "check", "drop"} /\ del[j].host = h

LEMMA EmptyIsEmpty ==
    ASSUME NEW f \in Tables(Steps, NodeContexts), DOMAIN f = {}
    PROVE  f = Empty
<1>1. PICK D \in SUBSET Steps : f \in [D -> NodeContexts]
    BY DEF Tables
<1>2. D = {}
    BY <1>1
<1>3. f = [x \in {} |-> f[x]]
    BY <1>1, <1>2
<1> QED BY <1>3 DEF Empty

LEMMA ViewFacts ==
    ASSUME NodeTypes
    PROVE  /\ View \in [Hosts -> Tables(Steps, NodeContexts)]
           /\ \A h \in Hosts, r \in Refs : TableRef(h, r) => View[h] = heap[r]
           /\ \A h \in Hosts : (\A s \in Steps : ~Shown(h, s)) => View[h] = Empty
<1>1. /\ AllNodesContextSet \in Tables(Hosts, Refs)
      /\ heap \in [Refs -> Tables(Steps, NodeContexts)]
    BY DEF NodeTypes, TableTypes
<1>2. Empty \in Tables(Steps, NodeContexts)
    BY EmptyTable
<1>3. ASSUME NEW h \in DOMAIN AllNodesContextSet
      PROVE  /\ AllNodesContextSet[h] \in Refs
             /\ heap[AllNodesContextSet[h]] \in Tables(Steps, NodeContexts)
             /\ DOMAIN heap[AllNodesContextSet[h]] \in SUBSET Steps
    <2>1. AllNodesContextSet[h] \in Refs
        BY <1>1, TableElim
    <2>2. heap[AllNodesContextSet[h]] \in Tables(Steps, NodeContexts)
        BY <1>1, <2>1
    <2> QED BY <2>1, <2>2, TableElim
<1>4. View \in [Hosts -> Tables(Steps, NodeContexts)]
    BY <1>2, <1>3 DEF View
<1>5. ASSUME NEW h \in Hosts, NEW r \in Refs, TableRef(h, r) PROVE View[h] = heap[r]
    BY <1>5 DEF View, TableRef
<1>6. ASSUME NEW h \in Hosts, \A s \in Steps : ~Shown(h, s) PROVE View[h] = Empty
    <2>1. CASE h \in DOMAIN AllNodesContextSet
        <3>1. DOMAIN heap[AllNodesContextSet[h]] = {}
            BY <1>3, <1>6, <2>1 DEF Shown
        <3> QED BY <1>3, <2>1, <3>1, EmptyIsEmpty DEF View
    <2>2. CASE h \notin DOMAIN AllNodesContextSet
        BY <2>2 DEF View
    <2> QED BY <2>1, <2>2
<1> QED BY <1>4, <1>5, <1>6

(* A write into the map a worker holds adds to the view of its host.       *)
LEMMA WriteChangesView ==
    ASSUME HostInv, WorkerOwn, NEW w \in Workers, worker[w].pc \in Holding,
           NEW s \in Steps, NEW c \in NodeContexts,
           heap' = [heap EXCEPT ![worker[w].ref] = Put(@, s, c)],
           AllNodesContextSet' = Put(AllNodesContextSet, w[2], worker[w].ref)
    PROVE  View' = [View EXCEPT ![w[2]] = Put(@, s, c)]
<1>1. PICK r \in Refs : r = worker[w].ref
    BY DEF HostInv, NodeTypes, WorkerTypes
<1>2. /\ w[2] \in Hosts /\ Uses(w[2], r) /\ NodeTypes
      /\ AllNodesContextSet \in Tables(Hosts, Refs)
      /\ heap \in [Refs -> Tables(Steps, NodeContexts)]
    BY <1>1 DEF HostInv, NodeTypes, TableTypes, Workers, Uses, WorksIn
<1>3. \A x \in Refs : heap'[x] = IF x = r THEN Put(heap[r], s, c) ELSE heap[x]
    BY <1>1, <1>2
<1>4. /\ DOMAIN AllNodesContextSet' = DOMAIN AllNodesContextSet \cup {w[2]}
      /\ AllNodesContextSet'[w[2]] = r
      /\ \A h \in DOMAIN AllNodesContextSet : h # w[2] =>
            AllNodesContextSet'[h] = AllNodesContextSet[h]
    BY <1>1, <1>2, PutTable
<1>5. View[w[2]] = heap[r]
    <2>1. CASE TableRef(w[2], r)
        BY <1>2, <2>1, ViewFacts
    <2>2. CASE heap[r] = Empty /\ \A t \in Steps : ~Shown(w[2], t)
        BY <1>2, <2>2, ViewFacts
    <2> QED BY <1>1, <2>1, <2>2 DEF WorkerOwn
<1>6. ASSUME NEW h \in Hosts, h # w[2] PROVE View'[h] = View[h]
    <2>1. CASE h \notin DOMAIN AllNodesContextSet
        BY <1>4, <1>6, <2>1 DEF View
    <2>2. CASE h \in DOMAIN AllNodesContextSet
        <3>1. AllNodesContextSet[h] # r /\ AllNodesContextSet[h] \in Refs
            BY <1>2, <1>6, <2>2, NoOtherHost, TableElim
        <3> QED BY <1>3, <1>4, <1>6, <2>2, <3>1 DEF View
    <2> QED BY <2>1, <2>2
<1>7. View'[w[2]] = Put(View[w[2]], s, c)
    BY <1>2, <1>3, <1>4, <1>5 DEF View
<1>8. View' = [h \in Hosts |-> View'[h]] /\ View = [h \in Hosts |-> View[h]]
    BY DEF View
<1>9. [View EXCEPT ![w[2]] = Put(@, s, c)]
        = [h \in Hosts |-> IF h = w[2] THEN Put(View[w[2]], s, c) ELSE View[h]]
    BY <1>2, <1>8
<1> QED BY <1>2, <1>6, <1>7, <1>8, <1>9

LEMMA SameTableView ==
    ASSUME UNCHANGED <<AllNodesContextSet, heap>> PROVE View' = View
BY DEF View

(* A step that leaves the table and what it refers to alone, and no DELETE *)
(* on the way out.                                                         *)
LEMMA KeepsNoneEmpty ==
    ASSUME NoneEmpty, DOMAIN AllNodesContextSet' \subseteq DOMAIN AllNodesContextSet,
           \A h \in DOMAIN AllNodesContextSet' :
               /\ AllNodesContextSet'[h] = AllNodesContextSet[h]
               /\ heap'[AllNodesContextSet[h]] = heap[AllNodesContextSet[h]]
               /\ \A i \in Jobs :
                    /\ del[i].pc \in {"store", "check", "drop"} /\ del[i].host = h
                    /\ DOMAIN heap[AllNodesContextSet[h]] = {}
                    => del'[i].pc \in {"store", "check", "drop"} /\ del'[i].host = h
    PROVE  NoneEmpty'
BY DEF NoneEmpty

(* The DELETEs that are not answered: with one task at a time, at most one. *)
LEMMA SameAsked ==
    ASSUME \A i \in Jobs :
               /\ del'[i].pc = "none" <=> del[i].pc = "none"
               /\ del[i].pc # "none" => del'[i].host = del[i].host /\ job'[i].req = job[i].req
    PROVE  Asked' = Asked
BY DEF Asked

LEMMA OneAsked ==
    ASSUME NodeTypes, OneTask, NEW j \in Jobs, del[j].pc # "none"
    PROVE  Asked = {<<del[j].host, StepOf(j)>>}
<1>1. job[j].pc = "clean"
    BY DEF NodeTypes, DelTypes
<1>2. \A i \in Jobs : i # j => del[i].pc = "none"
    BY <1>1, WhileCleaning
<1> QED BY <1>2 DEF Asked, StepOf

LEMMA DeletesStore ==
    ASSUME SerialInv, NoneEmpty, NEW j \in Jobs,
           DeleteKey(j) \/ DeleteStore(j) \/ DeleteCheck(j) \/ DeleteDrop(j)
    PROVE  NoneEmpty' /\ [Store!Next]_(Store!vars)
<1>0. /\ NodeTypes /\ HostInv /\ del[j].pc # "none" /\ del \in [Jobs -> DelRecords]
      /\ AllNodesContextSet \in Tables(Hosts, Refs)
      /\ heap \in [Refs -> Tables(Steps, NodeContexts)]
    BY DEF SerialInv, HostInv, NodeTypes, DelTypes, TableTypes,
           DeleteKey, DeleteStore, DeleteCheck, DeleteDrop
<1>1. PICK k \in Hosts, r \in Refs, t \in Steps :
          k = del[j].host /\ r = del[j].ref /\ t = StepOf(j)
    <2>1. /\ del[j].ref \in Refs /\ del[j].host \in job[j].todo /\ job[j].pc = "clean"
          /\ job[j] \in JobRecords /\ job[j].req \in Requests
        BY <1>0 DEF NodeTypes, DelTypes, JobTypes
    <2>2. del[j].host \in Hosts /\ StepOf(j) \in Steps
        BY <2>1, RequestType DEF JobRecords, StepOf
    <2> QED BY <2>1, <2>2
<1>2. /\ k \in DOMAIN AllNodesContextSet /\ AllNodesContextSet[k] = r /\ Uses(k, r)
      /\ View[k] = heap[r]
    <2>1. TableRef(k, r)
        BY <1>0, <1>1 DEF SerialInv, DeleteOwn
    <2> QED BY <1>0, <2>1, ViewFacts DEF TableRef, Uses
<1>3. \A h \in DOMAIN AllNodesContextSet :
          AllNodesContextSet[h] \in Refs /\ (h # k => AllNodesContextSet[h] # r)
    BY <1>0, <1>1, <1>2, NoOtherHost, TableElim
<1>4. /\ View \in [Hosts -> Tables(Steps, NodeContexts)] /\ Asked = {<<k, t>>}
      /\ \A i \in Jobs : i # j => del[i].pc = "none"
    <2>1. OneTask /\ job[j].pc = "clean"
        BY <1>0 DEF SerialInv, NodeTypes, DelTypes
    <2> QED BY <1>0, <1>1, <2>1, ViewFacts, OneAsked, WhileCleaning
(* A DELETE that returns has hidden its entry. *)
<1> DEFINE Returned == /\ del' = [del EXCEPT ![j] = NoDelete] /\ View' = View
                       /\ del[j].pc # "delete" /\ UNCHANGED CurrentStep
<1>9. ASSUME Returned PROVE [Store!Next]_(Store!vars)
    <2>1. Asked' = {}
        BY <1>0, <1>4, <1>9 DEF Asked, NoDelete
    <2>2. t \notin DOMAIN View[k]
        <3>1. ~Shown(k, t)
            BY <1>0, <1>1, <1>9 DEF SerialInv, DeleteOwn
        <3> QED BY <1>2, <3>1 DEF Shown
    <2>3. Store!Answer(k, t)
        BY <1>4, <1>9, <2>1, <2>2 DEF Store!Answer
    <2> QED BY <2>3 DEF Store!Next
<1> HIDE DEF Returned
<1>5. CASE DeleteKey(j)
    <2>1. /\ del[j].pc = "delete" /\ heap' = [heap EXCEPT ![r] = Drop(@, t)]
          /\ del' = [del EXCEPT ![j].pc = "store"]
          /\ UNCHANGED <<AllNodesContextSet, CurrentStep, job>>
        BY <1>1, <1>5 DEF DeleteKey, StepOf
    <2>2. /\ del'[j].pc = "store" /\ del'[j].host = k
          /\ \A i \in Jobs : i # j => del'[i] = del[i]
          /\ \A x \in Refs : heap'[x] = IF x = r THEN Drop(heap[r], t) ELSE heap[x]
        BY <1>0, <1>1, <2>1 DEF DelRecords
    <2>3. NoneEmpty'
        <3> SUFFICES ASSUME NEW h \in DOMAIN AllNodesContextSet,
                            DOMAIN heap'[AllNodesContextSet[h]] = {}
                     PROVE  \E i \in Jobs : /\ del'[i].pc \in {"store", "check", "drop"}
                                            /\ del'[i].host = h
            BY <2>1 DEF NoneEmpty
        <3>1. CASE h = k
            BY <2>2, <3>1
        <3>2. CASE h # k
            <4>1. DOMAIN heap[AllNodesContextSet[h]] = {}
                BY <1>3, <2>2, <3>2
            <4>2. PICK i \in Jobs : del[i].pc \in {"store", "check", "drop"} /\ del[i].host = h
                BY <4>1 DEF NoneEmpty
            <4> QED BY <2>1, <2>2, <4>2
        <3> QED BY <3>1, <3>2
    <2>4. \A h \in Hosts : View'[h] = IF h = k THEN Drop(View[k], t) ELSE View[h]
        BY <1>2, <1>3, <2>1, <2>2 DEF View
    <2>5. View' = [View EXCEPT ![k] = Drop(@, t)]
        <3>1. View' = [h \in Hosts |-> View'[h]]
            BY DEF View
        <3> QED BY <1>4, <2>4, <3>1
    <2>8. Asked' = Asked
        BY <2>1, <2>2, <1>1, SameAsked
    <2>6. CASE t \in DOMAIN View[k]
        <3>1. Store!Clean(k, t)
            BY <1>4, <2>1, <2>5, <2>8, <2>6 DEF Store!Clean, Store!Without, Drop
        <3> QED BY <2>3, <3>1 DEF Store!Next
    <2>7. CASE t \notin DOMAIN View[k]
        <3>1. PICK D \in SUBSET Steps : View[k] \in [D -> NodeContexts]
            BY <1>4 DEF Tables
        <3>2. Drop(View[k], t) = View[k]
            BY <2>7, <3>1 DEF Drop
        <3>3. View' = View
            BY <1>4, <2>5, <3>2
        <3> QED BY <2>1, <2>3, <2>8, <3>3 DEF Store!vars
    <2> QED BY <2>6, <2>7
<1>6. CASE DeleteStore(j)
    <2>1. /\ AllNodesContextSet' = Put(AllNodesContextSet, k, r)
          /\ del' = [del EXCEPT ![j].pc = "check"] /\ del[j].pc = "store"
          /\ UNCHANGED <<heap, CurrentStep, job>>
        BY <1>1, <1>6 DEF DeleteStore
    <2>2. AllNodesContextSet' = AllNodesContextSet
        <3>1. PICK D \in SUBSET Hosts : AllNodesContextSet \in [D -> Refs]
            BY <1>0 DEF Tables
        <3> QED BY <1>2, <2>1, <3>1 DEF Put
    <2>3. \A i \in Jobs : /\ del'[i].host = del[i].host
                          /\ del'[i].pc = "none" <=> del[i].pc = "none"
                          /\ del[i].pc \in {"store", "check", "drop"} =>
                                del'[i].pc \in {"store", "check", "drop"}
        BY <1>0, <2>1 DEF DelRecords
    <2>4. NoneEmpty'
        BY <2>1, <2>2, <2>3, KeepsNoneEmpty
    <2>5. View' = View /\ Asked' = Asked
        BY <2>1, <2>2, <2>3, SameTableView, SameAsked
    <2> QED BY <2>1, <2>4, <2>5 DEF Store!vars
<1>7. CASE DeleteCheck(j)
    <2>1. /\ UNCHANGED <<AllNodesContextSet, heap, CurrentStep>> /\ del[j].pc = "check"
          /\ \/ del' = [del EXCEPT ![j].pc = "drop"] /\ job' = job
             \/ del' = [del EXCEPT ![j] = NoDelete] /\ DOMAIN heap[r] # {}
        BY <1>1, <1>7 DEF DeleteCheck, DeleteReturns, table
    <2>2. \A i \in Jobs, h \in DOMAIN AllNodesContextSet :
              /\ del[i].pc \in {"store", "check", "drop"} /\ del[i].host = h
              /\ DOMAIN heap[AllNodesContextSet[h]] = {}
              => del'[i].pc \in {"store", "check", "drop"} /\ del'[i].host = h
        BY <1>0, <1>1, <1>2, <2>1 DEF DelRecords
    <2>3. NoneEmpty'
        BY <2>1, <2>2, KeepsNoneEmpty
    <2>4. View' = View
        BY <2>1, SameTableView
    <2>5. CASE del' = [del EXCEPT ![j].pc = "drop"] /\ job' = job
        <3>1. Asked' = Asked
            BY <1>0, <2>1, <2>5, SameAsked DEF DelRecords
        <3> QED BY <2>1, <2>3, <2>4, <3>1 DEF Store!vars
    <2>6. CASE del' = [del EXCEPT ![j] = NoDelete]
        BY <1>9, <2>1, <2>3, <2>4, <2>6 DEF Returned
    <2> QED BY <2>1, <2>5, <2>6
<1>8. CASE DeleteDrop(j)
    <2>1. /\ AllNodesContextSet' = Drop(AllNodesContextSet, k) /\ del[j].pc = "drop"
          /\ del' = [del EXCEPT ![j] = NoDelete] /\ UNCHANGED <<heap, CurrentStep>>
        BY <1>1, <1>8 DEF DeleteDrop, DeleteReturns
    <2>2. /\ DOMAIN AllNodesContextSet' = DOMAIN AllNodesContextSet \ {k}
          /\ \A h \in DOMAIN AllNodesContextSet' : AllNodesContextSet'[h] = AllNodesContextSet[h]
        BY <2>1 DEF Drop
    <2>3. \A i \in Jobs : del[i].host # k => del'[i] = del[i]
        BY <1>0, <1>1, <2>1
    <2>4. NoneEmpty'
        BY <2>1, <2>2, <2>3, KeepsNoneEmpty
    <2>5. View[k] = Empty
        <3>1. \A s \in Steps : ~Shown(k, s)
            BY <1>0, <1>1, <2>1 DEF SerialInv, DeleteOwn
        <3> QED BY <1>0, <3>1, ViewFacts
    <2>6. \A h \in Hosts : View'[h] = View[h]
        BY <2>1, <2>2, <2>5 DEF View
    <2>7. View' = View
        <3>1. View' = [h \in Hosts |-> View'[h]] /\ View = [h \in Hosts |-> View[h]]
            BY DEF View
        <3> QED BY <2>6, <3>1
    <2> QED BY <1>9, <2>1, <2>4, <2>7 DEF Returned
<1> QED BY <1>5, <1>6, <1>7, <1>8

LEMMA WorkStore ==
    ASSUME SerialInv, NoneEmpty, NEW w \in Workers, Work(w)
    PROVE  NoneEmpty' /\ [Store!Next]_(Store!vars)
<1>0. /\ NodeTypes /\ HostInv /\ WorkerOwn /\ w[1] \in Jobs /\ w[2] \in Hosts
      /\ w = <<w[1], w[2]>> /\ del' = del /\ Asked' = Asked
      /\ AllNodesContextSet \in Tables(Hosts, Refs)
      /\ heap \in [Refs -> Tables(Steps, NodeContexts)]
    <2>1. w[1] \in Jobs /\ w[2] \in Hosts /\ w = <<w[1], w[2]>>
        BY DEF Workers
    <2>2. UNCHANGED <<job, del>>
        BY DEF Work, PostRead, PostWrite, Posted, PostAgain, PutRead, PutWrite, Written
    <2>3. Asked' = Asked
        BY <2>2, SameAsked
    <2> QED BY <2>1, <2>2, <2>3 DEF SerialInv, HostInv, NodeTypes, TableTypes
<1>1. ASSUME NEW s \in Steps, NEW c \in NodeContexts, worker[w].pc \in Holding,
             heap' = [heap EXCEPT ![worker[w].ref] = Put(@, s, c)],
             AllNodesContextSet' = Put(AllNodesContextSet, w[2], worker[w].ref)
      PROVE  NoneEmpty' /\ View' = [View EXCEPT ![w[2]] = Put(@, s, c)]
    <2>1. PICK r \in Refs : r = worker[w].ref
        BY <1>0, <1>1 DEF NodeTypes, WorkerTypes
    <2>2. Uses(w[2], r)
        BY <1>1, <2>1 DEF Uses, WorksIn
    <2>3. /\ DOMAIN AllNodesContextSet' = DOMAIN AllNodesContextSet \cup {w[2]}
          /\ AllNodesContextSet'[w[2]] = r
          /\ \A h \in DOMAIN AllNodesContextSet : h # w[2] =>
                AllNodesContextSet'[h] = AllNodesContextSet[h]
        BY <1>0, <1>1, <2>1 DEF Put
    <2>4. /\ s \in DOMAIN heap'[r]
          /\ \A x \in Refs : x # r => heap'[x] = heap[x]
        BY <1>0, <1>1, <2>1 DEF Put
    <2>5. \A h \in DOMAIN AllNodesContextSet : h # w[2] =>
              AllNodesContextSet[h] # r /\ AllNodesContextSet[h] \in Refs
        BY <1>0, <2>2, NoOtherHost, TableElim
    <2>6. NoneEmpty'
        BY <1>0, <2>3, <2>4, <2>5 DEF NoneEmpty
    <2> QED BY <1>0, <1>1, <2>6, WriteChangesView
<1>2. CASE PostRead(w)
    <2>1. /\ mutex = Nobody /\ UNCHANGED <<AllNodesContextSet, CurrentStep>>
          /\ heap' = heap \/ heap' = [heap EXCEPT ![FreshRef] = Empty]
        BY <1>0, <1>2, PostReadMoves
    <2>2. FreshRef \in Refs /\ FreshRef \notin Reachable
        BY <1>0, <2>1, FreshExists
    <2>3. \A h \in DOMAIN AllNodesContextSet :
              heap'[AllNodesContextSet[h]] = heap[AllNodesContextSet[h]]
        BY <1>0, <2>1, <2>2, TableElim DEF Reachable
    <2>4. View' = View
        BY <2>1, <2>3 DEF View
    <2> QED BY <1>0, <2>1, <2>3, <2>4, KeepsNoneEmpty DEF Store!vars
<1>3. CASE PostAgain(w) \/ PutRead(w)
    <2>1. UNCHANGED <<AllNodesContextSet, heap, CurrentStep>>
        BY <1>0, <1>3, PostAgainMoves, PutReadMoves
    <2> QED BY <1>0, <2>1, KeepsNoneEmpty, SameTableView DEF Store!vars
<1>4. CASE PostWrite(w)
    <2>1. PICK s \in Steps, c \in NodeContexts : s = StepOf(w[1]) /\ c = PostBody(w)
        BY <1>0, <1>4, PostWriteMoves
    <2>2. NoneEmpty' /\ View' = [View EXCEPT ![w[2]] = Put(@, s, c)] /\ CurrentStep' = s
        BY <1>0, <1>1, <1>4, <2>1, PostWriteMoves DEF Holding
    <2>3. c = [state |-> "running", by |-> {<<w[1], w[2]>>}]
        BY <1>0, <2>1 DEF PostBody
    <2>4. Store!Open(w[1], w[2], s)
        BY <1>0, <2>2, <2>3 DEF Store!Open, Store!With, Put
    <2> QED BY <1>0, <2>2, <2>4 DEF Store!Next
<1>5. CASE \E st \in States \cup {NoState} : PutWrite(w, st)
    <2>1. PICK st \in States \cup {NoState} : PutWrite(w, st)
        BY <1>5
    <2>2. PICK s \in Steps, c \in NodeContexts : s = CurrentStep /\ c = Merged(w, st)
        BY <1>0, <2>1, PutWriteMoves
    <2>3. /\ worker[w].pc = "putting" /\ UNCHANGED CurrentStep
          /\ NoneEmpty' /\ View' = [View EXCEPT ![w[2]] = Put(@, s, c)]
        BY <1>0, <1>1, <2>1, <2>2, PutWriteMoves DEF Holding
    <2>4. TableRef(w[2], worker[w].ref) /\ worker[w].ref \in Refs
        BY <1>0, <2>1, <2>3, PutWriteMoves DEF WorkerOwn, Holding
    <2>5. View[w[2]] = heap[worker[w].ref]
        BY <1>0, <2>4, ViewFacts
    <2>6. DOMAIN View[w[2]] # {}
        <3>1. \A i \in Jobs : del[i].pc = "none"
            BY <1>0, <2>3, WhileWorking DEF SerialInv
        <3> QED BY <2>4, <2>5, <3>1 DEF NoneEmpty, TableRef
    <2>7. StepState(w) = Store!Before(w[2])
        BY <2>5 DEF StepState, Store!Before
    <2>8. c = [state |-> IF st = NoState THEN Store!Before(w[2]).state ELSE st,
               by |-> Store!Before(w[2]).by \cup {<<w[1], w[2]>>}]
        BY <1>0, <2>2, <2>7 DEF Merged
    <2>9. Store!Update(w[1], w[2], st)
        BY <1>0, <2>2, <2>3, <2>6, <2>8 DEF Store!Update, Store!With, Put
    <2> QED BY <1>0, <2>3, <2>9 DEF Store!Next
<1> QED BY <1>2, <1>3, <1>4, <1>5 DEF Work

LEMMA StoreStep ==
    ~Overlap /\ SerialInv /\ NoneEmpty /\ [Next]_vars => NoneEmpty' /\ [Store!Next]_(Store!vars)
<1> SUFFICES ASSUME ~Overlap, SerialInv, NoneEmpty, [Next]_vars
             PROVE  NoneEmpty' /\ [Store!Next]_(Store!vars)
    OBVIOUS
<1>0. NodeTypes /\ OneTask
    BY DEF SerialInv, HostInv
<1>1. ASSUME UNCHANGED <<AllNodesContextSet, heap, CurrentStep, del>>,
             \A i \in Jobs : job'[i].req = job[i].req \/ job[i].pc = "idle"
      PROVE  NoneEmpty' /\ [Store!Next]_(Store!vars)
    <2>1. NoneEmpty'
        BY <1>1, KeepsNoneEmpty
    <2>2. Asked' = Asked
        BY <1>0, <1>1, SameAsked DEF NodeTypes, DelTypes
    <2> QED BY <1>1, <2>1, <2>2, SameTableView DEF Store!vars
<1>2. ASSUME NEW j \in Jobs, NEW h \in Hosts, DeleteRead(j, h)
      PROVE  NoneEmpty' /\ [Store!Next]_(Store!vars)
    <2>1. /\ UNCHANGED <<AllNodesContextSet, heap, CurrentStep>>
          /\ job[j].pc = "clean" /\ del[j] = NoDelete /\ del[j].pc = "none"
          /\ job \in [Jobs -> JobRecords] /\ del \in [Jobs -> DelRecords]
        BY <1>0, <1>2 DEF DeleteRead, NoDelete, table, NodeTypes, JobTypes, DelTypes
    <2>2. \A i \in Jobs : del[i].pc = "none"
        BY <1>0, <2>1, WhileCleaning
    <2>3. CASE job' = [job EXCEPT ![j].todo = @ \ {h}] /\ del' = del
        BY <1>1, <2>1, <2>3 DEF JobRecords
    <2>4. CASE /\ job' = job
               /\ del' = [del EXCEPT ![j] =
                            [pc |-> "delete", host |-> h, ref |-> AllNodesContextSet[h]]]
        <3>1. /\ del'[j].pc = "delete" /\ del'[j].host = h
              /\ \A i \in Jobs : i # j => del'[i] = del[i]
            BY <2>1, <2>4
        <3>2. Asked = {}
            BY <2>2 DEF Asked
        <3>3. Asked' = {<<h, StepOf(j)>>}
            BY <2>2, <2>4, <3>1 DEF Asked, StepOf
        <3>4. NoneEmpty'
            BY <2>1, <2>2, KeepsNoneEmpty
        <3>5. StepOf(j) \in Steps
            BY <1>0, <2>1, RequestType DEF NodeTypes, JobTypes, StepOf
        <3>6. Store!Ask(h, StepOf(j))
            BY <2>1, <3>2, <3>3, SameTableView DEF Store!Ask
        <3> QED BY <3>4, <3>5, <3>6 DEF Store!Next
    <2> QED BY <1>2, <2>3, <2>4 DEF DeleteRead
<1>3. ASSUME NEW j \in Jobs, Launch(j) \/ Finish(j) \/ \E q \in Requests : Start(j, q)
      PROVE  NoneEmpty' /\ [Store!Next]_(Store!vars)
    <2>1. /\ UNCHANGED <<AllNodesContextSet, heap, CurrentStep, del>>
          /\ \A i \in Jobs : job'[i].req = job[i].req \/ job[i].pc = "idle"
        BY <1>0, <1>3 DEF Launch, Finish, Start, table, NodeTypes, JobTypes, JobRecords
    <2> QED BY <1>1, <2>1
<1>4. CASE UNCHANGED vars
    BY <1>1, <1>4 DEF vars, table
<1> QED BY <1>2, <1>3, <1>4, DeletesStore, WorkStore DEF Next, Handler, AllFinished

(* With one task at a time the table implements NodeStore: to who queries  *)
(* it, one of the five steps of a DELETE without the mutex hides the entry *)
(* it was asked to clean, and no other step of it anything, and the two    *)
(* halves of a POST or a PUT are one.                                      *)
THEOREM TableImplementsStore == ASSUME ~Overlap PROVE Spec => ImplementsNodeStore
<1>1. Init => NoneEmpty /\ Store!Init
    <2> SUFFICES ASSUME Init PROVE NoneEmpty /\ Store!Init
        OBVIOUS
    <2>1. AllNodesContextSet = Empty /\ DOMAIN Empty = {} /\ CurrentStep = ""
        BY DEF Init, Empty
    <2>2. Asked = {}
        BY DEF Init, Asked, NoDelete
    <2>3. View = [h \in Hosts |-> Store!Nothing]
        BY <2>1 DEF View, Empty, Store!Nothing
    <2> QED BY <2>1, <2>2, <2>3 DEF NoneEmpty, Store!Init
<1>2. SerialInv /\ NoneEmpty /\ [Next]_vars => NoneEmpty' /\ [Store!Next]_(Store!vars)
    BY StoreStep
<1>3. Spec => [][Store!Next]_(Store!vars)
    BY <1>1, <1>2, SerialInvariant, PTL DEF Spec
<1> QED BY <1>1, <1>3, PTL DEF Spec, ImplementsNodeStore, Store!Spec

-----------------------------------------------------------------------------
(***************************************************************************)
(* The parts of TasksEnd that are not about fairness, with or without      *)
(* overlapping tasks. A worker is started once and only by its task, so    *)
(* every task and every worker has a number of steps before it that its    *)
(* own steps lower and nobody's step raises; and whoever may not go on     *)
(* waits for one who may.                                                  *)
(***************************************************************************)
StartedOnce ==
    \A w \in Workers :
        /\ job[w[1]].pc \in {"idle", "clean"} => worker[w].pc = "off"
        /\ job[w[1]].pc = "work" /\ w[2] \in job[w[1]].req.work => worker[w].pc # "off"

(* What a worker has before it: a call is two steps, and one that opens an *)
(* entry is followed by an update. Its first rank is that of a worker that *)
(* may still be started.                                                   *)
WorkerRank(w) ==
    CASE worker[w].pc = "off" -> 5 * MaxPuts + 5
      [] worker[w].pc = "post" -> 5 * worker[w].left + 4
      [] worker[w].pc = "posting" -> 5 * worker[w].left + 3
      [] worker[w].pc = "put" -> 5 * worker[w].left + 2
      [] worker[w].pc = "putting" -> 5 * worker[w].left + 1
      [] OTHER -> 0

(* What a task has before it: a DELETE of five steps for each host it has  *)
(* not cleaned yet, its launch and its end.                                *)
DelRank(at) == CASE at = "delete" -> 4 [] at = "store" -> 3 [] at = "check" -> 2
                 [] at = "drop" -> 1 [] OTHER -> 5

JobRank(j) ==
    CASE job[j].pc = "idle" -> 6 * Cardinality(Hosts) + 8
      [] job[j].pc = "clean" -> 6 * Cardinality(job[j].todo) + DelRank(del[j].pc) + 2
      [] job[j].pc = "work" -> 1
      [] OTHER -> 0

RanksTyped == /\ \A j \in Jobs : JobRank(j) \in Nat
              /\ \A w \in Workers : WorkerRank(w) \in Nat

LEMMA RanksAreNat == NodeTypes => RanksTyped
<1> SUFFICES ASSUME NodeTypes PROVE RanksTyped
    OBVIOUS
<1>1. ASSUME NEW j \in Jobs PROVE JobRank(j) \in Nat
    <2>1. job[j] \in JobRecords
        BY DEF NodeTypes, JobTypes
    <2>2. Cardinality(Hosts) \in Nat /\ Cardinality(job[j].todo) \in Nat
        BY <2>1, RefsAssumption, FS_Subset, FS_CardinalityType DEF JobRecords
    <2> QED BY <2>2 DEF JobRank, DelRank
<1>2. ASSUME NEW w \in Workers PROVE WorkerRank(w) \in Nat
    <2>1. worker[w].left \in Nat
        BY PutsAssumption DEF NodeTypes, WorkerTypes, WorkerRecords
    <2> QED BY <2>1, PutsAssumption DEF WorkerRank
<1> QED BY <1>1, <1>2 DEF RanksTyped

(* A call of a worker: nobody else moves.                                  *)
LEMMA WorkGoesForward ==
    ASSUME NodeTypes, NEW w \in Workers, Work(w)
    PROVE  /\ UNCHANGED <<job, del>> /\ \A x \in Workers : x # w => worker'[x] = worker[x]
           /\ worker[w].pc # "off" /\ worker'[w].pc # "off"
           /\ WorkerRank(w)' < WorkerRank(w)
<1>0. worker[w].left \in Nat /\ worker \in [Workers -> WorkerRecords]
    BY PutsAssumption DEF NodeTypes, WorkerTypes, WorkerRecords
<1>1. CASE PostRead(w)
    BY <1>0, <1>1, PostReadMoves DEF WorkerRank
<1>2. CASE PostWrite(w)
    BY <1>0, <1>2, PostWriteMoves DEF WorkerRank
<1>3. CASE PostAgain(w)
    <2>1. worker[w].left > 0 /\ worker'[w].left = worker[w].left - 1
        BY <1>0, <1>3 DEF PostAgain, WorkerRecords
    <2> QED BY <1>0, <1>3, <2>1, PostAgainMoves DEF WorkerRank
<1>4. ASSUME NEW st \in States \cup {NoState}, worker' = Sent(w, st),
             worker[w].pc \in {"put", "putting"}
      PROVE  worker'[w].pc # "off" /\ WorkerRank(w)' < WorkerRank(w)
    <2>1. IF worker[w].left = 0 THEN worker'[w].pc = "done"
          ELSE worker'[w].pc = "put" /\ worker'[w].left = worker[w].left - 1
        BY <1>0, <1>4 DEF Sent
    <2> QED BY <1>0, <1>4, <2>1 DEF WorkerRank
<1>5. CASE PutRead(w)
    <2>1. CASE w[2] \notin DOMAIN AllNodesContextSet
        <3>1. worker' = Sent(w, NoState)
            BY <1>5, <2>1 DEF PutRead
        <3> QED BY <1>4, <1>5, <3>1, PutReadMoves
    <2>2. CASE w[2] \in DOMAIN AllNodesContextSet
        <3>1. worker'[w].pc = "putting" /\ worker'[w].left = worker[w].left
            BY <1>0, <1>5, <2>2 DEF PutRead, WorkerRecords
        <3> QED BY <1>0, <1>5, <3>1, PutReadMoves DEF WorkerRank
    <2> QED BY <2>1, <2>2
<1>6. CASE \E st \in States \cup {NoState} : PutWrite(w, st)
    <2>1. PICK st \in States \cup {NoState} : PutWrite(w, st)
        BY <1>6
    <2>2. worker' = Sent(w, st)
        BY <2>1 DEF PutWrite, Written
    <2> QED BY <1>4, <2>1, <2>2, PutWriteMoves
<1> QED BY <1>1, <1>2, <1>3, <1>5, <1>6 DEF Work

(* A host is taken off the list of a task.                                 *)
LEMMA OneHostLess ==
    ASSUME NodeTypes, NEW j \in Jobs, NEW h \in job[j].todo
    PROVE  /\ Cardinality(job[j].todo) \in Nat
           /\ Cardinality(job[j].todo \ {h}) = Cardinality(job[j].todo) - 1
<1>1. job[j] \in JobRecords
    BY DEF NodeTypes, JobTypes
<1>2. IsFiniteSet(job[j].todo)
    BY <1>1, RefsAssumption, FS_Subset DEF JobRecords
<1> QED BY <1>2, FS_RemoveElement, FS_CardinalityType

(* A step of the handler or of its DELETE.                                 *)
LEMMA HandlerGoesForward ==
    ASSUME NodeTypes, NEW j \in Jobs, Handler(j) \/ \E q \in Requests : Start(j, q)
    PROVE  /\ JobRank(j)' < JobRank(j)
           /\ \A i \in Jobs : i # j => job'[i] = job[i] /\ del'[i] = del[i]
<1>0. /\ job \in [Jobs -> JobRecords] /\ del \in [Jobs -> DelRecords]
      /\ job[j].pc # "clean" => del[j].pc = "none"
      /\ Cardinality(job[j].todo) \in Nat /\ Cardinality(Hosts) \in Nat
    <2>1. job[j].todo \in SUBSET Hosts
        BY DEF NodeTypes, JobTypes, JobRecords
    <2> QED BY <2>1, RefsAssumption, FS_Subset, FS_CardinalityType DEF NodeTypes, JobTypes, DelTypes
<1>1. ASSUME NEW q \in Requests, Start(j, q) PROVE JobRank(j)' < JobRank(j)
    <2>1. /\ job[j].pc = "idle" /\ del' = del
          /\ job'[j] = [pc |-> "clean", req |-> q, todo |-> q.clean]
        BY <1>0, <1>1 DEF Start
    <2>2. /\ Cardinality(q.clean) \in Nat
          /\ Cardinality(q.clean) <= Cardinality(Hosts)
        BY RequestType, RefsAssumption, FS_Subset, FS_CardinalityType
    <2> QED BY <1>0, <2>1, <2>2 DEF JobRank, DelRank
<1>2. ASSUME NEW h \in job[j].todo, job[j].pc = "clean", DelRank(del[j].pc) \in 1..5,
             job' = [job EXCEPT ![j].todo = @ \ {h}], del'[j].pc = "none"
      PROVE  JobRank(j)' < JobRank(j)
    <2>1. job'[j].pc = "clean" /\ job'[j].todo = job[j].todo \ {h}
        BY <1>0, <1>2 DEF JobRecords
    <2>2. JobRank(j) = 6 * Cardinality(job[j].todo) + DelRank(del[j].pc) + 2
        BY <1>2 DEF JobRank
    <2>3. JobRank(j)' = 6 * Cardinality(job[j].todo \ {h}) + 5 + 2
        BY <1>2, <2>1 DEF JobRank, DelRank
    <2>4. Cardinality(job[j].todo \ {h}) = Cardinality(job[j].todo) - 1
        BY OneHostLess
    <2> QED BY <1>0, <1>2, <2>2, <2>3, <2>4
<1>3. ASSUME job[j].pc = "clean", job' = job,
             DelRank(del'[j].pc) \in 1..5, DelRank(del[j].pc) \in 1..5,
             DelRank(del'[j].pc) < DelRank(del[j].pc)
      PROVE  JobRank(j)' < JobRank(j)
    BY <1>0, <1>3 DEF JobRank
<1>4. ASSUME NEW h \in Hosts, DeleteRead(j, h) PROVE JobRank(j)' < JobRank(j)
    <2>1. /\ job[j].pc = "clean" /\ h \in job[j].todo /\ del[j].pc = "none"
          /\ \/ job' = [job EXCEPT ![j].todo = @ \ {h}] /\ del' = del
             \/ job' = job /\ del'[j].pc = "delete"
        BY <1>0, <1>4 DEF DeleteRead, NoDelete
    <2> QED BY <1>2, <1>3, <2>1 DEF DelRank
<1>5. ASSUME DeleteKey(j) \/ DeleteStore(j) \/ DeleteCheck(j) \/ DeleteDrop(j)
      PROVE  JobRank(j)' < JobRank(j)
    <2>1. /\ del[j].pc \in {"delete", "store", "check", "drop"}
          /\ \/ /\ job' = job
                /\ \/ del[j].pc = "delete" /\ del'[j].pc = "store"
                   \/ del[j].pc = "store" /\ del'[j].pc = "check"
                   \/ del[j].pc = "check" /\ del'[j].pc = "drop"
             \/ job' = [job EXCEPT ![j].todo = @ \ {del[j].host}] /\ del'[j].pc = "none"
        BY <1>0, <1>5 DEF DeleteKey, DeleteStore, DeleteCheck, DeleteDrop, DeleteReturns,
                          NoDelete, DelRecords
    <2>2. job[j].pc = "clean" /\ del[j].host \in job[j].todo
        BY <2>1 DEF NodeTypes, DelTypes
    <2>3. DelRank(del[j].pc) \in 1..5
        BY <2>1 DEF DelRank
    <2>4. CASE job' = job /\ del'[j].pc # "none"
        <3>1. DelRank(del'[j].pc) \in 1..5 /\ DelRank(del'[j].pc) < DelRank(del[j].pc)
            BY <2>1, <2>2, <2>4 DEF DelRank
        <3> QED BY <1>3, <2>2, <2>3, <2>4, <3>1
    <2>5. CASE ~(job' = job /\ del'[j].pc # "none")
        BY <1>2, <2>1, <2>2, <2>3, <2>5
    <2> QED BY <2>4, <2>5
<1>6. ASSUME Launch(j) \/ Finish(j) PROVE JobRank(j)' < JobRank(j)
    <2>1. \/ job[j].pc = "clean" /\ job'[j].pc = "work"
          \/ job[j].pc = "work" /\ job'[j].pc = "finished"
        BY <1>0, <1>6 DEF Launch, Finish, JobRecords
    <2>2. JobRank(j)' = IF job[j].pc = "clean" THEN 1 ELSE 0
        BY <2>1 DEF JobRank
    <2>3. JobRank(j) >= IF job[j].pc = "clean" THEN 2 ELSE 1
        BY <1>0, <2>1 DEF JobRank, DelRank
    <2> QED BY <2>2, <2>3, RanksAreNat DEF RanksTyped
<1>7. \A i \in Jobs : i # j => job'[i] = job[i] /\ del'[i] = del[i]
    BY <1>0 DEF Start, Handler, DeleteRead, DeleteKey, DeleteStore, DeleteCheck, DeleteDrop,
                DeleteReturns, Launch, Finish
<1> QED BY <1>1, <1>4, <1>5, <1>6, <1>7 DEF Handler

(* The handler starts workers, once, and leaves those at work alone.       *)
LEMMA HandlerLeavesWorkers ==
    ASSUME NodeTypes, StartedOnce, NEW j \in Jobs, Handler(j) \/ \E q \in Requests : Start(j, q)
    PROVE  /\ StartedOnce'
           /\ \A w \in Workers : WorkerRank(w)' <= WorkerRank(w)
<1>0. job \in [Jobs -> JobRecords] /\ \A i \in Jobs : i # j => job'[i] = job[i]
    BY HandlerGoesForward DEF NodeTypes, JobTypes
<1>1. CASE Launch(j)
    <2>1. /\ job[j].pc = "clean" /\ job'[j].pc = "work" /\ job'[j].req = job[j].req
          /\ StartWorkers(j)
        BY <1>0, <1>1 DEF Launch, JobRecords
    <2>2. ASSUME NEW w \in Workers
          PROVE  /\ w[1] = j /\ w[2] \in job[j].req.work =>
                      worker[w].pc = "off" /\ worker'[w].left = MaxPuts
                        /\ worker'[w].pc \in {"post", "put"}
                 /\ ~(w[1] = j /\ w[2] \in job[j].req.work) => worker'[w] = worker[w]
        <3>1. w \in {j} \X job[j].req.work <=> w[1] = j /\ w[2] \in job[j].req.work
            BY DEF Workers
        <3>2. worker'[w] = IF w \in {j} \X job[j].req.work
                           THEN [NoWorker EXCEPT !.pc = IF Opens(w) THEN "post" ELSE "put"]
                           ELSE worker[w]
            BY <2>1 DEF StartWorkers
        <3> QED BY <2>1, <3>1, <3>2 DEF StartedOnce, NoWorker
    <2>3. StartedOnce'
        BY <1>0, <2>1, <2>2 DEF StartedOnce, Workers
    <2>4. ASSUME NEW w \in Workers PROVE WorkerRank(w)' <= WorkerRank(w)
        <3>1. CASE w[1] = j /\ w[2] \in job[j].req.work
            BY <2>2, <3>1, PutsAssumption DEF WorkerRank
        <3>2. CASE ~(w[1] = j /\ w[2] \in job[j].req.work)
            <4>1. WorkerRank(w)' = WorkerRank(w)
                BY <2>2, <3>2 DEF WorkerRank
            <4> QED BY <4>1, RanksAreNat DEF RanksTyped
        <3> QED BY <3>1, <3>2
    <2> QED BY <2>3, <2>4
<1>2. CASE ~Launch(j)
    <2> DEFINE Before == /\ job'[j].pc \in {"idle", "clean"} /\ job[j].pc \in {"idle", "clean"}
                         /\ worker' = worker
               After == worker' = worker /\ (job'[j] = job[j] \/ job'[j].pc = "finished")
    <2>1. ASSUME \E q \in Requests : Start(j, q) PROVE Before \/ After
        BY <1>0, <2>1 DEF Start
    <2>2. ASSUME \E h \in Hosts : DeleteRead(j, h) PROVE Before \/ After
        BY <1>0, <2>2 DEF DeleteRead, JobRecords
    <2>3. ASSUME DeleteKey(j) \/ DeleteStore(j) PROVE Before \/ After
        BY <2>3 DEF DeleteKey, DeleteStore
    <2>4. ASSUME DeleteCheck(j) \/ DeleteDrop(j) PROVE Before \/ After
        <3>1. del[j].pc # "none" /\ worker' = worker
            BY <2>4 DEF DeleteCheck, DeleteDrop, table
        <3>2. job[j].pc = "clean"
            BY <3>1 DEF NodeTypes, DelTypes
        <3>3. job' = job \/ job' = [job EXCEPT ![j].todo = @ \ {del[j].host}]
            BY <2>4 DEF DeleteCheck, DeleteDrop, DeleteReturns
        <3>4. job'[j].pc = "clean"
            BY <1>0, <3>2, <3>3 DEF JobRecords
        <3> QED BY <3>1, <3>2, <3>4
    <2>5. ASSUME Finish(j) PROVE Before \/ After
        BY <1>0, <2>5 DEF Finish, JobRecords
    <2>6. Before \/ After
        BY <1>2, <2>1, <2>2, <2>3, <2>4, <2>5 DEF Handler
    <2>7. StartedOnce'
        BY <1>0, <2>6 DEF StartedOnce, Workers
    <2>8. \A w \in Workers : WorkerRank(w)' = WorkerRank(w)
        BY <2>6 DEF WorkerRank
    <2> QED BY <2>7, <2>8, RanksAreNat DEF RanksTyped
<1> QED BY <1>1, <1>2

GoForward ==
    /\ \A j \in Jobs : /\ JobRank(j)' \in Nat /\ JobRank(j)' <= JobRank(j)
                       /\ Handler(j) => JobRank(j)' < JobRank(j)
    /\ \A w \in Workers : /\ WorkerRank(w)' \in Nat /\ WorkerRank(w)' <= WorkerRank(w)
                          /\ Work(w) => WorkerRank(w)' < WorkerRank(w)

LEMMA StepGoesForward ==
    NodeTypes /\ StartedOnce /\ [Next]_vars => StartedOnce' /\ [GoForward]_vars
<1> SUFFICES ASSUME NodeTypes, StartedOnce, [Next]_vars
             PROVE  StartedOnce' /\ (GoForward \/ UNCHANGED vars)
    OBVIOUS
<1>1. /\ \A j \in Jobs : JobRank(j) \in Nat /\ JobRank(j)' \in Nat
      /\ \A w \in Workers : WorkerRank(w) \in Nat /\ WorkerRank(w)' \in Nat
    <2>1. NodeTypes'
        BY NodeTypesStep
    <2>2. RanksTyped'
        BY <2>1, RanksAreNat, PTL
    <2> QED BY <2>2, RanksAreNat DEF RanksTyped
<1>2. /\ \A j \in Jobs : Handler(j) => JobRank(j)' < JobRank(j)
      /\ \A w \in Workers : Work(w) => WorkerRank(w)' < WorkerRank(w)
    BY HandlerGoesForward, WorkGoesForward
<1>3. ASSUME NEW j \in Jobs, Handler(j) \/ \E q \in Requests : Start(j, q)
      PROVE  StartedOnce' /\ GoForward
    <2>1. ASSUME NEW i \in Jobs PROVE JobRank(i)' <= JobRank(i)
        <3>1. CASE i = j
            BY <1>1, <1>3, <3>1, HandlerGoesForward
        <3>2. CASE i # j
            <4>1. JobRank(i)' = JobRank(i)
                BY <1>3, <3>2, HandlerGoesForward DEF JobRank
            <4> QED BY <1>1, <4>1
        <3> QED BY <3>1, <3>2
    <2>2. StartedOnce' /\ \A w \in Workers : WorkerRank(w)' <= WorkerRank(w)
        BY <1>3, HandlerLeavesWorkers
    <2> QED BY <1>1, <1>2, <2>1, <2>2 DEF GoForward
<1>4. ASSUME NEW w \in Workers, Work(w) PROVE StartedOnce' /\ GoForward
    <2>1. /\ UNCHANGED <<job, del>> /\ \A x \in Workers : x # w => worker'[x] = worker[x]
          /\ worker[w].pc # "off" /\ worker'[w].pc # "off"
        BY <1>4, WorkGoesForward
    <2>2. \A i \in Jobs : JobRank(i)' = JobRank(i)
        BY <2>1 DEF JobRank
    <2>3. \A x \in Workers : x # w => WorkerRank(x)' = WorkerRank(x)
        BY <2>1 DEF WorkerRank
    <2>4. \A x \in Workers : WorkerRank(x)' <= WorkerRank(x)
        BY <1>1, <1>2, <1>4, <2>3
    <2>5. StartedOnce'
        BY <2>1 DEF StartedOnce
    <2>6. \A i \in Jobs : JobRank(i)' <= JobRank(i)
        BY <1>1, <2>2
    <2> QED BY <1>1, <1>2, <2>4, <2>5, <2>6 DEF GoForward
<1>5. CASE UNCHANGED vars
    BY <1>5 DEF vars, table, StartedOnce
<1> QED BY <1>3, <1>4, <1>5 DEF Next, AllFinished

LEMMA StartedOnceInit == Init => StartedOnce
<1> SUFFICES ASSUME Init PROVE StartedOnce
    OBVIOUS
<1>1. \A w \in Workers : worker[w].pc = "off"
    BY DEF Init, NoWorker
<1>2. \A w \in Workers : job[w[1]].pc = "idle"
    BY DEF Init, Workers
<1> QED BY <1>1, <1>2 DEF StartedOnce

(* No task goes round: each of its DELETEs, calls and phases brings it or  *)
(* one of its workers nearer to the end, and no task puts another back,    *)
(* whatever requests are served at the same time.                          *)
THEOREM TasksGoForward == Spec => [][GoForward]_vars
<1>1. Spec => [](NodeTypes /\ StartedOnce)
    BY NodeTypesInit, NodeTypesStep, StartedOnceInit, StepGoesForward, PTL DEF Spec
<1> QED BY <1>1, StepGoesForward, PTL DEF Spec

(* Where a task that works may go on: its end, the write half of the POST  *)
(* or PUT that holds the mutex, which has no guard, or with the mutex free *)
(* the next call of a worker, for which a map can be made.                 *)
SomeoneGoesOn ==
    \A j \in Jobs : job[j].pc = "work" =>
        \/ \A h \in job[j].req.work : worker[<<j, h>>].pc = "done"
        \/ mutex \in Workers /\ worker[mutex].pc \in Holding
        \/ /\ mutex = Nobody /\ FreshRef \in Refs
           /\ \E h \in job[j].req.work : worker[<<j, h>>].pc \in {"post", "put"}

(* No task waits in vain: the mutex is never left locked, and a task whose *)
(* workers are not all done has one that is at a call or in its critical   *)
(* section (NodesJoin waits for each of them with a WaitGroup).            *)
THEOREM NoTaskIsStuck == Spec => []SomeoneGoesOn
<1>1. Spec => [](NodeTypes /\ StartedOnce)
    BY NodeTypesInit, NodeTypesStep, StartedOnceInit, StepGoesForward, PTL DEF Spec
<1>2. NodeTypes /\ StartedOnce => SomeoneGoesOn
    <2> SUFFICES ASSUME NodeTypes, StartedOnce PROVE SomeoneGoesOn
        OBVIOUS
    <2>1. mutex = Nobody \/ (mutex \in Workers /\ worker[mutex].pc \in Holding)
        BY DEF NodeTypes, TableTypes, WorkerTypes
    <2> SUFFICES ASSUME NEW j \in Jobs, job[j].pc = "work", mutex = Nobody,
                        NEW h \in job[j].req.work, worker[<<j, h>>].pc # "done"
                 PROVE  FreshRef \in Refs /\ worker[<<j, h>>].pc \in {"post", "put"}
        BY <2>1 DEF SomeoneGoesOn
    <2>2. FreshRef \in Refs
        BY FreshExists
    <2>3. <<j, h>> \in Workers
        BY RequestType DEF NodeTypes, JobTypes, Workers
    <2>4. worker[<<j, h>>].pc \notin Holding /\ worker[<<j, h>>] \in WorkerRecords
        BY <2>3, NobodyAssumption DEF NodeTypes, WorkerTypes, Workers
    <2>5. worker[<<j, h>>].pc # "off"
        BY <2>3 DEF StartedOnce
    <2> QED BY <2>2, <2>4, <2>5 DEF WorkerRecords
<1> QED BY <1>1, <1>2, PTL
=============================================================================
