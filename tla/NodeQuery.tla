----------------------------- MODULE NodeQuery ------------------------------
(***************************************************************************)
(* The progress table of the hosts: apiserver/nodequery/nodequery.go, the  *)
(* create handler that cleans it before it starts a job                    *)
(* (createcluster.go, execStepOperation) and the workers of a job that     *)
(* fill it over HTTP (cluster.go, newNodeScheduler, updateNodeScheduler).  *)
(*                                                                         *)
(* AllNodesContextSet maps a host to a Go map, and a Go map is a           *)
(* reference: a handler that has read it goes on with that very object.    *)
(* The objects are the members of Refs, their contents are in heap.        *)
(* POST and PUT hold the mutex; DELETE does not take it, so each of its    *)
(* accesses is a step of its own, and so are the read and the write half   *)
(* of POST and PUT. The Go runtime may also stop the process when two      *)
(* goroutines write one map at once: MapsWrittenAlone says when they do.   *)
(***************************************************************************)
EXTENDS FiniteSets, Integers

CONSTANTS
    Jobs,       \* the tasks started by POST /cluster/create or remove/{step}
    Hosts,      \* the hosts
    Steps,      \* the step names
    Requests,   \* what may be asked for: the step, the hosts to clean, the
                \* hosts to work on and those whose worker opens an entry
    Refs,       \* the inner maps that can be alive at once
    Overlap,    \* TRUE when clients start a task while another one runs
    MaxPuts,    \* bound: updates a worker sends before its last one
    NoState,    \* the empty State of an update
    Nobody      \* no handler holds the mutex

(* A create request cleans its MachineSSHSet, which need not be the hosts  *)
(* its job works on; a remove request cleans nothing and opens no entry.   *)
ASSUME RequestsAssumption ==
    /\ Requests \subseteq [step : Steps, clean : SUBSET Hosts,
                           work : SUBSET Hosts, post : SUBSET Hosts]
    /\ \A q \in Requests : q.post \subseteq q.work
ASSUME OverlapAssumption == Overlap \in BOOLEAN
ASSUME PutsAssumption == MaxPuts \in Nat
ASSUME NobodyAssumption == Nobody \notin Jobs \X Hosts

(* make(map) never runs out: beside a map per host and one in the hands of *)
(* each DELETE there is another.                                           *)
ASSUME RefsAssumption ==
    /\ IsFiniteSet(Jobs) /\ IsFiniteSet(Hosts) /\ IsFiniteSet(Refs)
    /\ Cardinality(Refs) > Cardinality(Hosts) + Cardinality(Jobs)
    /\ Nobody \notin Refs

VARIABLES
    AllNodesContextSet, \* host -> its inner map
    heap,               \* inner map -> step -> nodeContext
    CurrentStep,        \* the step of the last POST
    mutex,              \* the worker whose POST or PUT holds svc.mutex
    job,                \* each job: its phase, request and hosts still to clean
    del,                \* each job: where its DELETE is, for which host and map
    worker,             \* each worker: where it is, its map, updates left,
                        \* the last state it has reported
    recorded            \* history: host and step pairs posted, not cleaned since

table == <<AllNodesContextSet, heap, CurrentStep, mutex>>
vars  == <<table, job, del, worker, recorded>>

Workers == Jobs \X Hosts
States == {"running", "error", "complete"}
NodeContexts == [state : States \cup {NoState}, by : SUBSET Workers]
InnerMaps == UNION {[D -> NodeContexts] : D \in SUBSET Steps}
Empty == [x \in {} |-> x]

Drop(f, x) == [y \in DOMAIN f \ {x} |-> f[y]]
Put(f, x, v) == [y \in DOMAIN f \cup {x} |-> IF y = x THEN v ELSE f[y]]

NoDelete == [pc |-> "none", host |-> Nobody, ref |-> Nobody]
NoWorker == [pc |-> "off", left |-> MaxPuts, ref |-> Nobody, said |-> NoState]
NoRequest == [step |-> "", clean |-> {}, work |-> {}, post |-> {}]

Init ==
    /\ AllNodesContextSet = Empty
    /\ heap = [r \in Refs |-> Empty]
    /\ CurrentStep = ""
    /\ mutex = Nobody
    /\ job = [j \in Jobs |-> [pc |-> "idle", req |-> NoRequest, todo |-> {}]]
    /\ del = [j \in Jobs |-> NoDelete]
    /\ worker = [w \in Workers |-> NoWorker]
    /\ recorded = {}

(* What a client is shown for a host and a step. *)
Shown(h, s) ==
    h \in DOMAIN AllNodesContextSet /\ s \in DOMAIN heap[AllNodesContextSet[h]]

(* make(map): an object nothing refers to. *)
Reachable == {AllNodesContextSet[h] : h \in DOMAIN AllNodesContextSet}
                \cup {del[j].ref : j \in Jobs} \cup {worker[w].ref : w \in Workers}

(* Faulty: the map is made once, when the server is registered. *)
SameRef == CHOOSE r \in Refs : TRUE

FreshRef == CHOOSE r \in Refs : r \notin Reachable

-----------------------------------------------------------------------------
(* A request is served: a create request goes on with the cleaning.        *)
Running(j) == job[j].pc \in {"clean", "work"}

Start(j, q) ==
    /\ job[j].pc = "idle"
    /\ Overlap \/ \A i \in Jobs : ~Running(i)
    /\ job' = [job EXCEPT ![j] = [pc |-> "clean", req |-> q, todo |-> q.clean]]
    /\ UNCHANGED <<table, del, worker, recorded>>

(* DELETE /nodequery/{ip}/{step}, sent by the create handler for each of   *)
(* its hosts, one after the other. No step takes the mutex.                *)
DeleteRead(j, h) ==
    /\ job[j].pc = "clean" /\ h \in job[j].todo /\ del[j] = NoDelete
    /\ recorded' = recorded \ {<<h, job[j].req.step>>}
    /\ \/ /\ h \notin DOMAIN AllNodesContextSet
          /\ job' = [job EXCEPT ![j].todo = @ \ {h}]
          /\ UNCHANGED del
       \/ /\ h \in DOMAIN AllNodesContextSet
          /\ del' = [del EXCEPT ![j] =
                       [pc |-> "delete", host |-> h, ref |-> AllNodesContextSet[h]]]
          /\ UNCHANGED job
    /\ UNCHANGED <<table, worker>>

(* Faulty: the step of the last POST is cleaned, not the given one. *)
DeleteKeyOfLastPost(j) ==
    /\ del[j].pc = "delete"
    /\ heap' = [heap EXCEPT ![del[j].ref] = Drop(@, CurrentStep)]
    /\ del' = [del EXCEPT ![j].pc = "store"]
    /\ UNCHANGED <<AllNodesContextSet, CurrentStep, mutex, job, worker, recorded>>

DeleteKey(j) ==
    /\ del[j].pc = "delete"
    /\ heap' = [heap EXCEPT ![del[j].ref] = Drop(@, job[j].req.step)]
    /\ del' = [del EXCEPT ![j].pc = "store"]
    /\ UNCHANGED <<AllNodesContextSet, CurrentStep, mutex, job, worker, recorded>>

DeleteStore(j) ==
    /\ del[j].pc = "store"
    /\ AllNodesContextSet' = Put(AllNodesContextSet, del[j].host, del[j].ref)
    /\ del' = [del EXCEPT ![j].pc = "check"]
    /\ UNCHANGED <<heap, CurrentStep, mutex, job, worker, recorded>>

DeleteReturns(j) ==
    /\ del' = [del EXCEPT ![j] = NoDelete]
    /\ job' = [job EXCEPT ![j].todo = @ \ {del[j].host}]

(* Faulty: the host is dropped although other steps are left. *)
DeleteCheckNot(j) ==
    /\ del[j].pc = "check"
    /\ del' = [del EXCEPT ![j].pc = "drop"]
    /\ UNCHANGED <<table, job, worker, recorded>>

(* Faulty: a host with other steps left counts as not cleaned yet. *)
DeleteCheckRetries(j) ==
    /\ del[j].pc = "check"
    /\ del' = [del EXCEPT ![j].pc =
                 IF DOMAIN heap[del[j].ref] = {} THEN "drop" ELSE "delete"]
    /\ UNCHANGED <<table, job, worker, recorded>>

(* if len(current) == 0 *)
DeleteCheck(j) ==
    /\ del[j].pc = "check"
    /\ \/ /\ DOMAIN heap[del[j].ref] = {}
          /\ del' = [del EXCEPT ![j].pc = "drop"]
          /\ UNCHANGED job
       \/ /\ DOMAIN heap[del[j].ref] # {}
          /\ DeleteReturns(j)
    /\ UNCHANGED <<table, worker, recorded>>

DeleteDrop(j) ==
    /\ del[j].pc = "drop"
    /\ AllNodesContextSet' = Drop(AllNodesContextSet, del[j].host)
    /\ DeleteReturns(j)
    /\ UNCHANGED <<heap, CurrentStep, mutex, worker, recorded>>

Opens(w) == w[2] \in job[w[1]].req.post

StartWorkers(j) ==
    worker' = [w \in Workers |->
                 IF w \in {j} \X job[j].req.work
                 THEN [NoWorker EXCEPT !.pc = IF Opens(w) THEN "post" ELSE "put"]
                 ELSE worker[w]]

(* Faulty: the handler does not wait for the answers to its DELETEs. *)
LaunchWithoutWaiting(j) ==
    /\ job[j].pc = "clean"
    /\ job' = [job EXCEPT ![j].pc = "work"]
    /\ StartWorkers(j)
    /\ UNCHANGED <<table, del, recorded>>

(* optFunc: the job runs in its own goroutine, one worker per host. *)
Launch(j) ==
    /\ job[j].pc = "clean" /\ job[j].todo = {}
    /\ job' = [job EXCEPT ![j].pc = "work"]
    /\ StartWorkers(j)
    /\ UNCHANGED <<table, del, recorded>>

-----------------------------------------------------------------------------
(* POST /nodequery: newNodeScheduler opens the entry of its step. *)
PostRead(w) ==
    /\ worker[w].pc = "post" /\ mutex = Nobody
    /\ mutex' = w
    /\ \E ref \in Refs :
         /\ IF w[2] \in DOMAIN AllNodesContextSet
               /\ DOMAIN heap[AllNodesContextSet[w[2]]] # {}
            THEN ref = AllNodesContextSet[w[2]] /\ UNCHANGED heap
            ELSE ref = FreshRef /\ heap' = [heap EXCEPT ![ref] = Empty]
         /\ worker' = [worker EXCEPT ![w].pc = "posting", ![w].ref = ref]
    /\ UNCHANGED <<AllNodesContextSet, CurrentStep, job, del, recorded>>

PostBody(w) == [state |-> "running", by |-> {w}]

Posted(w, step, holder) ==
    /\ worker[w].pc = "posting"
    /\ heap' = [heap EXCEPT ![worker[w].ref] = Put(@, job[w[1]].req.step, PostBody(w))]
    /\ CurrentStep' = step
    /\ mutex' = holder
    /\ worker' = [worker EXCEPT ![w].pc = "put", ![w].ref = Nobody,
                                 ![w].said = PostBody(w).state]
    /\ recorded' = recorded \cup {<<w[2], job[w[1]].req.step>>}
    /\ UNCHANGED <<job, del>>

(* Faulty: the handler returns without unlocking. *)
PostWriteKeepsMutex(w) ==
    /\ Posted(w, job[w[1]].req.step, w)
    /\ AllNodesContextSet' = Put(AllNodesContextSet, w[2], worker[w].ref)

(* Faulty: CurrentStep is set by the first POST only. *)
PostWriteKeepsStep(w) ==
    /\ Posted(w, IF CurrentStep = "" THEN job[w[1]].req.step ELSE CurrentStep, Nobody)
    /\ AllNodesContextSet' = Put(AllNodesContextSet, w[2], worker[w].ref)

PostWrite(w) ==
    /\ Posted(w, job[w[1]].req.step, Nobody)
    /\ AllNodesContextSet' = Put(AllNodesContextSet, w[2], worker[w].ref)

(* A step may open its entry once more, as CreateYUMStorage does.          *)
PostAgain(w) ==
    /\ worker[w].pc = "put" /\ worker[w].left > 0 /\ Opens(w)
    /\ worker' = [worker EXCEPT ![w].pc = "post", ![w].left = @ - 1]
    /\ UNCHANGED <<table, job, del, recorded>>

(* PUT /nodequery/{ip}: an update without a step, for the step of the last *)
(* POST. A host that is not in the table is answered with a message.       *)
Sent(w, st) ==
    [worker EXCEPT ![w] = [pc |-> IF @.left = 0 THEN "done" ELSE "put",
                           left |-> IF @.left = 0 THEN 0 ELSE @.left - 1,
                           ref |-> Nobody,
                           said |-> IF st = NoState THEN @.said ELSE st]]

PutRead(w) ==
    /\ worker[w].pc = "put" /\ mutex = Nobody
    /\ \/ /\ w[2] \notin DOMAIN AllNodesContextSet
          /\ worker' = Sent(w, NoState)
          /\ UNCHANGED mutex
       \/ /\ w[2] \in DOMAIN AllNodesContextSet
          /\ mutex' = w
          /\ worker' = [worker EXCEPT ![w].pc = "putting",
                                      ![w].ref = AllNodesContextSet[w[2]]]
    /\ UNCHANGED <<AllNodesContextSet, heap, CurrentStep, job, del, recorded>>

StepState(w) == IF CurrentStep \in DOMAIN heap[worker[w].ref]
                THEN heap[worker[w].ref][CurrentStep]
                ELSE [state |-> NoState, by |-> {}]

Written(w, st, kept) ==
    /\ worker[w].pc = "putting"
    /\ heap' = [heap EXCEPT ![worker[w].ref] =
                  Put(@, CurrentStep,
                      [state |-> IF st = kept THEN StepState(w).state ELSE st,
                       by |-> StepState(w).by \cup {w}])]
    /\ AllNodesContextSet' = Put(AllNodesContextSet, w[2], worker[w].ref)
    /\ mutex' = Nobody
    /\ worker' = Sent(w, st)
    /\ UNCHANGED <<CurrentStep, job, del, recorded>>

(* Faulty: only a new error replaces the state. *)
PutWriteErrorsOnly(w, st) == Written(w, st, "complete")

PutWrite(w, st) == Written(w, st, NoState)

Finish(j) ==
    /\ job[j].pc = "work"
    /\ \A h \in job[j].req.work : worker[<<j, h>>].pc = "done"
    /\ job' = [job EXCEPT ![j].pc = "finished"]
    /\ UNCHANGED <<table, del, worker, recorded>>

AllFinished ==
    /\ \A j \in Jobs : job[j].pc = "finished"
    /\ UNCHANGED vars

Handler(j) ==
    \/ \E h \in Hosts : DeleteRead(j, h)
    \/ DeleteKey(j) \/ DeleteStore(j) \/ DeleteCheck(j) \/ DeleteDrop(j)
    \/ Launch(j) \/ Finish(j)

Work(w) ==
    \/ PostRead(w) \/ PostWrite(w) \/ PostAgain(w) \/ PutRead(w)
    \/ \E st \in States \cup {NoState} : PutWrite(w, st)

Next ==
    \/ \E j \in Jobs : Handler(j) \/ \E q \in Requests : Start(j, q)
    \/ \E w \in Workers : Work(w)
    \/ AllFinished

Spec == Init /\ [][Next]_vars

(* A goroutine that can run does.                                          *)
FairSpec ==
    /\ Spec
    /\ \A j \in Jobs : WF_vars(Handler(j))
    /\ \A w \in Workers : WF_vars(Work(w))

-----------------------------------------------------------------------------
(* The types of the table and of the handlers' local variables. *)
TypeOK ==
    /\ AllNodesContextSet \in UNION {[D -> Refs] : D \in SUBSET Hosts}
    /\ heap \in [Refs -> InnerMaps]
    /\ CurrentStep \in Steps \cup {""}
    /\ mutex \in Workers \cup {Nobody}
    /\ \A j \in Jobs : job[j].todo \subseteq job[j].req.clean
    /\ \A w \in Workers : worker[w].pc \in {"posting", "putting"} <=> mutex = w

(* Cleaning a step of a host takes nothing else away: an entry that was    *)
(* posted is shown until a handler asks to clean that very host and step   *)
(* ("clean the given step of all hosts concerned").                        *)
CleaningKeepsOtherSteps == \A p \in recorded : Shown(p[1], p[2])

(* When a job opens an entry on a host it has cleaned, nothing of an       *)
(* earlier job with its step is left there.                                *)
StartsFromCleanTable ==
    \A w \in Workers :
        LET q == job[w[1]].req IN
        /\ worker[w].pc \in {"post", "posting"} /\ w[2] \in q.clean
        /\ Shown(w[2], q.step)
        => heap[AllNodesContextSet[w[2]]][q.step].by \subseteq {w[1]} \X Hosts

(* An update goes to the step of the job that sent it, although the PUT    *)
(* does not name the step: the output of a worker that has opened an entry *)
(* is found under the step of its job and no other. (The updates of one    *)
(* that has not, as in removals, go to whatever step was opened last.)     *)
UpdatesReachOwnStep ==
    \A h \in Hosts, s \in Steps :
        Shown(h, s) =>
            \A w \in heap[AllNodesContextSet[h]][s].by :
                Opens(w) => job[w[1]].req.step = s

(* Even when tasks overlap, a host's entries hold output of workers of     *)
(* that host only: no two hosts share an inner map.                        *)
OutputStaysOnHost ==
    \A h \in DOMAIN AllNodesContextSet :
        \A s \in DOMAIN heap[AllNodesContextSet[h]] :
            \A w \in heap[AllNodesContextSet[h]][s].by : w[2] = h

(* Even when tasks overlap, every task that was started ends: no handler   *)
(* keeps the mutex and no DELETE waits for its host to be without steps.   *)
TasksEnd == \A j \in Jobs : job[j].pc = "clean" ~> job[j].pc = "finished"

(* What a client sees is the last state reported: an entry only one worker *)
(* has written, the one that opened it, shows the last state that worker   *)
(* gave, whatever updates without a state came after it.                   *)
LastStateIsShown ==
    \A h \in Hosts, s \in Steps, w \in Workers :
        Shown(h, s) /\ heap[AllNodesContextSet[h]][s].by = {w} /\ Opens(w) =>
            heap[AllNodesContextSet[h]][s].state = worker[w].said

(* No two goroutines write a Go map at the same time.                      *)
MapsWrittenAlone ==
    \A j \in Jobs :
        /\ del[j].pc = "delete" =>
             \A w \in Workers : worker[w].pc \in {"posting", "putting"} =>
                                    worker[w].ref # del[j].ref
        /\ del[j].pc \in {"store", "drop"} => mutex = Nobody

(* What a client sees behaves as if every request were served at once: the *)
(* DELETE that takes no mutex hides, in one of its five steps, the entry   *)
(* it was asked to clean and no other, which is gone when it answers, and  *)
(* a PUT adds to an entry or changes nothing.                              *)
View == [h \in Hosts |-> IF h \in DOMAIN AllNodesContextSet
                         THEN heap[AllNodesContextSet[h]] ELSE Empty]

Asked == {<<del[j].host, job[j].req.step>> : j \in {i \in Jobs : del[i].pc # "none"}}

Store == INSTANCE NodeStore WITH shown <- View, last <- CurrentStep, asked <- Asked

ImplementsNodeStore == Store!Spec
=============================================================================
