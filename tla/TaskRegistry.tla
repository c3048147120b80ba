---------------------------- MODULE TaskRegistry ----------------------------
(***************************************************************************)
(* The task registry of the kubeinstall server: the session ids            *)
(* (session/session.go), the task contexts (state/state.go), the map from  *)
(* install steps to session ids (cluster/module.go), the two files that    *)
(* keep the last two (runconf/runconf.go), and the HTTP handlers that use  *)
(* them: POST /cluster/create/{step}, POST /cluster/remove/{step} and      *)
(* DELETE /taskquery[/{sessionID}].                                        *)
(*                                                                         *)
(* A request is one goroutine of the HTTP server; a create or remove       *)
(* request goes on as the goroutine of the job it spawns. The two mutexes  *)
(* of the code are variables: a critical section that rewrites a file is   *)
(* two steps (change memory and os.Remove, then WriteFile and Unlock), so  *)
(* that a crash can fall between them. A crash between the change of       *)
(* memory and os.Remove is a crash before the first step: the mutex hides  *)
(* the change, and the file is still the old one.                          *)
(***************************************************************************)
EXTENDS Integers

CONSTANTS
    Requests,       \* the HTTP requests of a behaviour, each served once
    IDs,            \* the session ids the server can reach
    Steps,          \* the steps that can be created
    RemoveSteps,    \* those that can be removed
    InitSteps,      \* the steps in the initial SessionIDMap
    QueryIDs,       \* the ids clients put in DELETE /taskquery/{sessionID}
    States,         \* the values a job gives to Context.State
    Running,        \* state.Running, the state a new task starts with
    MaxUpdates,     \* bound: state.Update calls of one job
    MaxBoots,       \* bound: runs of the server process
    Nobody,         \* no request holds the mutex
    NoFile          \* the file is missing or cannot be parsed

InvaildSessionID == -1

ASSUME IDsAssumption == IDs \subseteq Nat
ASSUME StepsAssumption == InitSteps \subseteq Steps /\ RemoveSteps \subseteq Steps
ASSUME QueryAssumption == QueryIDs \subseteq Int
ASSUME StatesAssumption == Running \in States
ASSUME BoundsAssumption == MaxUpdates \in Nat /\ MaxBoots \in Nat \ {0}
ASSUME NobodyAssumption == Nobody \notin Requests

VARIABLES
    sessionIDSet,   \* session.globalSession.sessionIDSet
    ContextSet,     \* state.globalTasks.ContextSet
    SessionIDMap,   \* cluster.modules.SessionIDMap
    taskMutex,      \* the holder of state.globalTasks.mutex
    modulesMutex,   \* the holder of cluster.modules.mutex
    taskFile,       \* task-context.json
    moduleFile,     \* module-sessionid-map.json
    pc,             \* where each request is in its handler or its job
    call,           \* what each request asks for
    sid,            \* the session id of each create or remove request
    answer,         \* what the client of each request was told
    left,           \* updates the job of each request may still do
    boot            \* number of the current run of the server

memory == <<sessionIDSet, ContextSet, SessionIDMap>>
locks  == <<taskMutex, modulesMutex>>
files  == <<taskFile, moduleFile>>
vars   == <<memory, locks, files, pc, call, sid, answer, left, boot>>

-----------------------------------------------------------------------------
(* Contexts. The output strings of a context are abstracted to the set of  *)
(* writers that have appended to it: the requests, each with the run of    *)
(* the server in which it wrote.                                           *)
Writers == (1..MaxBoots) \X Requests
Entries == [state : States, by : SUBSET Writers]
Empty == [i \in {} |-> {}]

Calls == [op : {"create"}, step : Steps] \cup [op : {"remove"}, step : RemoveSteps]
           \cup [op : {"delete"}, id : QueryIDs]
           \cup [op : {"deleteAll"}]

Starts(r) == call[r].op \in {"create", "remove"}

ContextTables == UNION {[D -> Entries] : D \in SUBSET IDs}
ModuleTables == UNION {[D -> IDs \cup {InvaildSessionID}] : D \in SUBSET Steps}

(* What Read finds after a restart: the file, or the initial table. *)
RecoveredContexts == IF taskFile = NoFile THEN Empty ELSE taskFile
RecoveredModules == IF moduleFile = NoFile
                    THEN [s \in InitSteps |-> InvaildSessionID]
                    ELSE moduleFile

Init ==
    /\ sessionIDSet = {}
    /\ ContextSet = Empty
    /\ SessionIDMap = [s \in InitSteps |-> InvaildSessionID]
    /\ taskMutex = Nobody /\ modulesMutex = Nobody
    /\ taskFile = NoFile /\ moduleFile = NoFile
    /\ pc = [r \in Requests |-> "idle"]
    /\ call = [r \in Requests |-> [op |-> "deleteAll"]]
    /\ sid = [r \in Requests |-> InvaildSessionID]
    /\ answer = [r \in Requests |-> "none"]
    /\ left = [r \in Requests |-> MaxUpdates]
    /\ boot = 1

Goto(r, label) == pc' = [pc EXCEPT ![r] = label]

-----------------------------------------------------------------------------
(* Requests arrive. A body that does not parse or a step without a         *)
(* callback is refused before anything is allocated.                       *)
ArriveStep(r, op, s) ==
    /\ pc[r] = "idle"
    /\ call' = [call EXCEPT ![r] = [op |-> op, step |-> s]]
    /\ Goto(r, "alloc")
    /\ UNCHANGED <<memory, locks, files, sid, answer, left, boot>>

RefuseStep(r) ==
    /\ pc[r] = "idle"
    /\ Goto(r, "done")
    /\ answer' = [answer EXCEPT ![r] = "refused"]
    /\ UNCHANGED <<memory, locks, files, call, sid, left, boot>>

ArriveDelete(r, id) ==
    /\ pc[r] = "idle"
    /\ call' = [call EXCEPT ![r] = [op |-> "delete", id |-> id]]
    /\ Goto(r, "context")
    /\ UNCHANGED <<memory, locks, files, sid, answer, left, boot>>

ArriveDeleteAll(r) ==
    /\ pc[r] = "idle"
    /\ call' = [call EXCEPT ![r] = [op |-> "deleteAll"]]
    /\ Goto(r, "context")
    /\ UNCHANGED <<memory, locks, files, sid, answer, left, boot>>

(* Faulty: the search starts at InvaildSessionID instead of 0. *)
AllocFromInvalid(r) ==
    /\ pc[r] = "alloc"
    /\ \E id \in (IDs \cup {InvaildSessionID}) \ sessionIDSet :
         /\ \A j \in IDs \cup {InvaildSessionID} : j < id => j \in sessionIDSet
         /\ sessionIDSet' = sessionIDSet \cup {id}
         /\ sid' = [sid EXCEPT ![r] = id]
    /\ Goto(r, "modules")
    /\ UNCHANGED <<ContextSet, SessionIDMap, locks, files, call, answer, left, boot>>

(* session.Alloc: the first id that is not in the set. *)
Alloc(r) ==
    /\ pc[r] = "alloc"
    /\ \E id \in IDs \ sessionIDSet :
         /\ \A j \in IDs : j < id => j \in sessionIDSet
         /\ sessionIDSet' = sessionIDSet \cup {id}
         /\ sid' = [sid EXCEPT ![r] = id]
    /\ Goto(r, "modules")
    /\ UNCHANGED <<ContextSet, SessionIDMap, locks, files, call, answer, left, boot>>

-----------------------------------------------------------------------------
(* The critical sections of cluster/module.go. Each locks modulesMutex,    *)
(* changes the map and removes the file; WriteModules ends it.             *)
LockModules(r) ==
    /\ modulesMutex = Nobody
    /\ modulesMutex' = r
    /\ moduleFile' = NoFile
    /\ Goto(r, "modulesWrite")

UpdateModules(r) ==
    /\ pc[r] = "modules" /\ Starts(r)
    /\ LockModules(r)
    /\ SessionIDMap' = [s \in DOMAIN SessionIDMap \cup {call[r].step} |->
                          IF s = call[r].step THEN sid[r] ELSE SessionIDMap[s]]
    /\ UNCHANGED <<sessionIDSet, ContextSet, taskMutex, taskFile, call, sid,
                   answer, left, boot>>

(* Faulty: the reset of the step is not written to the file. *)
DeleteModuleUnsaved(r) ==
    /\ pc[r] = "modules" /\ call[r].op = "delete"
    /\ modulesMutex = Nobody /\ modulesMutex' = r
    /\ \E s \in DOMAIN SessionIDMap :
         /\ SessionIDMap[s] = call[r].id
         /\ SessionIDMap' = [SessionIDMap EXCEPT ![s] = InvaildSessionID]
    /\ Goto(r, "modulesWrite")
    /\ UNCHANGED <<sessionIDSet, ContextSet, taskMutex, files, call, sid,
                   answer, left, boot>>

(* Resets one step that maps to the id; the map is ranged over in an       *)
(* unspecified order, and without such a step the file is left alone.      *)
DeleteModuleSessionID(r) ==
    /\ pc[r] = "modules" /\ call[r].op = "delete"
    /\ \E s \in DOMAIN SessionIDMap :
         /\ SessionIDMap[s] = call[r].id
         /\ SessionIDMap' = [SessionIDMap EXCEPT ![s] = InvaildSessionID]
    /\ LockModules(r)
    /\ UNCHANGED <<sessionIDSet, ContextSet, taskMutex, taskFile, call, sid,
                   answer, left, boot>>

(* Faulty: the loop returns at the first step that does not match. *)
DeleteModuleFirstOnly(r) ==
    /\ pc[r] = "modules" /\ call[r].op = "delete"
    /\ modulesMutex = Nobody
    /\ Goto(r, "done")
    /\ answer' = [answer EXCEPT ![r] = "done"]
    /\ UNCHANGED <<memory, locks, files, call, sid, left, boot>>

DeleteModuleNotFound(r) ==
    /\ pc[r] = "modules" /\ call[r].op = "delete"
    /\ modulesMutex = Nobody
    /\ \A s \in DOMAIN SessionIDMap : SessionIDMap[s] # call[r].id
    /\ Goto(r, "done")
    /\ answer' = [answer EXCEPT ![r] = "done"]
    /\ UNCHANGED <<memory, locks, files, call, sid, left, boot>>

DeleteAllModuleSessionID(r) ==
    /\ pc[r] = "modules" /\ call[r].op = "deleteAll"
    /\ LockModules(r)
    /\ SessionIDMap' = [s \in DOMAIN SessionIDMap |-> InvaildSessionID]
    /\ UNCHANGED <<sessionIDSet, ContextSet, taskMutex, taskFile, call, sid,
                   answer, left, boot>>

(* WriteFile and Unlock. The error of WriteFile is dropped by every        *)
(* caller: the file may stay missing.                                      *)
WriteModules(r) ==
    /\ pc[r] = "modulesWrite"
    /\ moduleFile' \in {SessionIDMap, NoFile}
    /\ modulesMutex' = Nobody
    /\ IF Starts(r)
       THEN Goto(r, "context") /\ UNCHANGED answer
       ELSE Goto(r, "done") /\ answer' = [answer EXCEPT ![r] = "done"]
    /\ UNCHANGED <<memory, taskMutex, taskFile, call, sid, left, boot>>

-----------------------------------------------------------------------------
(* The critical sections of state/state.go, in the same two parts.         *)
(* Faulty: the old file is left in place until the new one is written. *)
LockTasksKeepFile(r, label) ==
    /\ taskMutex = Nobody
    /\ taskMutex' = r
    /\ UNCHANGED taskFile
    /\ Goto(r, label)

LockTasks(r, label) ==
    /\ taskMutex = Nobody
    /\ taskMutex' = r
    /\ taskFile' = NoFile
    /\ Goto(r, label)

(* state.Update: output is appended, the state replaced. *)
Update(r, st) ==
    LET id == sid[r]
        old == IF id \in DOMAIN ContextSet THEN ContextSet[id].by ELSE {}
    IN  ContextSet' = [i \in DOMAIN ContextSet \cup {id} |->
                         IF i = id
                         THEN [state |-> st, by |-> old \cup {<<boot, r>>}]
                         ELSE ContextSet[i]]

StartTask(r) ==
    /\ pc[r] = "context" /\ Starts(r)
    /\ LockTasks(r, "contextWrite")
    /\ Update(r, Running)
    /\ UNCHANGED <<sessionIDSet, SessionIDMap, modulesMutex, moduleFile, call,
                   sid, answer, left, boot>>

(* Faulty: deleting a task also frees its session id. *)
DeleteFreesSession(r) ==
    /\ pc[r] = "context" /\ call[r].op = "delete"
    /\ LockTasks(r, "contextWrite")
    /\ ContextSet' = [i \in DOMAIN ContextSet \ {call[r].id} |-> ContextSet[i]]
    /\ sessionIDSet' = sessionIDSet \ {call[r].id}
    /\ UNCHANGED <<SessionIDMap, modulesMutex, moduleFile, call, sid, answer,
                   left, boot>>

Delete(r) ==
    /\ pc[r] = "context" /\ call[r].op = "delete"
    /\ LockTasks(r, "contextWrite")
    /\ ContextSet' = [i \in DOMAIN ContextSet \ {call[r].id} |-> ContextSet[i]]
    /\ UNCHANGED <<sessionIDSet, SessionIDMap, modulesMutex, moduleFile, call,
                   sid, answer, left, boot>>

DeleteAll(r) ==
    /\ pc[r] = "context" /\ call[r].op = "deleteAll"
    /\ LockTasks(r, "contextWrite")
    /\ ContextSet' = Empty
    /\ UNCHANGED <<sessionIDSet, SessionIDMap, modulesMutex, moduleFile, call,
                   sid, answer, left, boot>>

(* Faulty: a failed WriteFile is retried for ever, the section entered     *)
(* again each time.                                                        *)
WriteTasksRetries(r) ==
    /\ pc[r] \in {"contextWrite", "jobWrite"}
    /\ taskFile' \in {ContextSet, NoFile}
    /\ taskMutex' = Nobody
    /\ Goto(r, IF taskFile' = NoFile THEN "context"
               ELSE IF Starts(r) THEN "job" ELSE "modules")
    /\ UNCHANGED <<memory, modulesMutex, moduleFile, call, sid, answer, left, boot>>

(* Ends the section: a started task becomes a job, a delete request goes   *)
(* on with the modules, a job goes on.                                     *)
WriteTasks(r) ==
    /\ pc[r] \in {"contextWrite", "jobWrite"}
    /\ taskFile' \in {ContextSet, NoFile}
    /\ taskMutex' = Nobody
    /\ Goto(r, IF Starts(r) THEN "job" ELSE "modules")
    /\ UNCHANGED <<memory, modulesMutex, moduleFile, call, sid, answer, left, boot>>

-----------------------------------------------------------------------------
(* The job goroutine: any number of updates, in any states, then its end.  *)
JobUpdate(r, st) ==
    /\ pc[r] = "job" /\ left[r] > 0
    /\ LockTasks(r, "jobWrite")
    /\ Update(r, st)
    /\ left' = [left EXCEPT ![r] = @ - 1]
    /\ UNCHANGED <<sessionIDSet, SessionIDMap, modulesMutex, moduleFile, call,
                   sid, answer, boot>>

JobEnd(r) ==
    /\ pc[r] = "job"
    /\ Goto(r, "done")
    /\ UNCHANGED <<memory, locks, files, call, sid, answer, left, boot>>

(* Faulty: the reply is sent as soon as the id is allocated. *)
ReplyEarly(r) ==
    /\ pc[r] \in {"context", "contextWrite", "job", "jobWrite", "done"}
    /\ Starts(r) /\ answer[r] = "none"
    /\ answer' = [answer EXCEPT ![r] =
                    IF call[r].op = "create" THEN "ticket" ELSE "nothing"]
    /\ UNCHANGED <<memory, locks, files, pc, call, sid, left, boot>>

(* The handler returns once it has spawned the job, which may be over by   *)
(* then. The create handler writes the session id; the remove handler      *)
(* builds the same response and returns without writing it.                *)
Reply(r) ==
    /\ pc[r] \in {"job", "jobWrite", "done"} /\ answer[r] = "none"
    /\ answer' = [answer EXCEPT ![r] =
                    IF call[r].op = "create" THEN "ticket" ELSE "nothing"]
    /\ UNCHANGED <<memory, locks, files, pc, call, sid, left, boot>>

-----------------------------------------------------------------------------
(* The process dies and is started again: requests and jobs are gone,      *)
(* session.Init, state.Init and initMoulesInfo rebuild the memory.         *)
Restart ==
    /\ boot < MaxBoots
    /\ boot' = boot + 1
    /\ sessionIDSet' = {}
    /\ ContextSet' = RecoveredContexts
    /\ SessionIDMap' = RecoveredModules
    /\ taskMutex' = Nobody /\ modulesMutex' = Nobody
    /\ pc' = [r \in Requests |-> IF pc[r] = "idle" THEN "idle" ELSE "dead"]
    /\ UNCHANGED <<files, call, sid, answer, left>>

(* Every request has been served: the server waits for more. *)
Finished ==
    /\ \A r \in Requests : pc[r] = "dead" \/ (pc[r] = "done" /\ answer[r] # "none")
    /\ UNCHANGED vars

(* The steps a request takes by itself once it has arrived. *)
Handle(r) ==
    \/ Alloc(r)
    \/ UpdateModules(r)
    \/ DeleteModuleSessionID(r)
    \/ DeleteModuleNotFound(r)
    \/ DeleteAllModuleSessionID(r)
    \/ WriteModules(r)
    \/ StartTask(r)
    \/ Delete(r)
    \/ DeleteAll(r)
    \/ WriteTasks(r)

Arrive(r) ==
    \/ \E s \in Steps : ArriveStep(r, "create", s)
    \/ \E s \in RemoveSteps : ArriveStep(r, "remove", s)
    \/ \E id \in QueryIDs : ArriveDelete(r, id)
    \/ ArriveDeleteAll(r)
    \/ RefuseStep(r)

Next ==
    \/ \E r \in Requests : Arrive(r)
    \/ \E r \in Requests : Handle(r) \/ Reply(r)
    \/ \E r \in Requests, st \in States : JobUpdate(r, st)
    \/ \E r \in Requests : JobEnd(r)
    \/ Restart
    \/ Finished

Spec == Init /\ [][Next]_vars

(* The Go scheduler runs every runnable goroutine and the mutexes are      *)
(* starvation free; clients, jobs and crashes owe nothing.                 *)
FairSpec == Spec /\ \A r \in Requests : WF_vars(Handle(r)) /\ WF_vars(Reply(r))
-----------------------------------------------------------------------------
(* Properties.                                                             *)

Labels == {"idle", "alloc", "modules", "modulesWrite", "context",
           "contextWrite", "job", "jobWrite", "done", "dead"}

(* Type invariant of the registry's tables, files, mutexes and requests. *)
TypeOK ==
    /\ sessionIDSet \in SUBSET IDs
    /\ ContextSet \in ContextTables
    /\ SessionIDMap \in ModuleTables
    /\ taskMutex \in Requests \cup {Nobody}
    /\ modulesMutex \in Requests \cup {Nobody}
    /\ taskFile \in ContextTables \cup {NoFile}
    /\ moduleFile \in ModuleTables \cup {NoFile}
    /\ pc \in [Requests -> Labels]
    /\ call \in [Requests -> Calls]
    /\ sid \in [Requests -> IDs \cup {InvaildSessionID}]
    /\ answer \in [Requests -> {"none", "ticket", "nothing", "done", "refused"}]
    /\ left \in [Requests -> 0..MaxUpdates]
    /\ boot \in 1..MaxBoots

(* The requests of this run of the server that were given a session id. *)
Holds(r) == pc[r] # "dead" /\ sid[r] # InvaildSessionID

(* session.Alloc never gives the id of one task of this run of the server  *)
(* to another, whatever was deleted in between.                            *)
TicketsUnique ==
    \A r, q \in Requests : Holds(r) /\ Holds(q) /\ sid[r] = sid[q] => r = q

(* Within a run of the server, everything that state.Update appended to    *)
(* one context comes from one task, also after a delete of the context     *)
(* and a late update that brought it back.                                 *)
OutputUnmixed ==
    \A i \in DOMAIN ContextSet : \A v, w \in ContextSet[i].by :
        v[1] = w[1] => v = w

(* "The context of a task's execution": one task's, over all runs of the   *)
(* server, since contexts are recovered and ids are started anew.          *)
ContextsOfOneTask ==
    \A i \in DOMAIN ContextSet : \A v, w \in ContextSet[i].by : v = w

(* A file runconf.Write left on disk is never a stale one: it is missing   *)
(* (or torn), or it is what memory holds, in every reachable state.        *)
FilesNeverStale ==
    /\ taskFile \in {NoFile, ContextSet}
    /\ moduleFile \in {NoFile, SessionIDMap}

(* When no handler is under way, a step of the map whose id was issued in  *)
(* the first run of the server points to a context a client can query:     *)
(* the deletes of taskquery drop the context first and the step after it,  *)
(* the create handler makes the step entry first.                          *)
Quiet == \A r \in Requests :
            pc[r] \in {"idle", "job", "jobWrite", "done", "dead"}

MappedStepHasContext ==
    boot = 1 /\ Quiet =>
        \A s \in DOMAIN SessionIDMap :
            SessionIDMap[s] \in DOMAIN ContextSet \cup {InvaildSessionID}

(* A client that was told a session id finds the task's own context under  *)
(* it, unless some client has asked to delete that task or all tasks.      *)
DeleteAsked(id) ==
    \E q \in Requests :
        /\ pc[q] # "idle"
        /\ \/ call[q].op = "deleteAll" /\ answer[q] # "refused"
           \/ call[q].op = "delete" /\ call[q].id = id

AnsweredTaskIsKnown ==
    \A r \in Requests :
        answer[r] = "ticket" /\ pc[r] # "dead" /\ ~DeleteAsked(sid[r]) =>
            /\ sid[r] \in DOMAIN ContextSet
            /\ <<boot, r>> \in ContextSet[sid[r]].by

(* Every request that arrives is answered, unless the process dies: no     *)
(* handler waits for a mutex for ever.                                     *)
RequestsAnswered ==
    \A r \in Requests :
        pc[r] # "idle" ~> (answer[r] # "none" \/ pc[r] = "dead")

(* The registry implements the task store: its steps are the store's or    *)
(* change nothing a client can see, and a restart is all or nothing.       *)
Store == INSTANCE TaskStore WITH issued <- sessionIDSet, store <- ContextSet

ImplementsTaskStore == Store!Spec
=============================================================================
