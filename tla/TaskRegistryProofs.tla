------------------------- MODULE TaskRegistryProofs -------------------------
(***************************************************************************)
(* Theorems about TaskRegistry, for every set of requests, ids, steps and  *)
(* states: type correctness, the ownership of session ids and contexts,    *)
(* the agreement of memory and files, the refinement of TaskStore, and the *)
(* progress of handlers: mutexes come free, and no request goes round.     *)
(***************************************************************************)
EXTENDS TaskRegistry, TLAPS

(* Partial functions from S to T, in the form the provers can use.         *)
LEMMA TableElim ==
    ASSUME NEW S, NEW T, NEW f \in UNION {[D -> T] : D \in SUBSET S}
    PROVE  /\ DOMAIN f \in SUBSET S
           /\ f \in [DOMAIN f -> T]
<1>1. PICK D \in SUBSET S : f \in [D -> T]
    OBVIOUS
<1> QED BY <1>1

LEMMA TableIntro ==
    ASSUME NEW S, NEW T, NEW D \in SUBSET S, NEW f \in [D -> T]
    PROVE  f \in UNION {[E -> T] : E \in SUBSET S}
OBVIOUS

(* Who is where: a request has a session id exactly when Alloc gave it one *)
(* in this run of the server, and the id is in the session set.            *)
TicketInv ==
    \A r \in Requests :
        /\ pc[r] \in {"idle", "alloc"} => sid[r] = InvaildSessionID
        /\ pc[r] \in {"alloc", "job", "jobWrite"} => Starts(r)
        /\ pc[r] \notin {"idle", "alloc", "done", "dead"} /\ Starts(r) => Holds(r)
        /\ Holds(r) => sid[r] \in sessionIDSet

(* What a context says of this run of the server was written by the        *)
(* request that holds its id.                                              *)
OwnerInv ==
    \A i \in DOMAIN ContextSet : \A w \in ContextSet[i].by :
        /\ w[1] <= boot
        /\ w[1] = boot => Holds(w[2]) /\ sid[w[2]] = i

IInv == TypeOK /\ TicketInv /\ TicketsUnique /\ OwnerInv /\ OutputUnmixed
          /\ FilesNeverStale

-----------------------------------------------------------------------------
LEMMA EmptyIsTable == Empty \in ContextTables
<1>1. Empty \in [{} -> Entries]
    BY DEF Empty
<1> QED BY <1>1, TableIntro DEF ContextTables

LEMMA InitModulesIsTable ==
    [s \in InitSteps |-> InvaildSessionID] \in ModuleTables
<1>1. [s \in InitSteps |-> InvaildSessionID] \in [InitSteps -> IDs \cup {InvaildSessionID}]
    OBVIOUS
<1> QED BY <1>1, StepsAssumption, TableIntro DEF ModuleTables

(* state.Update keeps the table of contexts well formed.                   *)
LEMMA UpdateType ==
    ASSUME TypeOK, NEW r \in Requests, NEW st \in States, sid[r] \in IDs,
           Update(r, st)
    PROVE  ContextSet' \in ContextTables
<1>1. /\ DOMAIN ContextSet \in SUBSET IDs
      /\ ContextSet \in [DOMAIN ContextSet -> Entries]
    BY TableElim DEF TypeOK, ContextTables
<1> DEFINE old == IF sid[r] \in DOMAIN ContextSet THEN ContextSet[sid[r]].by ELSE {}
           new == [state |-> st, by |-> old \cup {<<boot, r>>}]
           D == DOMAIN ContextSet \cup {sid[r]}
<1>2. new \in Entries
  <2>1. old \in SUBSET Writers
    BY <1>1 DEF Entries
  <2>2. <<boot, r>> \in Writers
    BY DEF TypeOK, Writers
  <2> QED BY <2>1, <2>2 DEF Entries
<1>3. ContextSet' = [i \in D |-> IF i = sid[r] THEN new ELSE ContextSet[i]]
    BY DEF Update
<1> HIDE DEF new
<1>4. ContextSet' \in [D -> Entries]
    BY <1>1, <1>2, <1>3
<1> QED BY <1>1, <1>4, TableIntro DEF ContextTables

LEMMA DropType ==
    ASSUME TypeOK, NEW gone
    PROVE  [i \in DOMAIN ContextSet \ gone |-> ContextSet[i]] \in ContextTables
<1>1. /\ DOMAIN ContextSet \in SUBSET IDs
      /\ ContextSet \in [DOMAIN ContextSet -> Entries]
    BY TableElim DEF TypeOK, ContextTables
<1>2. [i \in DOMAIN ContextSet \ gone |-> ContextSet[i]]
        \in [DOMAIN ContextSet \ gone -> Entries]
    BY <1>1
<1>3. DOMAIN ContextSet \ gone \in SUBSET IDs
    BY <1>1
<1> QED BY <1>2, <1>3, TableIntro DEF ContextTables

(* UpdateModules and the two deletes keep the map of steps well formed.    *)
LEMMA ModulesType ==
    ASSUME TypeOK, NEW r \in Requests,
           \/ UpdateModules(r) /\ sid[r] \in IDs
           \/ DeleteModuleSessionID(r)
           \/ DeleteAllModuleSessionID(r)
    PROVE  SessionIDMap' \in ModuleTables
<1> DEFINE T == IDs \cup {InvaildSessionID}
<1>1. /\ DOMAIN SessionIDMap \in SUBSET Steps
      /\ SessionIDMap \in [DOMAIN SessionIDMap -> T]
    BY TableElim DEF TypeOK, ModuleTables
<1> SUFFICES \E D \in SUBSET Steps : SessionIDMap' \in [D -> T]
    BY TableIntro DEF ModuleTables
<1>2. CASE UpdateModules(r) /\ sid[r] \in IDs
  <2>1. call[r].step \in Steps
    BY <1>2, StepsAssumption DEF UpdateModules, Starts, TypeOK, Calls
  <2>2. SessionIDMap' \in [DOMAIN SessionIDMap \cup {call[r].step} -> T]
    BY <1>1, <1>2 DEF UpdateModules
  <2> QED BY <1>1, <2>1, <2>2
<1>3. CASE DeleteModuleSessionID(r)
    BY <1>1, <1>3 DEF DeleteModuleSessionID
<1>4. CASE DeleteAllModuleSessionID(r)
    BY <1>1, <1>4 DEF DeleteAllModuleSessionID
<1> QED BY <1>2, <1>3, <1>4

-----------------------------------------------------------------------------
LEMMA TypeInit == Init => TypeOK
<1> SUFFICES ASSUME Init PROVE TypeOK
    OBVIOUS
<1>1. ContextSet \in ContextTables /\ SessionIDMap \in ModuleTables
    BY EmptyIsTable, InitModulesIsTable DEF Init
<1> QED BY <1>1, BoundsAssumption DEF Init, TypeOK, Labels, Calls

(* Every step keeps the types. *)
LEMMA TypeStep == TypeOK /\ TicketInv /\ [Next]_vars => TypeOK'
<1> SUFFICES ASSUME TypeOK, TicketInv, [Next]_vars PROVE TypeOK'
    OBVIOUS
<1> USE DEF vars, memory, locks, files, Goto, LockModules, LockTasks
<1>1. ASSUME NEW r \in Requests, Arrive(r) PROVE TypeOK'
    BY <1>1 DEF Arrive, ArriveStep, ArriveDelete, ArriveDeleteAll, RefuseStep,
                TypeOK, Labels, Calls
<1>2. ASSUME NEW r \in Requests, Alloc(r) PROVE TypeOK'
    BY <1>2 DEF Alloc, TypeOK, Labels
<1>3. ASSUME NEW r \in Requests,
             UpdateModules(r) \/ DeleteModuleSessionID(r) \/ DeleteAllModuleSessionID(r)
      PROVE  TypeOK'
  <2>1. UpdateModules(r) => sid[r] \in IDs
    BY DEF UpdateModules, TicketInv, TypeOK, Holds
  <2>2. SessionIDMap' \in ModuleTables
    BY <1>3, <2>1, ModulesType
  <2> QED BY <1>3, <2>2 DEF UpdateModules, DeleteModuleSessionID,
                            DeleteAllModuleSessionID, TypeOK, Labels
<1>4. ASSUME NEW r \in Requests, DeleteModuleNotFound(r) PROVE TypeOK'
    BY <1>4 DEF DeleteModuleNotFound, TypeOK, Labels
<1>5. ASSUME NEW r \in Requests, WriteModules(r) PROVE TypeOK'
    BY <1>5 DEF WriteModules, TypeOK, Labels
<1>6. ASSUME NEW r \in Requests, StartTask(r) PROVE TypeOK'
  <2>1. sid[r] \in IDs
    BY <1>6 DEF StartTask, TicketInv, TypeOK, Holds
  <2>2. ContextSet' \in ContextTables
    BY <1>6, <2>1, UpdateType, StatesAssumption DEF StartTask
  <2> QED BY <1>6, <2>2 DEF StartTask, TypeOK, Labels
<1>7. ASSUME NEW r \in Requests, Delete(r) \/ DeleteAll(r) PROVE TypeOK'
  <2>1. ContextSet' \in ContextTables
    BY <1>7, DropType, EmptyIsTable DEF Delete, DeleteAll
  <2> QED BY <1>7, <2>1 DEF Delete, DeleteAll, TypeOK, Labels
<1>8. ASSUME NEW r \in Requests, WriteTasks(r) PROVE TypeOK'
    BY <1>8 DEF WriteTasks, TypeOK, Labels
<1>9. ASSUME NEW r \in Requests, NEW st \in States, JobUpdate(r, st) PROVE TypeOK'
  <2>1. sid[r] \in IDs
    BY <1>9 DEF JobUpdate, TicketInv, TypeOK, Holds
  <2>2. ContextSet' \in ContextTables
    BY <1>9, <2>1, UpdateType DEF JobUpdate
  <2>3. left' \in [Requests -> 0..MaxUpdates]
    BY <1>9, BoundsAssumption DEF JobUpdate, TypeOK
  <2> QED BY <1>9, <2>2, <2>3 DEF JobUpdate, TypeOK, Labels
<1>10. ASSUME NEW r \in Requests, JobEnd(r) \/ Reply(r) PROVE TypeOK'
    BY <1>10 DEF JobEnd, Reply, TypeOK, Labels
<1>11. ASSUME Restart PROVE TypeOK'
  <2>1. RecoveredContexts \in ContextTables /\ RecoveredModules \in ModuleTables
    BY EmptyIsTable, InitModulesIsTable
       DEF RecoveredContexts, RecoveredModules, TypeOK
  <2> QED BY <1>11, <2>1, BoundsAssumption DEF Restart, TypeOK, Labels
<1>12. CASE UNCHANGED vars
    BY <1>12 DEF TypeOK
<1> QED BY <1>1, <1>2, <1>3, <1>4, <1>5, <1>6, <1>7, <1>8, <1>9, <1>10, <1>11,
           <1>12 DEF Next, Handle, Finished


(***************************************************************************)
(* TypeOK. Every step preserves it with TicketInv, which supplies that a   *)
(* request that writes a context or a step entry holds an id.              *)
(***************************************************************************)

LEMMA TicketInit == Init => TicketInv /\ TicketsUnique
BY DEF Init, TicketInv, TicketsUnique, Starts, Holds

(* What the steps other than Alloc, Arrive and Restart do to the requests: *)
(* the ids stay, and a request that moves is neither idle nor allocating   *)
(* nor dead before or after.                                               *)
LEMMA Moves ==
    ASSUME NEW r \in Requests, TypeOK, TicketInv,
           \/ UpdateModules(r) \/ DeleteModuleSessionID(r) \/ DeleteModuleNotFound(r)
           \/ DeleteAllModuleSessionID(r) \/ WriteModules(r) \/ StartTask(r)
           \/ Delete(r) \/ DeleteAll(r) \/ WriteTasks(r) \/ JobEnd(r) \/ Reply(r)
           \/ \E st \in States : JobUpdate(r, st)
    PROVE  /\ UNCHANGED <<sessionIDSet, sid, call, boot>>
           /\ pc' \in [Requests -> Labels]
           /\ \A q \in Requests : pc'[q] # pc[q] =>
                 /\ q = r
                 /\ pc[q] \notin {"idle", "alloc", "dead", "done"}
                 /\ pc'[q] \notin {"idle", "alloc", "dead"}
                 /\ pc'[q] \in {"job", "jobWrite"} => Starts(q)
<1> USE DEF TypeOK, Labels, Goto, LockModules, LockTasks, Starts, locks, files, memory
<1>1. CASE UpdateModules(r) \/ DeleteModuleSessionID(r) \/ DeleteModuleNotFound(r)
             \/ DeleteAllModuleSessionID(r)
    BY <1>1 DEF UpdateModules, DeleteModuleSessionID, DeleteModuleNotFound,
                DeleteAllModuleSessionID
<1>2. CASE WriteModules(r) \/ WriteTasks(r)
    BY <1>2 DEF WriteModules, WriteTasks
<1>3. CASE StartTask(r) \/ Delete(r) \/ DeleteAll(r)
    BY <1>3 DEF StartTask, Delete, DeleteAll
<1>4. CASE JobEnd(r) \/ Reply(r) \/ \E st \in States : JobUpdate(r, st)
    BY <1>4 DEF JobEnd, Reply, JobUpdate, TicketInv
<1> QED BY <1>1, <1>2, <1>3, <1>4

LEMMA TicketStep ==
    TypeOK /\ TicketInv /\ TicketsUnique /\ [Next]_vars => (TicketInv /\ TicketsUnique)'
<1> SUFFICES ASSUME TypeOK, TicketInv, TicketsUnique, [Next]_vars
             PROVE  (TicketInv /\ TicketsUnique)'
    OBVIOUS
<1> USE DEF TicketInv, TicketsUnique, Holds, Starts
<1>1. ASSUME NEW r \in Requests, Arrive(r) PROVE (TicketInv /\ TicketsUnique)'
    BY <1>1 DEF Arrive, ArriveStep, ArriveDelete, ArriveDeleteAll, RefuseStep,
                Goto, TypeOK, memory
<1>2. ASSUME NEW r \in Requests, Alloc(r) PROVE (TicketInv /\ TicketsUnique)'
  <2>1. PICK id \in IDs \ sessionIDSet :
          /\ sessionIDSet' = sessionIDSet \cup {id}
          /\ sid' = [sid EXCEPT ![r] = id]
    BY <1>2 DEF Alloc
  <2>2. /\ pc[r] = "alloc" /\ pc' = [pc EXCEPT ![r] = "modules"]
        /\ call' = call
    BY <1>2 DEF Alloc, Goto
  <2>3. TicketInv'
    BY <2>1, <2>2, IDsAssumption DEF TypeOK, InvaildSessionID
  <2>4. \A q \in Requests : Holds(q) => sid[q] # id
    BY <2>1
  <2>5. TicketsUnique'
    BY <2>1, <2>2, <2>4 DEF TypeOK
  <2> QED BY <2>3, <2>5
<1>3. ASSUME NEW r \in Requests, Handle(r) \/ Reply(r) \/ JobEnd(r), ~Alloc(r)
      PROVE  (TicketInv /\ TicketsUnique)'
    BY <1>3, Moves DEF Handle
<1>4. ASSUME NEW r \in Requests, NEW st \in States, JobUpdate(r, st)
      PROVE  (TicketInv /\ TicketsUnique)'
    BY <1>4, Moves
<1>5. CASE Restart
    BY <1>5 DEF Restart, TypeOK
<1>6. CASE UNCHANGED vars
    BY <1>6 DEF vars, memory
<1> QED BY <1>1, <1>2, <1>3, <1>4, <1>5, <1>6 DEF Next, Finished

(* The tables, files and requests of the registry always have their types. *)
THEOREM TypeCorrect == Spec => []TypeOK
<1>1. Init => TypeOK /\ TicketInv /\ TicketsUnique
    BY TypeInit, TicketInit
<1>2. TypeOK /\ TicketInv /\ TicketsUnique /\ [Next]_vars
        => (TypeOK /\ TicketInv /\ TicketsUnique)'
    BY TypeStep, TicketStep
<1> QED BY <1>1, <1>2, PTL DEF Spec

(* session.Alloc hands every task of a run of the server its own id,       *)
(* whatever the clients delete in between.                                 *)
THEOREM TicketsAreUnique == Spec => []TicketsUnique
<1>1. Init => TypeOK /\ TicketInv /\ TicketsUnique
    BY TypeInit, TicketInit
<1>2. TypeOK /\ TicketInv /\ TicketsUnique /\ [Next]_vars
        => (TypeOK /\ TicketInv /\ TicketsUnique)'
    BY TypeStep, TicketStep
<1> QED BY <1>1, <1>2, PTL DEF Spec

(***************************************************************************)
(* The files. A critical section removes the file in the step that changes *)
(* the table, so the invariant is inductive.                               *)
(***************************************************************************)
LEMMA FilesStep == FilesNeverStale /\ [Next]_vars => FilesNeverStale'
<1> SUFFICES ASSUME FilesNeverStale, [Next]_vars PROVE FilesNeverStale'
    OBVIOUS
<1> USE DEF FilesNeverStale, vars, memory, files, locks, LockModules, LockTasks
<1>1. ASSUME NEW r \in Requests, Arrive(r) \/ Alloc(r) \/ DeleteModuleNotFound(r)
                                   \/ Reply(r) \/ JobEnd(r)
      PROVE  FilesNeverStale'
    BY <1>1 DEF Arrive, ArriveStep, ArriveDelete, ArriveDeleteAll, RefuseStep,
                Alloc, DeleteModuleNotFound, Reply, JobEnd
<1>2. ASSUME NEW r \in Requests, UpdateModules(r) \/ DeleteModuleSessionID(r)
                       \/ DeleteAllModuleSessionID(r) \/ WriteModules(r)
      PROVE  FilesNeverStale'
    BY <1>2 DEF UpdateModules, DeleteModuleSessionID, DeleteAllModuleSessionID,
                WriteModules
<1>3. ASSUME NEW r \in Requests, NEW st \in States,
             StartTask(r) \/ Delete(r) \/ DeleteAll(r) \/ WriteTasks(r) \/ JobUpdate(r, st)
      PROVE  FilesNeverStale'
    BY <1>3 DEF StartTask, Delete, DeleteAll, WriteTasks, JobUpdate
<1>4. CASE Restart
    BY <1>4 DEF Restart, RecoveredContexts, RecoveredModules
<1>5. CASE UNCHANGED vars
    BY <1>5
<1> QED BY <1>1, <1>2, <1>3, <1>4, <1>5, StatesAssumption DEF Next, Handle, Finished

(* A file the server wrote is never stale: it is missing or it equals the  *)
(* table in memory, in every state and so at every crash.                  *)
THEOREM FilesAreNeverStale == Spec => []FilesNeverStale
<1>1. Init => FilesNeverStale
    BY DEF Init, FilesNeverStale
<1> QED BY <1>1, FilesStep, PTL DEF Spec

(***************************************************************************)
(* Who wrote into a context. OwnerInv says that an entry of this run of    *)
(* the server belongs to the request that holds the id, of which there is  *)
(* only one; entries of earlier runs came back from the file, where the    *)
(* invariant held too.                                                     *)
(***************************************************************************)
LEMMA OwnerInit == Init => OwnerInv /\ OutputUnmixed
BY DEF Init, OwnerInv, OutputUnmixed, Empty

(* An update by the holder of the id keeps the contexts owned.             *)
LEMMA OwnerUpdate ==
    ASSUME TypeOK, TicketInv, TicketsUnique, OwnerInv, OutputUnmixed,
           NEW r \in Requests, NEW st \in States, Holds(r),
           Update(r, st), UNCHANGED <<sid, boot>>,
           \A q \in Requests : Holds(q) => Holds(q)'
    PROVE  (OwnerInv /\ OutputUnmixed)'
<1> DEFINE id == sid[r]
<1>1. /\ DOMAIN ContextSet' = DOMAIN ContextSet \cup {id}
      /\ \A i \in DOMAIN ContextSet : i # id => ContextSet'[i] = ContextSet[i]
      /\ \A w \in ContextSet'[id].by :
            w = <<boot, r>> \/ (id \in DOMAIN ContextSet /\ w \in ContextSet[id].by)
    BY DEF Update
<1>2. \A i \in DOMAIN ContextSet : \A w \in ContextSet[i].by :
        w[1] \in Nat /\ w[2] \in Requests /\ w = <<w[1], w[2]>>
  <2>1. ContextSet \in [DOMAIN ContextSet -> Entries]
    BY TableElim DEF TypeOK, ContextTables
  <2> QED BY <2>1 DEF Entries, Writers
<1>3. boot \in Nat
    BY DEF TypeOK
<1>4. OwnerInv'
    BY <1>1, <1>2, <1>3 DEF OwnerInv
<1>5. ASSUME NEW i \in DOMAIN ContextSet', NEW v \in ContextSet'[i].by,
             NEW w \in ContextSet'[i].by, v[1] = w[1]
      PROVE  v = w
  <2>1. CASE i # id
    BY <2>1, <1>1, <1>5 DEF OutputUnmixed
  <2>2. CASE i = id /\ v # <<boot, r>> /\ w # <<boot, r>>
    BY <2>2, <1>1, <1>5 DEF OutputUnmixed
  <2>3. ASSUME NEW x \in ContextSet'[id].by, x[1] = boot PROVE x = <<boot, r>>
    <3>1. CASE id \in DOMAIN ContextSet /\ x \in ContextSet[id].by
      <4>1. Holds(x[2]) /\ sid[x[2]] = id
        BY <3>1, <2>3 DEF OwnerInv
      <4>2. x[2] = r
        BY <4>1, <1>2, <3>1 DEF TicketsUnique
      <4> QED BY <4>2, <1>2, <3>1, <2>3
    <3> QED BY <3>1, <1>1
  <2> QED BY <2>1, <2>2, <2>3, <1>5
<1> QED BY <1>4, <1>5 DEF OutputUnmixed

(* Steps that keep or drop contexts and keep every holder.                 *)
LEMMA OwnerKeep ==
    ASSUME OwnerInv, OutputUnmixed, UNCHANGED boot,
           \A i \in DOMAIN ContextSet' :
             i \in DOMAIN ContextSet /\ ContextSet'[i] = ContextSet[i],
           \A i \in DOMAIN ContextSet : \A w \in ContextSet[i].by :
             Holds(w[2]) => Holds(w[2])' /\ sid'[w[2]] = sid[w[2]]
    PROVE  (OwnerInv /\ OutputUnmixed)'
BY DEF OwnerInv, OutputUnmixed

LEMMA OwnerStep ==
    IInv /\ [Next]_vars => (OwnerInv /\ OutputUnmixed)'
<1> SUFFICES ASSUME IInv, [Next]_vars PROVE (OwnerInv /\ OutputUnmixed)'
    OBVIOUS
<1> USE DEF IInv
<1>0. \A i \in DOMAIN ContextSet : \A w \in ContextSet[i].by :
        w[1] \in Nat /\ w[2] \in Requests
  <2>1. ContextSet \in [DOMAIN ContextSet -> Entries]
    BY TableElim DEF TypeOK, ContextTables
  <2> QED BY <2>1 DEF Entries, Writers
<1>1. ASSUME NEW r \in Requests, Arrive(r) \/ Alloc(r)
      PROVE  (OwnerInv /\ OutputUnmixed)'
  <2>1. UNCHANGED <<ContextSet, boot>>
    BY <1>1 DEF Arrive, ArriveStep, ArriveDelete, ArriveDeleteAll, RefuseStep,
                Alloc, memory
  <2>2. \A q \in Requests : Holds(q) => Holds(q)' /\ sid'[q] = sid[q]
    BY <1>1 DEF Arrive, ArriveStep, ArriveDelete, ArriveDeleteAll, RefuseStep,
                Alloc, Goto, Holds, TypeOK, TicketInv
  <2> QED BY <1>0, <2>1, <2>2, OwnerKeep
<1>2. ASSUME NEW r \in Requests,
             \/ UpdateModules(r) \/ DeleteModuleSessionID(r) \/ DeleteModuleNotFound(r)
             \/ DeleteAllModuleSessionID(r) \/ WriteModules(r) \/ WriteTasks(r)
             \/ Reply(r) \/ JobEnd(r)
      PROVE  (OwnerInv /\ OutputUnmixed)'
  <2>1. UNCHANGED <<ContextSet, boot, sid>>
    BY <1>2 DEF UpdateModules, DeleteModuleSessionID, DeleteModuleNotFound,
                DeleteAllModuleSessionID, WriteModules, WriteTasks, Reply,
                JobEnd, memory
  <2>2. \A q \in Requests : Holds(q) => Holds(q)'
    BY <1>2, Moves DEF Holds
  <2> QED BY <1>0, <2>1, <2>2, OwnerKeep
<1>3. ASSUME NEW r \in Requests, Delete(r) \/ DeleteAll(r)
      PROVE  (OwnerInv /\ OutputUnmixed)'
  <2>1. /\ UNCHANGED <<boot, sid>>
        /\ \A i \in DOMAIN ContextSet' :
             i \in DOMAIN ContextSet /\ ContextSet'[i] = ContextSet[i]
    BY <1>3 DEF Delete, DeleteAll, Empty
  <2>2. \A q \in Requests : Holds(q) => Holds(q)'
    BY <1>3, Moves DEF Holds
  <2> QED BY <1>0, <2>1, <2>2, OwnerKeep
<1>4. ASSUME NEW r \in Requests, NEW st \in States,
             (StartTask(r) /\ st = Running) \/ JobUpdate(r, st)
      PROVE  (OwnerInv /\ OutputUnmixed)'
  <2>1. Holds(r) /\ Update(r, st) /\ UNCHANGED <<sid, boot>>
    BY <1>4 DEF StartTask, JobUpdate, TicketInv
  <2>2. \A q \in Requests : Holds(q) => Holds(q)'
    BY <1>4, Moves DEF Holds
  <2> QED BY <2>1, <2>2, OwnerUpdate
<1>5. CASE Restart
  <2>1. ContextSet' \in {ContextSet, Empty}
    BY <1>5 DEF Restart, RecoveredContexts, FilesNeverStale
  <2>2. boot' = boot + 1 /\ boot \in Nat
    BY <1>5 DEF Restart, TypeOK
  <2> QED BY <1>0, <2>1, <2>2 DEF OwnerInv, OutputUnmixed, Empty
<1>6. CASE UNCHANGED vars
    BY <1>6 DEF vars, memory, OwnerInv, OutputUnmixed, Holds
<1> QED BY <1>1, <1>2, <1>3, <1>4, <1>5, <1>6, StatesAssumption
        DEF Next, Handle, Finished

(* The inductive invariant of the registry. *)
THEOREM RegistryInvariant == Spec => []IInv
<1>1. Init => IInv
  <2>1. Init => FilesNeverStale
    BY DEF Init, FilesNeverStale
  <2> QED BY <2>1, TypeInit, TicketInit, OwnerInit DEF IInv
<1>2. IInv /\ [Next]_vars => IInv'
    BY TypeStep, TicketStep, OwnerStep, FilesStep DEF IInv
<1> QED BY <1>1, <1>2, PTL DEF Spec

(* In one run of the server the output of a context comes from one task,   *)
(* however deletes, late updates and restarts interleave.                  *)
THEOREM OutputIsUnmixed == Spec => []OutputUnmixed
<1>1. IInv => OutputUnmixed
    BY DEF IInv
<1> QED BY <1>1, RegistryInvariant, PTL

(***************************************************************************)
(* What a client finds under the id it was told. AnswerInv says where a    *)
(* request is once it is answered; KnownInv that a started task whose      *)
(* delete nobody has asked for has its context from StartTask on, whether  *)
(* its client has been answered or not. A delete once asked for stays so.  *)
(***************************************************************************)
Started == {"contextWrite", "job", "jobWrite", "done"}

AnswerInv ==
    \A r \in Requests :
        /\ pc[r] = "idle" => ~Starts(r)
        /\ answer[r] = "ticket" =>
             Starts(r) /\ pc[r] \in {"job", "jobWrite", "done", "dead"}
        /\ answer[r] = "refused" => pc[r] \in {"done", "dead"}

Known(r) == sid[r] \in DOMAIN ContextSet /\ <<boot, r>> \in ContextSet[sid[r]].by

KnownInv ==
    \A r \in Requests :
        Starts(r) /\ pc[r] \in Started /\ ~DeleteAsked(sid[r]) => Known(r)

LEMMA AnswerStep == TypeOK /\ TicketInv /\ AnswerInv /\ [Next]_vars => AnswerInv'
<1> SUFFICES ASSUME TypeOK, TicketInv, AnswerInv, [Next]_vars PROVE AnswerInv'
    OBVIOUS
<1> USE DEF AnswerInv, TypeOK, Starts, Goto, memory, locks, files
<1>1. ASSUME NEW r \in Requests, Arrive(r) PROVE AnswerInv'
    BY <1>1 DEF Arrive, ArriveStep, ArriveDelete, ArriveDeleteAll, RefuseStep
<1>2. ASSUME NEW r \in Requests,
             \/ Alloc(r) \/ UpdateModules(r) \/ DeleteModuleSessionID(r)
             \/ DeleteModuleNotFound(r) \/ DeleteAllModuleSessionID(r) \/ WriteModules(r)
      PROVE  AnswerInv'
    BY <1>2 DEF Alloc, UpdateModules, DeleteModuleSessionID, DeleteModuleNotFound,
                DeleteAllModuleSessionID, WriteModules, LockModules
<1>3. ASSUME NEW r \in Requests, StartTask(r) \/ Delete(r) \/ DeleteAll(r) \/ WriteTasks(r)
      PROVE  AnswerInv'
    BY <1>3 DEF StartTask, Delete, DeleteAll, WriteTasks, LockTasks
<1>4. ASSUME NEW r \in Requests, NEW st \in States, JobUpdate(r, st) \/ JobEnd(r)
      PROVE  AnswerInv'
    BY <1>4 DEF JobUpdate, JobEnd, LockTasks
<1>5. ASSUME NEW r \in Requests, Reply(r) PROVE AnswerInv'
    BY <1>5 DEF Reply
<1>6. CASE Restart
    BY <1>6 DEF Restart
<1>7. CASE UNCHANGED vars
    BY <1>7 DEF vars
<1> QED BY <1>1, <1>2, <1>3, <1>4, <1>5, <1>6, <1>7, StatesAssumption
        DEF Next, Handle, Finished

(* A request that has arrived keeps its call, and is not refused later. *)
LEMMA CallStays ==
    ASSUME TypeOK, [Next]_vars, NEW q \in Requests, pc[q] # "idle"
    PROVE  /\ pc'[q] # "idle" /\ call'[q] = call[q]
           /\ answer'[q] = "refused" => answer[q] = "refused"
<1> USE DEF TypeOK, Goto, memory, locks, files
<1> DEFINE Stays == /\ pc'[q] # "idle" /\ call'[q] = call[q]
                    /\ answer'[q] = "refused" => answer[q] = "refused"
<1>1. ASSUME NEW r \in Requests, Arrive(r) PROVE Stays
    BY <1>1 DEF Arrive, ArriveStep, ArriveDelete, ArriveDeleteAll, RefuseStep
<1>2. ASSUME NEW r \in Requests,
             \/ Alloc(r) \/ UpdateModules(r) \/ DeleteModuleSessionID(r)
             \/ DeleteModuleNotFound(r) \/ DeleteAllModuleSessionID(r) \/ WriteModules(r)
      PROVE  Stays
    BY <1>2 DEF Alloc, UpdateModules, DeleteModuleSessionID, DeleteModuleNotFound,
                DeleteAllModuleSessionID, WriteModules, LockModules
<1>3. ASSUME NEW r \in Requests, StartTask(r) \/ Delete(r) \/ DeleteAll(r) \/ WriteTasks(r)
      PROVE  Stays
    BY <1>3 DEF StartTask, Delete, DeleteAll, WriteTasks, LockTasks
<1>4. ASSUME NEW r \in Requests, NEW st \in States, JobUpdate(r, st) \/ JobEnd(r)
      PROVE  Stays
    BY <1>4 DEF JobUpdate, JobEnd, LockTasks
<1>5. ASSUME NEW r \in Requests, Reply(r) PROVE Stays
    BY <1>5 DEF Reply
<1>6. CASE Restart
    BY <1>6 DEF Restart
<1>7. CASE UNCHANGED vars
    BY <1>7 DEF vars
<1> QED BY <1>1, <1>2, <1>3, <1>4, <1>5, <1>6, <1>7, StatesAssumption
        DEF Next, Handle, Finished

LEMMA AskedStays ==
    ASSUME TypeOK, [Next]_vars, NEW id, DeleteAsked(id)
    PROVE  DeleteAsked(id)'
<1>1. PICK q \in Requests :
        /\ pc[q] # "idle"
        /\ \/ call[q].op = "deleteAll" /\ answer[q] # "refused"
           \/ call[q].op = "delete" /\ call[q].id = id
    BY DEF DeleteAsked
<1>2. /\ pc'[q] # "idle" /\ call'[q] = call[q]
      /\ answer'[q] = "refused" => answer[q] = "refused"
    BY <1>1, CallStays
<1> QED BY <1>1, <1>2 DEF DeleteAsked

(* A task gets among the started ones by StartTask and in no other way.    *)
LEMMA StartsOnce ==
    ASSUME TypeOK, TicketInv, AnswerInv, [Next]_vars, NEW p \in Requests,
           Starts(p)', pc'[p] \in Started
    PROVE  /\ Starts(p) /\ sid'[p] = sid[p] /\ boot' = boot
           /\ pc[p] \in Started \/ StartTask(p)
<1> USE DEF TypeOK, Goto, memory, locks, files, Starts, Started
<1> DEFINE Goal == /\ Starts(p) /\ sid'[p] = sid[p] /\ boot' = boot
                   /\ pc[p] \in Started \/ StartTask(p)
<1>1. ASSUME NEW r \in Requests, Arrive(r) PROVE Goal
    BY <1>1 DEF Arrive, ArriveStep, ArriveDelete, ArriveDeleteAll, RefuseStep, AnswerInv
<1>2. ASSUME NEW r \in Requests, Alloc(r) PROVE Goal
    BY <1>2 DEF Alloc
<1>3. ASSUME NEW r \in Requests,
             \/ UpdateModules(r) \/ DeleteModuleSessionID(r)
             \/ DeleteModuleNotFound(r) \/ DeleteAllModuleSessionID(r) \/ WriteModules(r)
      PROVE  Goal
    BY <1>3 DEF UpdateModules, DeleteModuleSessionID, DeleteModuleNotFound,
                DeleteAllModuleSessionID, WriteModules, LockModules
<1>4. ASSUME NEW r \in Requests, Delete(r) \/ DeleteAll(r) \/ WriteTasks(r)
      PROVE  Goal
    BY <1>4 DEF Delete, DeleteAll, WriteTasks, LockTasks
<1>5. ASSUME NEW r \in Requests, StartTask(r) PROVE Goal
  <2>1. CASE p = r
    BY <1>5, <2>1 DEF StartTask
  <2>2. CASE p # r
    BY <1>5, <2>2 DEF StartTask, LockTasks
  <2> QED BY <2>1, <2>2
<1>6. ASSUME NEW r \in Requests, NEW st \in States, JobUpdate(r, st) \/ JobEnd(r) \/ Reply(r)
      PROVE  Goal
    BY <1>6 DEF JobUpdate, JobEnd, Reply, LockTasks
<1>7. CASE Restart
    BY <1>7 DEF Restart
<1>8. CASE UNCHANGED vars
    BY <1>8 DEF vars
<1> QED BY <1>1, <1>2, <1>3, <1>4, <1>5, <1>6, <1>7, <1>8, StatesAssumption
        DEF Next, Handle, Finished

(* state.Update drops no context and nothing of what was written to one.   *)
LEMMA UpdateKeeps ==
    ASSUME NEW r, NEW st, Update(r, st)
    PROVE  /\ DOMAIN ContextSet' = DOMAIN ContextSet \cup {sid[r]}
           /\ <<boot, r>> \in ContextSet'[sid[r]].by
           /\ \A i \in DOMAIN ContextSet : ContextSet[i].by \subseteq ContextSet'[i].by
BY DEF Update

LEMMA KnownStep ==
    TypeOK /\ TicketInv /\ AnswerInv /\ KnownInv /\ [Next]_vars => KnownInv'
<1> SUFFICES ASSUME TypeOK, TicketInv, AnswerInv, KnownInv, [Next]_vars,
                    NEW p \in Requests, Starts(p)', pc'[p] \in Started,
                    ~DeleteAsked(sid[p])'
             PROVE  Known(p)'
    BY DEF KnownInv
<1>1. /\ Starts(p) /\ sid'[p] = sid[p] /\ boot' = boot
      /\ pc[p] \in Started \/ StartTask(p)
    BY StartsOnce
<1>2. ~DeleteAsked(sid[p])
  <2>1. PICK id : id = sid[p]
    OBVIOUS
  <2>2. ~(DeleteAsked(id)')
    BY <1>1, <2>1 DEF DeleteAsked
  <2> QED BY <2>1, <2>2, AskedStays
<1>3. CASE StartTask(p)
  <2>1. Update(p, Running)
    BY <1>3 DEF StartTask
  <2> QED BY <2>1, <1>1, UpdateKeeps DEF Known
<1>4. CASE pc[p] \in Started
  <2>1. Known(p)
    BY <1>1, <1>2, <1>4 DEF KnownInv
  <2>2. CASE UNCHANGED ContextSet
    BY <2>1, <2>2, <1>1 DEF Known
  <2>3. ASSUME NEW r \in Requests, NEW st, Update(r, st) PROVE Known(p)'
    BY <2>1, <2>3, <1>1, UpdateKeeps DEF Known
  <2>4. ASSUME NEW r \in Requests, Delete(r) PROVE Known(p)'
    <3>1. call[r].id # sid[p]
      BY <2>4, <1>2 DEF Delete, DeleteAsked
    <3> QED BY <2>1, <2>4, <3>1, <1>1 DEF Delete, Known
  <2>5. ASSUME NEW r \in Requests, DeleteAll(r) PROVE FALSE
    BY <2>5, <1>2 DEF DeleteAll, DeleteAsked, AnswerInv
  <2>6. CASE Restart
    BY <2>6, <1>1 DEF Restart, TypeOK
  <2>7. ASSUME NEW r \in Requests,
               \/ Arrive(r) \/ Alloc(r) \/ UpdateModules(r) \/ DeleteModuleSessionID(r)
               \/ DeleteModuleNotFound(r) \/ DeleteAllModuleSessionID(r)
               \/ WriteModules(r) \/ WriteTasks(r) \/ Reply(r) \/ JobEnd(r)
        PROVE  UNCHANGED ContextSet
    BY <2>7 DEF Arrive, ArriveStep, ArriveDelete, ArriveDeleteAll, RefuseStep, Alloc,
                UpdateModules, DeleteModuleSessionID, DeleteModuleNotFound,
                DeleteAllModuleSessionID, WriteModules, WriteTasks, Reply, JobEnd, memory
  <2>8. ASSUME NEW r \in Requests, NEW st \in States, StartTask(r) \/ JobUpdate(r, st)
        PROVE  Known(p)'
    BY <2>3, <2>8 DEF StartTask, JobUpdate
  <2>9. CASE UNCHANGED vars
    BY <2>9, <2>2 DEF vars, memory
  <2> QED BY <2>2, <2>4, <2>5, <2>6, <2>7, <2>8, <2>9, StatesAssumption
          DEF Next, Handle, Finished
<1> QED BY <1>1, <1>3, <1>4

(* A client that was told an id finds its task under it, until somebody    *)
(* asks for a delete: no late update, restart of another task or answer in *)
(* the wrong order takes the context away.                                 *)
THEOREM AnsweredTasksAreKnown == Spec => []AnsweredTaskIsKnown
<1>1. Init => AnswerInv /\ KnownInv
    BY DEF Init, AnswerInv, KnownInv, Starts, Started
<1>2. AnswerInv /\ KnownInv => AnsweredTaskIsKnown
    BY DEF AnswerInv, KnownInv, AnsweredTaskIsKnown, Known, Started
<1>3. IInv /\ AnswerInv /\ KnownInv /\ [Next]_vars => (AnswerInv /\ KnownInv)'
    BY AnswerStep, KnownStep DEF IInv
<1> QED BY <1>1, <1>2, <1>3, RegistryInvariant, PTL DEF Spec

(***************************************************************************)
(* The steps of the map, in the first run of the server. An entry is made  *)
(* by a request that goes on to start its context (Settling: an entry      *)
(* without a context), and a delete removes the context first and the      *)
(* entry after it (Settling again). That the delete finds the only entry   *)
(* of the id needs that two steps never have the same one: each is Mapped  *)
(* by the request that holds its id, and a request has one step.           *)
(***************************************************************************)
Mapped(r, s, id) ==
    /\ Starts(r) /\ call[r].step = s /\ sid[r] = id
    /\ pc[r] \notin {"idle", "alloc", "modules", "dead"}

Settling(id) ==
    \E r \in Requests :
        \/ Starts(r) /\ sid[r] = id /\ pc[r] \in {"modulesWrite", "context"}
        \/ /\ call[r].op = "deleteAll" \/ (call[r].op = "delete" /\ call[r].id = id)
           /\ pc[r] \in {"contextWrite", "modules"}

Settled(id) == id \in DOMAIN ContextSet \/ Settling(id)

MapInv ==
    boot = 1 =>
        \A s \in DOMAIN SessionIDMap : \A id \in IDs :
            SessionIDMap[s] = id => (\E r \in Requests : Mapped(r, s, id)) /\ Settled(id)

(* No two steps have the same id, so the delete of one resets its step.    *)
LEMMA OneStepPerID ==
    ASSUME IInv, MapInv, boot = 1, NEW id \in IDs,
           NEW s \in DOMAIN SessionIDMap, NEW t \in DOMAIN SessionIDMap,
           SessionIDMap[s] = id, SessionIDMap[t] = id
    PROVE  s = t
<1>1. PICK p \in Requests : Mapped(p, s, id)
    BY DEF MapInv
<1>2. PICK q \in Requests : Mapped(q, t, id)
    BY DEF MapInv
<1>3. Holds(p) /\ Holds(q) /\ sid[p] = sid[q]
    BY <1>1, <1>2, IDsAssumption DEF Mapped, Holds, InvaildSessionID
<1>4. p = q
    BY <1>3 DEF IInv, TicketsUnique
<1> QED BY <1>1, <1>2, <1>4 DEF Mapped

(* A request that has made its entry keeps its id and its step.            *)
LEMMA MappedStays ==
    ASSUME TypeOK, [Next]_vars, boot' = boot, NEW p \in Requests, NEW s, NEW id,
           Mapped(p, s, id)
    PROVE  Mapped(p, s, id)'
<1> USE DEF TypeOK, Goto, memory, locks, files, Starts, Mapped
<1>1. ASSUME NEW r \in Requests, Arrive(r) PROVE Mapped(p, s, id)'
    BY <1>1 DEF Arrive, ArriveStep, ArriveDelete, ArriveDeleteAll, RefuseStep
<1>2. ASSUME NEW r \in Requests, Alloc(r) PROVE Mapped(p, s, id)'
    BY <1>2 DEF Alloc
<1>3. ASSUME NEW r \in Requests,
             \/ UpdateModules(r) \/ DeleteModuleSessionID(r)
             \/ DeleteModuleNotFound(r) \/ DeleteAllModuleSessionID(r) \/ WriteModules(r)
      PROVE  Mapped(p, s, id)'
    BY <1>3 DEF UpdateModules, DeleteModuleSessionID, DeleteModuleNotFound,
                DeleteAllModuleSessionID, WriteModules, LockModules
<1>4. ASSUME NEW r \in Requests, StartTask(r) \/ Delete(r) \/ DeleteAll(r) \/ WriteTasks(r)
      PROVE  Mapped(p, s, id)'
    BY <1>4 DEF StartTask, Delete, DeleteAll, WriteTasks, LockTasks
<1>5. ASSUME NEW r \in Requests, NEW st \in States, JobUpdate(r, st) \/ JobEnd(r) \/ Reply(r)
      PROVE  Mapped(p, s, id)'
    BY <1>5 DEF JobUpdate, JobEnd, Reply, LockTasks
<1>6. CASE Restart
    BY <1>6 DEF Restart
<1>7. CASE UNCHANGED vars
    BY <1>7 DEF vars
<1> QED BY <1>1, <1>2, <1>3, <1>4, <1>5, <1>6, <1>7, StatesAssumption
        DEF Next, Handle, Finished

(* An entry that a step leaves in the map, or UpdateModules has made.      *)
LEMMA EntryBefore ==
    ASSUME IInv, [Next]_vars, boot' = boot, NEW s \in DOMAIN SessionIDMap', NEW id \in IDs,
           SessionIDMap'[s] = id
    PROVE  \/ s \in DOMAIN SessionIDMap /\ SessionIDMap[s] = id
           \/ \E r \in Requests : UpdateModules(r) /\ call[r].step = s /\ sid[r] = id
<1> DEFINE Goal == \/ s \in DOMAIN SessionIDMap /\ SessionIDMap[s] = id
                   \/ \E r \in Requests : UpdateModules(r) /\ call[r].step = s /\ sid[r] = id
<1>1. CASE UNCHANGED SessionIDMap
    BY <1>1
<1>2. ASSUME NEW r \in Requests, UpdateModules(r) PROVE Goal
    BY <1>2 DEF UpdateModules
<1>3. ASSUME NEW r \in Requests, DeleteModuleSessionID(r) PROVE Goal
    BY <1>3, IDsAssumption DEF DeleteModuleSessionID, InvaildSessionID
<1>4. ASSUME NEW r \in Requests, DeleteAllModuleSessionID(r) PROVE Goal
    BY <1>4, IDsAssumption DEF DeleteAllModuleSessionID, InvaildSessionID
<1>5. CASE Restart
    BY <1>5 DEF Restart, IInv, TypeOK
<1>6. ASSUME NEW r \in Requests,
             \/ Arrive(r) \/ Alloc(r) \/ DeleteModuleNotFound(r) \/ WriteModules(r)
             \/ StartTask(r) \/ Delete(r) \/ DeleteAll(r) \/ WriteTasks(r)
             \/ Reply(r) \/ JobEnd(r) \/ \E st \in States : JobUpdate(r, st)
      PROVE  UNCHANGED SessionIDMap
    BY <1>6 DEF Arrive, ArriveStep, ArriveDelete, ArriveDeleteAll, RefuseStep, Alloc,
                DeleteModuleNotFound, WriteModules, StartTask, Delete, DeleteAll,
                WriteTasks, Reply, JobEnd, JobUpdate, memory
<1>7. CASE UNCHANGED vars
    BY <1>7, <1>1 DEF vars, memory
<1> QED BY <1>1, <1>2, <1>3, <1>4, <1>5, <1>6, <1>7 DEF Next, Handle, Finished

(* The id of an entry that a step leaves in the map stays settled.         *)
LEMMA SettledStays ==
    ASSUME IInv, MapInv, [Next]_vars, boot = 1, boot' = boot,
           NEW s \in DOMAIN SessionIDMap, NEW id \in IDs, SessionIDMap[s] = id,
           s \in DOMAIN SessionIDMap', SessionIDMap'[s] = id
    PROVE  Settled(id)'
<1>0. Settled(id) /\ id # InvaildSessionID
    BY IDsAssumption DEF MapInv, InvaildSessionID
<1> USE DEF TypeOK, Goto, memory, locks, files, Starts, Settled, Settling
<1>1. ASSUME NEW r \in Requests, Arrive(r) PROVE Settled(id)'
    BY <1>0, <1>1 DEF IInv, Arrive, ArriveStep, ArriveDelete, ArriveDeleteAll, RefuseStep
<1>2. ASSUME NEW r \in Requests, Alloc(r) PROVE Settled(id)'
    BY <1>0, <1>2 DEF IInv, Alloc
<1>3. ASSUME NEW r \in Requests, UpdateModules(r) PROVE Settled(id)'
    BY <1>0, <1>3 DEF IInv, UpdateModules, LockModules
<1>4. ASSUME NEW r \in Requests, DeleteModuleSessionID(r) PROVE Settled(id)'
  <2>1. PICK t \in DOMAIN SessionIDMap :
          /\ SessionIDMap[t] = call[r].id
          /\ SessionIDMap' = [SessionIDMap EXCEPT ![t] = InvaildSessionID]
    BY <1>4 DEF DeleteModuleSessionID
  <2>2. s # t
    BY <2>1, <1>0
  <2>3. call[r].id # id
    BY <2>1, <2>2, OneStepPerID
  <2> QED BY <1>0, <1>4, <2>3 DEF IInv, DeleteModuleSessionID, LockModules
<1>5. ASSUME NEW r \in Requests, DeleteModuleNotFound(r) PROVE Settled(id)'
    BY <1>0, <1>5 DEF IInv, DeleteModuleNotFound
<1>6. ASSUME NEW r \in Requests, DeleteAllModuleSessionID(r) PROVE Settled(id)'
    BY <1>0, <1>6 DEF DeleteAllModuleSessionID
<1>7. ASSUME NEW r \in Requests, WriteModules(r) PROVE Settled(id)'
    BY <1>0, <1>7 DEF IInv, WriteModules
<1>8. ASSUME NEW r \in Requests, StartTask(r) PROVE Settled(id)'
  <2>1. DOMAIN ContextSet' = DOMAIN ContextSet \cup {sid[r]}
    BY <1>8, UpdateKeeps DEF StartTask
  <2> QED BY <1>0, <1>8, <2>1 DEF IInv, StartTask, LockTasks
<1>9. ASSUME NEW r \in Requests, Delete(r) \/ DeleteAll(r) PROVE Settled(id)'
    BY <1>0, <1>9 DEF IInv, Delete, DeleteAll, LockTasks
<1>10. ASSUME NEW r \in Requests, WriteTasks(r) PROVE Settled(id)'
    BY <1>0, <1>10 DEF IInv, TicketInv, WriteTasks
<1>11. ASSUME NEW r \in Requests, NEW st \in States, JobUpdate(r, st) PROVE Settled(id)'
  <2>1. DOMAIN ContextSet' = DOMAIN ContextSet \cup {sid[r]}
    BY <1>11, UpdateKeeps DEF JobUpdate
  <2> QED BY <1>0, <1>11, <2>1 DEF IInv, JobUpdate, LockTasks
<1>12. ASSUME NEW r \in Requests, JobEnd(r) \/ Reply(r) PROVE Settled(id)'
    BY <1>0, <1>12 DEF IInv, JobEnd, Reply
<1>13. CASE Restart
    BY <1>13 DEF Restart, IInv
<1>14. CASE UNCHANGED vars
    BY <1>0, <1>14 DEF vars
<1> QED BY <1>1, <1>2, <1>3, <1>4, <1>5, <1>6, <1>7, <1>8, <1>9, <1>10, <1>11, <1>12,
           <1>13, <1>14 DEF Next, Handle, Finished

LEMMA MapStep == IInv /\ MapInv /\ [Next]_vars => MapInv'
<1> SUFFICES ASSUME IInv, MapInv, [Next]_vars, boot' = 1,
                    NEW s \in DOMAIN SessionIDMap', NEW id \in IDs, SessionIDMap'[s] = id
             PROVE  (\E r \in Requests : Mapped(r, s, id)') /\ Settled(id)'
    BY DEF MapInv
<1>1. boot = 1 /\ boot' = boot
  <2>1. ASSUME NEW r \in Requests, Arrive(r) \/ Handle(r) \/ Reply(r) \/ JobEnd(r)
        PROVE  UNCHANGED boot
    BY <2>1 DEF Arrive, ArriveStep, ArriveDelete, ArriveDeleteAll, RefuseStep, Handle,
                Alloc, UpdateModules, DeleteModuleSessionID, DeleteModuleNotFound,
                DeleteAllModuleSessionID, WriteModules, StartTask, Delete, DeleteAll,
                WriteTasks, Reply, JobEnd
  <2>2. ASSUME NEW r \in Requests, NEW st \in States, JobUpdate(r, st)
        PROVE  UNCHANGED boot
    BY <2>2 DEF JobUpdate
  <2>3. boot \in Nat \ {0}
    BY DEF IInv, TypeOK
  <2>4. ~Restart
    BY <2>3 DEF Restart
  <2>5. CASE UNCHANGED vars
    BY <2>5 DEF vars
  <2> QED BY <2>1, <2>2, <2>4, <2>5 DEF Next, Finished
<1>2. CASE s \in DOMAIN SessionIDMap /\ SessionIDMap[s] = id
  <2>1. PICK r \in Requests : Mapped(r, s, id)
    BY <1>1, <1>2 DEF MapInv
  <2>2. Mapped(r, s, id)'
    BY <1>1, <2>1, MappedStays DEF IInv
  <2> QED BY <1>1, <1>2, <2>2, SettledStays
<1>3. ASSUME NEW r \in Requests, UpdateModules(r), call[r].step = s, sid[r] = id
      PROVE  Mapped(r, s, id)' /\ Settled(id)'
    BY <1>3 DEF UpdateModules, LockModules, Goto, IInv, TypeOK, Starts, Mapped, Settled,
                Settling
<1> QED BY <1>1, <1>2, <1>3, EntryBefore

(* When no handler is under way in the first run of the server, no step    *)
(* points to a context that is gone: whatever deletes and late updates of  *)
(* jobs have met, a delete of a task has taken the task's step with it.    *)
THEOREM MappedStepsHaveContexts == Spec => []MappedStepHasContext
<1>1. Init => MapInv
    BY IDsAssumption DEF Init, MapInv, InvaildSessionID
<1>2. IInv /\ MapInv => MappedStepHasContext
  <2> SUFFICES ASSUME IInv, MapInv, boot = 1, Quiet, NEW s \in DOMAIN SessionIDMap
               PROVE  SessionIDMap[s] \in DOMAIN ContextSet \cup {InvaildSessionID}
    BY DEF MappedStepHasContext
  <2>1. SessionIDMap[s] \in IDs \cup {InvaildSessionID}
    BY TableElim DEF IInv, TypeOK, ModuleTables
  <2>2. SessionIDMap[s] \in IDs => Settled(SessionIDMap[s])
    BY DEF MapInv
  <2>3. ~Settling(SessionIDMap[s])
    BY DEF Settling, Quiet, IInv, TicketInv
  <2> QED BY <2>1, <2>2, <2>3 DEF Settled
<1> QED BY <1>1, <1>2, MapStep, RegistryInvariant, PTL DEF Spec

(***************************************************************************)
(* Refinement: each step of the registry is a step of TaskStore, or leaves *)
(* issued ids and contexts alone.                                          *)
(***************************************************************************)
LEMMA UpdateRecords ==
    ASSUME IInv, NEW r \in Requests, NEW st \in States, Holds(r),
           Update(r, st), UNCHANGED sessionIDSet
    PROVE  Store!Record
<1> DEFINE id == sid[r]
           w == <<boot, r>>
           old == IF id \in DOMAIN ContextSet THEN ContextSet[id].by ELSE {}
<1>1. id \in sessionIDSet /\ w \in Writers
    BY DEF IInv, TicketInv, TypeOK, Writers
<1>2. ContextSet' = [j \in DOMAIN ContextSet \cup {id} |->
                       IF j # id THEN ContextSet[j]
                       ELSE [state |-> st, by |-> {w} \cup old]]
  <2>1. {w} \cup old = old \cup {w}
    OBVIOUS
  <2> HIDE DEF old
  <2>2. ContextSet' = [j \in DOMAIN ContextSet \cup {id} |->
                         IF j = id THEN [state |-> st, by |-> old \cup {w}]
                         ELSE ContextSet[j]]
    BY DEF Update, old
  <2> QED BY <2>1, <2>2
<1> QED BY <1>1, <1>2 DEF Store!Record

LEMMA StoreStep ==
    IInv /\ [Next]_vars => [Store!Next]_(Store!vars)
<1> SUFFICES ASSUME IInv, [Next]_vars PROVE [Store!Next]_(Store!vars)
    OBVIOUS
<1> USE DEF IInv, Store!vars, Store!Next
<1>1. ASSUME NEW r \in Requests,
             \/ Arrive(r) \/ UpdateModules(r) \/ DeleteModuleSessionID(r)
             \/ DeleteModuleNotFound(r) \/ DeleteAllModuleSessionID(r)
             \/ WriteModules(r) \/ WriteTasks(r) \/ Reply(r) \/ JobEnd(r)
      PROVE  UNCHANGED Store!vars
    BY <1>1 DEF Arrive, ArriveStep, ArriveDelete, ArriveDeleteAll, RefuseStep,
                UpdateModules, DeleteModuleSessionID, DeleteModuleNotFound,
                DeleteAllModuleSessionID, WriteModules, WriteTasks, Reply,
                JobEnd, memory
<1>2. ASSUME NEW r \in Requests, Alloc(r) PROVE Store!Issue
    BY <1>2 DEF Alloc, Store!Issue
<1>3. ASSUME NEW r \in Requests, NEW st \in States,
             (StartTask(r) /\ st = Running) \/ JobUpdate(r, st)
      PROVE  Store!Record
    BY <1>3, UpdateRecords DEF StartTask, JobUpdate, TicketInv
<1>4. ASSUME NEW r \in Requests, Delete(r) PROVE Store!Forget
  <2> DEFINE gone == DOMAIN ContextSet \cap {call[r].id}
  <2>1. DOMAIN ContextSet \ {call[r].id} = DOMAIN ContextSet \ gone
    OBVIOUS
  <2>2. /\ ContextSet' = [i \in DOMAIN ContextSet \ gone |-> ContextSet[i]]
        /\ UNCHANGED sessionIDSet
    BY <1>4, <2>1 DEF Delete
  <2> QED BY <2>2 DEF Store!Forget
<1>5. ASSUME NEW r \in Requests, DeleteAll(r) PROVE Store!Forget
  <2>1. /\ ContextSet' = [i \in DOMAIN ContextSet \ DOMAIN ContextSet |-> ContextSet[i]]
        /\ UNCHANGED sessionIDSet
    BY <1>5 DEF DeleteAll, Empty
  <2> QED BY <2>1 DEF Store!Forget
<1>6. CASE Restart
    BY <1>6 DEF Restart, RecoveredContexts, FilesNeverStale, Store!Restart, Empty
<1>7. CASE UNCHANGED vars
    BY <1>7 DEF vars, memory
<1> QED BY <1>1, <1>2, <1>3, <1>4, <1>5, <1>6, <1>7, StatesAssumption
        DEF Next, Handle, Finished

(* The registry implements TaskStore: a client sees tickets issued once,   *)
(* outcomes kept until deleted, and restarts that bring back all of the    *)
(* contexts or none.                                                       *)
THEOREM RegistryImplementsStore == Spec => ImplementsTaskStore
<1>1. Init => Store!Init
    BY DEF Init, Store!Init, Empty
<1>2. Spec => [][Store!Next]_(Store!vars)
    BY StoreStep, RegistryInvariant, PTL DEF Spec
<1> QED BY <1>1, <1>2, PTL DEF Spec, ImplementsTaskStore, Store!Spec

(***************************************************************************)
(* The parts of RequestsAnswered that are not about fairness. A mutex is   *)
(* held by a request that has only its file to write, which waits for      *)
(* nothing; and a request has a number of steps before it that none of its *)
(* own steps leaves as it is and nobody's step raises.                     *)
(***************************************************************************)
LockInv ==
    \A r \in Requests :
        /\ modulesMutex = r <=> pc[r] = "modulesWrite"
        /\ taskMutex = r <=> pc[r] \in {"contextWrite", "jobWrite"}

(* Write and Unlock, the steps of a holder, have no guard but their place: *)
(* the holder of one mutex waits for no other.                             *)
HoldersWrite ==
    /\ modulesMutex # Nobody =>
         modulesMutex \in Requests /\ pc[modulesMutex] = "modulesWrite"
    /\ taskMutex # Nobody =>
         taskMutex \in Requests /\ pc[taskMutex] \in {"contextWrite", "jobWrite"}

LEMMA LockInit == Init => LockInv
<1> SUFFICES ASSUME Init PROVE LockInv
    OBVIOUS
<1>1. modulesMutex = Nobody /\ taskMutex = Nobody /\ pc = [q \in Requests |-> "idle"]
    BY DEF Init
<1> QED BY <1>1, NobodyAssumption DEF LockInv

LEMMA LockStep == TypeOK /\ LockInv /\ [Next]_vars => LockInv'
<1> SUFFICES ASSUME TypeOK, LockInv, [Next]_vars PROVE LockInv'
    OBVIOUS
<1> USE NobodyAssumption DEF LockInv, TypeOK, Goto, memory, locks, files
<1>1. ASSUME NEW r \in Requests, Arrive(r) PROVE LockInv'
    BY <1>1 DEF Arrive, ArriveStep, ArriveDelete, ArriveDeleteAll, RefuseStep
<1>2. ASSUME NEW r \in Requests, Alloc(r) \/ DeleteModuleNotFound(r) PROVE LockInv'
    BY <1>2 DEF Alloc, DeleteModuleNotFound
<1>3. ASSUME NEW r \in Requests,
             UpdateModules(r) \/ DeleteModuleSessionID(r) \/ DeleteAllModuleSessionID(r)
      PROVE  LockInv'
  <2>1. /\ modulesMutex = Nobody /\ modulesMutex' = r /\ taskMutex' = taskMutex
        /\ pc[r] = "modules" /\ pc' = [pc EXCEPT ![r] = "modulesWrite"]
    BY <1>3 DEF UpdateModules, DeleteModuleSessionID, DeleteAllModuleSessionID, LockModules
  <2> QED BY <2>1
<1>4. ASSUME NEW r \in Requests, WriteModules(r) \/ WriteTasks(r) PROVE LockInv'
    BY <1>4 DEF WriteModules, WriteTasks
<1>5. ASSUME NEW r \in Requests, NEW st \in States,
             StartTask(r) \/ Delete(r) \/ DeleteAll(r) \/ JobUpdate(r, st)
      PROVE  LockInv'
  <2>1. /\ taskMutex = Nobody /\ taskMutex' = r /\ modulesMutex' = modulesMutex
        /\ pc[r] \in {"context", "job"}
        /\ \E l \in {"contextWrite", "jobWrite"} : pc' = [pc EXCEPT ![r] = l]
    BY <1>5 DEF StartTask, Delete, DeleteAll, JobUpdate, LockTasks
  <2> QED BY <2>1
<1>6. ASSUME NEW r \in Requests, JobEnd(r) \/ Reply(r) PROVE LockInv'
    BY <1>6 DEF JobEnd, Reply
<1>7. CASE Restart
    BY <1>7 DEF Restart
<1>8. CASE UNCHANGED vars
    BY <1>8 DEF vars
<1> QED BY <1>1, <1>2, <1>3, <1>4, <1>5, <1>6, <1>7, <1>8, StatesAssumption
        DEF Next, Handle, Finished

(* The two mutexes are never left locked, by a failed write or a restart,  *)
(* and no request waits for one while it holds the other: a handler that   *)
(* cannot go on waits for one that is writing its file and then unlocks.   *)
THEOREM MutexesComeFree == Spec => []HoldersWrite
<1>1. Init => LockInv
    BY LockInit
<1>2. TypeOK /\ LockInv => HoldersWrite
    BY DEF TypeOK, LockInv, HoldersWrite
<1> QED BY <1>1, <1>2, LockStep, TypeCorrect, PTL DEF Spec

(* What a request has before it, by where it is; an update of the job      *)
(* counts for two.                                                         *)
PlaceRank(at, starts) ==
    CASE at = "idle" -> 9
      [] at = "alloc" -> 8
      [] at = "modules" -> IF starts THEN 7 ELSE 4
      [] at = "modulesWrite" -> IF starts THEN 6 ELSE 3
      [] at = "context" -> IF starts THEN 5 ELSE 6
      [] at = "contextWrite" -> IF starts THEN 4 ELSE 5
      [] at = "jobWrite" -> 2
      [] at = "job" -> 1
      [] OTHER -> 0

RequestRank(r) == PlaceRank(pc[r], Starts(r)) + 2 * left[r]
                    + (IF answer[r] = "none" THEN 1 ELSE 0)

RequestStep(r) == Arrive(r) \/ Handle(r) \/ Reply(r) \/ JobEnd(r)
                    \/ \E st \in States : JobUpdate(r, st)

GoForward ==
    \A r \in Requests :
        /\ RequestRank(r)' \in Nat /\ RequestRank(r)' <= RequestRank(r)
        /\ RequestStep(r) => RequestRank(r)' < RequestRank(r)

LEMMA RankType ==
    ASSUME TypeOK, NEW r \in Requests
    PROVE  RequestRank(r) \in Nat
BY BoundsAssumption DEF TypeOK, RequestRank, PlaceRank

(* The step of a request leaves the others where they are and lowers its   *)
(* own rank.                                                               *)
LEMMA OwnStep ==
    ASSUME TypeOK, TicketInv, AnswerInv, LockInv, NEW r \in Requests, RequestStep(r)
    PROVE  /\ RequestRank(r)' < RequestRank(r)
           /\ \A q \in Requests : q # r => RequestRank(q)' = RequestRank(q)
<1> DEFINE Goal == /\ RequestRank(r)' < RequestRank(r)
                   /\ \A q \in Requests : q # r => RequestRank(q)' = RequestRank(q)
<1> USE BoundsAssumption DEF TypeOK, RequestRank, PlaceRank, Goto, memory, locks, files
<1>1. CASE Arrive(r)
    BY <1>1 DEF Arrive, ArriveStep, ArriveDelete, ArriveDeleteAll, RefuseStep, Starts
<1>2. CASE Alloc(r) \/ DeleteModuleNotFound(r)
    BY <1>2 DEF Alloc, DeleteModuleNotFound, Starts
<1>3. CASE UpdateModules(r) \/ DeleteModuleSessionID(r) \/ DeleteAllModuleSessionID(r)
    BY <1>3 DEF UpdateModules, DeleteModuleSessionID, DeleteAllModuleSessionID,
                LockModules, Starts
<1>4. CASE WriteModules(r) \/ WriteTasks(r)
  <2>1. pc[r] = "jobWrite" => Starts(r)
    BY DEF TicketInv
  <2>2. CASE WriteModules(r)
    BY <2>2 DEF WriteModules, Starts
  <2>3. CASE WriteTasks(r)
    BY <2>1, <2>3 DEF WriteTasks, Starts
  <2> QED BY <1>4, <2>2, <2>3
<1>5. CASE StartTask(r) \/ Delete(r) \/ DeleteAll(r)
    BY <1>5 DEF StartTask, Delete, DeleteAll, LockTasks, Starts
<1>6. CASE JobEnd(r) \/ Reply(r) \/ \E st \in States : JobUpdate(r, st)
    BY <1>6 DEF JobEnd, Reply, JobUpdate, LockTasks, Starts
<1> QED BY <1>1, <1>2, <1>3, <1>4, <1>5, <1>6 DEF RequestStep, Handle

(* No request goes round: it takes a bounded number of steps, whatever the *)
(* others do, whether its writes fail and also across a restart.           *)
THEOREM RequestsGoForward == Spec => [][GoForward]_vars
<1>1. Init => LockInv /\ AnswerInv
    BY LockInit DEF Init, AnswerInv, Starts
<1>2. IInv => TypeOK /\ TicketInv
    BY DEF IInv
<1>3. TypeOK /\ TypeOK' /\ TicketInv /\ AnswerInv /\ LockInv /\ [Next]_vars => [GoForward]_vars
  <2> SUFFICES ASSUME TypeOK, TypeOK', TicketInv, AnswerInv, LockInv, Next PROVE GoForward \/ UNCHANGED vars
    OBVIOUS
  <2>1. \A q \in Requests : RequestRank(q) \in Nat /\ RequestRank(q)' \in Nat
    BY RankType, BoundsAssumption DEF TypeOK, RequestRank, PlaceRank
  <2>2. \A q \in Requests : RequestStep(q) => RequestRank(q)' < RequestRank(q)
    BY OwnStep
  <2>3. CASE \E r \in Requests : RequestStep(r)
    BY <2>1, <2>2, <2>3, OwnStep DEF GoForward
  <2>4. CASE Restart
    <3>1. \A q \in Requests : RequestRank(q)' <= RequestRank(q)
      BY <2>4, BoundsAssumption DEF Restart, TypeOK, RequestRank, PlaceRank, Starts, Labels
    <3> QED BY <2>1, <2>2, <3>1 DEF GoForward
  <2> QED BY <2>3, <2>4 DEF Next, RequestStep, Finished
<1> QED BY <1>1, <1>2, <1>3, LockStep, AnswerStep, RegistryInvariant, PTL DEF Spec
=============================================================================
