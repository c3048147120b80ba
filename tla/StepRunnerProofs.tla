-------------------------- MODULE StepRunnerProofs --------------------------
(***************************************************************************)
(* Theorems about StepRunner, for every set of hosts and every table of    *)
(* stages: type correctness, the stages that do not overlap, the errors    *)
(* that have a cause, what becomes of an error or a clean run when the     *)
(* step function has returned, and that it never goes round or is stuck.   *)
(***************************************************************************)
EXTENDS StepRunner, FiniteSetTheorems, TLAPS

InStage == {"spawn", "read", "wait"}
MidCall == {"call", "busy", "assign", "test", "saving"}
TaskStates == {"running", "error", "complete", ""}

JobRecords ==
    [pc : InStage \cup {"enter", "returned", "crashed"}, at : Nat \ {0},
     todo : SUBSET Hosts, loopVar : Hosts \cup {NoConn}, finalErr : BOOLEAN]

GoroutineRecords ==
    [pc : MidCall \cup {"off", "start", "done"}, n : Nat, bad : BOOLEAN, own : BOOLEAN,
     on : Hosts \cup {NoConn}, nodes : SUBSET Hosts]

(* The type invariant, with the facts it needs to be inductive: a stage    *)
(* that is at work, and a goroutine that runs, belong to the plan.         *)
RunnerTypes ==
    /\ plan \in Plans
    /\ task \in TaskStates
    /\ job \in JobRecords
    /\ g \in [Workers -> GoroutineRecords]
    /\ err \in [AllStages -> BOOLEAN]
    /\ conn \in Hosts \cup {NoConn}
    /\ Nodes \in SUBSET Hosts /\ failed \in SUBSET Hosts
    /\ job.pc \in InStage => job.at \in Stages
    /\ job.pc = "read" => job.loopVar \in Hosts
    /\ \A w \in Workers : Active(w) => w[1] \in Stages
    /\ \A w \in Workers : g[w].pc \in MidCall => g[w].n \in DOMAIN Calls(w)

-----------------------------------------------------------------------------
(* A stage of a plan is one of AllStages and has the fields of a stage.    *)
LEMMA StageType ==
    ASSUME plan \in Plans
    PROVE  /\ plan \in Seq(StageRecords)
           /\ Stages = 1..Len(plan) /\ Len(plan) \in Nat
           /\ Stages \subseteq AllStages
           /\ \A i \in Stages : plan[i] \in StageRecords
<1>1. plan \in Seq(StageRecords) /\ Len(plan) <= MaxStages
    BY PlansAssumption, MaxStagesAssumption
<1>2. Stages = 1..Len(plan) /\ Len(plan) \in Nat
    BY <1>1 DEF Stages
<1>3. Stages \subseteq AllStages
    BY <1>1, <1>2, MaxStagesAssumption DEF AllStages
<1> QED BY <1>1, <1>2, <1>3

(* The calls of a goroutine that runs.                                     *)
LEMMA CallType ==
    ASSUME plan \in Plans, NEW w \in Workers, w[1] \in Stages
    PROVE  /\ Calls(w) \in Seq(CallRecords) /\ Len(Calls(w)) \in Nat
           /\ DOMAIN Calls(w) = 1..Len(Calls(w))
           /\ \A n \in DOMAIN Calls(w) : Calls(w)[n] \in CallRecords
<1>1. plan[w[1]] \in StageRecords
    BY StageType
<1>2. Calls(w) \in Seq(CallRecords)
    BY <1>1 DEF StageRecords, Calls
<1> QED BY <1>2

(* What a goroutine's record can become: the call it is at is one of its   *)
(* own; an error it has noted stays noted, and comes from a call that has  *)
(* failed.                                                                 *)
Becomes(w, r) ==
    /\ r \in GoroutineRecords /\ r.pc \notin {"off", "start"}
    /\ r.pc \in MidCall => r.n \in DOMAIN Calls(w)
    /\ g[w].own => r.own
    /\ failed' = {} /\ ~g[w].own /\ ~g[w].bad => ~r.own /\ ~r.bad

(* Going on after call n, or leaving early, is such a change.              *)
LEMMA AfterBecomes ==
    ASSUME RunnerTypes, NEW w \in Workers, Active(w),
           NEW n \in 0..Len(Calls(w))
    PROVE  Becomes(w, After(w, n)) /\ Becomes(w, Left(w))
<1>1. g[w] \in GoroutineRecords /\ w[1] \in Stages
    BY DEF RunnerTypes
<1>2. DOMAIN Calls(w) = 1..Len(Calls(w)) /\ Len(Calls(w)) \in Nat
    BY <1>1, CallType DEF RunnerTypes
<1>3. Becomes(w, Left(w))
    BY <1>1 DEF Becomes, Left, GoroutineRecords, MidCall
<1>4. CASE n < Len(Calls(w))
    <2>1. After(w, n) = [g[w] EXCEPT !.pc = "call", !.n = n + 1]
        BY <1>4 DEF After
    <2>2. n + 1 \in DOMAIN Calls(w) /\ n + 1 \in Nat
        BY <1>2, <1>4
    <2> QED BY <2>1, <2>2, <1>1, <1>3 DEF Becomes, GoroutineRecords, MidCall
<1>5. CASE ~(n < Len(Calls(w)))
    BY <1>1, <1>3, <1>5 DEF Becomes, After, GoroutineRecords, MidCall
<1> QED BY <1>4, <1>5

(* What a step of a goroutine does to the variables of the others: the     *)
(* spawner's record changes in finalErr only, and only when the shared err *)
(* is one; a step without a failed call leaves no error behind.            *)
Keeps ==
    /\ plan' = plan
    /\ job' = job \/ \E bad \in BOOLEAN : job' = [job EXCEPT !.finalErr = bad]
    /\ task' \in TaskStates \ {"complete"} \/ task' = task
    /\ failed \subseteq failed' /\ failed' \subseteq Hosts
    /\ Nodes' \subseteq Hosts
    /\ err' \in [AllStages -> BOOLEAN] /\ conn' \in Hosts \cup {NoConn}
    /\ failed' = {} /\ (\A v \in Workers : ~g[v].bad) /\ (\A s \in AllStages : ~err[s]) =>
         /\ \A s \in AllStages : ~err'[s]
         /\ job'.finalErr = job.finalErr
         /\ task' = "error" => task = "error"

LEMMA GoroutineMoves ==
    ASSUME RunnerTypes, NEW w \in Workers, Active(w), Goroutine(w), ~Panic(w)
    PROVE  Keeps /\ \E r : Becomes(w, r) /\ g' = [g EXCEPT ![w] = r]
<1> DEFINE n == g[w].n
<1>1. /\ g[w] \in GoroutineRecords /\ w[1] \in Stages /\ w[1] \in AllStages /\ w[2] \in Hosts
      /\ job \in JobRecords /\ task \in TaskStates /\ failed \subseteq Hosts /\ Nodes \subseteq Hosts
      /\ err \in [AllStages -> BOOLEAN] /\ conn \in Hosts \cup {NoConn}
      /\ plan[w[1]] \in StageRecords
    BY StageType DEF RunnerTypes, Workers
<1>2. DOMAIN Calls(w) = 1..Len(Calls(w)) /\ Len(Calls(w)) \in Nat
    BY <1>1, CallType DEF RunnerTypes
<1>3. Becomes(w, After(w, 0)) /\ Becomes(w, Left(w))
    BY <1>2, AfterBecomes
<1>4. ASSUME g[w].pc \in MidCall
      PROVE  /\ n \in DOMAIN Calls(w) /\ This(w) \in CallRecords
             /\ Becomes(w, After(w, n))
    <2>1. n \in DOMAIN Calls(w)
        BY <1>4 DEF RunnerTypes
    <2>2. This(w) \in CallRecords
        BY <2>1, <1>1, CallType DEF RunnerTypes, This
    <2> QED BY <2>1, <2>2, <1>2, AfterBecomes
<1>5. CASE Begin(w)
    BY <1>5, <1>1, <1>3 DEF Begin, Keeps, world
<1>6. CASE MarkRunning(w)
    BY <1>6, <1>1, <1>4 DEF MarkRunning, Keeps, world, MidCall, TaskStates
<1>7. CASE MakeCall(w)
    <2>1. Target(w) \in Hosts \cup {NoConn}
        BY <1>1, <1>7, <1>4 DEF Target, StageRecords, GoroutineRecords, JobRecords, MakeCall, MidCall
    <2>2. g' = [g EXCEPT ![w] = [g[w] EXCEPT !.pc = "busy", !.on = Target(w)]]
        BY <1>7 DEF MakeCall
    <2>3. Becomes(w, [g[w] EXCEPT !.pc = "busy", !.on = Target(w)])
        BY <1>1, <1>4, <1>7, <2>1 DEF MakeCall, Becomes, GoroutineRecords, MidCall
    <2>4. Keeps
        BY <1>7, <1>1 DEF MakeCall, Keeps, world, TaskStates
    <2> QED BY <2>2, <2>3, <2>4
<1>8. ASSUME g[w].pc \in MidCall, NEW bad \in BOOLEAN, bad => failed' # {}
      PROVE  Becomes(w, Assigning(w, bad))
    BY <1>1, <1>4, <1>8 DEF Becomes, Assigning, GoroutineRecords, MidCall
<1>9. ASSUME g[w].pc \in MidCall, Fail(w), failed' # {}
      PROVE  \E r : Becomes(w, r) /\ g' = [g EXCEPT ![w] = r]
    <2>1. CASE This(w).into \in {"shared", "inner"}
        BY <2>1, <1>8, <1>9 DEF Fail
    <2>2. CASE This(w).into = "own"
        <3> DEFINE next == IF This(w).test THEN Left(w) ELSE After(w, n)
        <3>1. g' = [g EXCEPT ![w] = [next EXCEPT !.own = TRUE]]
            BY <2>2, <1>9 DEF Fail
        <3>2. Becomes(w, next)
            BY <1>3, <1>4, <1>9
        <3>3. Becomes(w, [next EXCEPT !.own = TRUE])
            BY <3>2, <1>9 DEF Becomes, GoroutineRecords
        <3> QED BY <3>1, <3>3
    <2>3. CASE This(w).into = "lost"
        BY <2>3, <1>3, <1>9 DEF Fail
    <2>4. CASE This(w).into = "drop"
        BY <2>4, <1>3, <1>4, <1>9 DEF Fail, Past
    <2> QED BY <1>4, <1>9, <2>1, <2>2, <2>3, <2>4 DEF CallRecords
<1>10. CASE CallNothing(w)
    <2>1. g[w].pc \in MidCall
        BY <1>10 DEF CallNothing, MidCall
    <2>2. \E r : Becomes(w, r) /\ g' = [g EXCEPT ![w] = r]
        BY <1>10, <2>1, <1>4, <1>8 DEF CallNothing
    <2> QED BY <1>10, <2>2, <1>1 DEF CallNothing, Keeps, world
<1>11. CASE NoSession(w)
    <2>1. g[w].pc \in MidCall /\ Fail(w) /\ failed' = failed \cup {w[2]}
        BY <1>11 DEF NoSession, MidCall
    <2> QED BY <1>11, <2>1, <1>1, <1>9 DEF NoSession, Keeps
<1>12. ASSUME NEW bad \in BOOLEAN, CallEnds(w, bad)
       PROVE  Keeps /\ \E r : Becomes(w, r) /\ g' = [g EXCEPT ![w] = r]
    <2>1. g[w].pc \in MidCall
        BY <1>12 DEF CallEnds, MidCall
    <2>2. CASE bad
        <3>1. Fail(w) /\ failed' = failed \cup {w[2]}
            BY <1>12, <2>2 DEF CallEnds
        <3> QED BY <1>12, <2>1, <2>2, <3>1, <1>1, <1>9 DEF CallEnds, Keeps, TaskStates
    <2>3. CASE ~bad
        <3>1. Succeed(w) /\ failed' = failed
            BY <1>12, <2>3 DEF CallEnds
        <3>2. \E r : Becomes(w, r) /\ g' = [g EXCEPT ![w] = r]
            BY <3>1, <2>1, <1>3, <1>4, <1>8 DEF Succeed, Past
        <3> QED BY <1>12, <2>3, <3>1, <3>2, <1>1 DEF CallEnds, Keeps, TaskStates
    <2> QED BY <2>2, <2>3
<1>13. CASE Assign(w)
    <2>1. g' = [g EXCEPT ![w] = [g[w] EXCEPT !.pc = "test"]] /\ g[w].pc \in MidCall
        BY <1>13 DEF Assign, MidCall
    <2>2. Becomes(w, [g[w] EXCEPT !.pc = "test"])
        BY <1>1, <1>4, <2>1 DEF Becomes, GoroutineRecords, MidCall
    <2>3. g[w].bad \in BOOLEAN /\ g[w].on \in Hosts \cup {NoConn}
        BY <1>1 DEF GoroutineRecords
    <2>4. err' \in [AllStages -> BOOLEAN] /\ conn' \in Hosts \cup {NoConn}
        BY <1>13, <2>3, <1>1 DEF Assign
    <2>5. (\A v \in Workers : ~g[v].bad) /\ (\A s \in AllStages : ~err[s]) => \A s \in AllStages : ~err'[s]
        BY <1>13, <1>1 DEF Assign
    <2> QED BY <1>13, <2>1, <2>2, <2>4, <2>5, <1>1 DEF Assign, Keeps, world
<1>14. CASE Test(w)
    <2>1. g[w].pc \in MidCall
        BY <1>14 DEF Test, MidCall
    <2>2. \E r : Becomes(w, r) /\ g' = [g EXCEPT ![w] = r]
        BY <1>14, <2>1, <1>3, <1>4 DEF Test, Past
    <2>3. \/ job' = job
          \/ job' = [job EXCEPT !.finalErr = @ \/ (plan[w[1]].collect = "body" /\ err[w[1]])]
        BY <1>14 DEF Test
    <2>4. \/ job' = job
          \/ \E bad \in BOOLEAN : job' = [job EXCEPT !.finalErr = bad]
        BY <2>3, <1>1 DEF JobRecords
    <2>5. (\A s \in AllStages : ~err[s]) => job'.finalErr = job.finalErr
        BY <2>3, <1>1 DEF JobRecords
    <2> QED BY <1>14, <2>2, <2>4, <2>5, <1>1 DEF Test, Keeps, world
<1>15. CASE SaveRead(w)
    <2>1. /\ g' = [g EXCEPT ![w] = [g[w] EXCEPT !.pc = "saving", !.nodes = Nodes]]
          /\ g[w].pc \in MidCall
        BY <1>15 DEF SaveRead, MidCall
    <2>2. Becomes(w, [g[w] EXCEPT !.pc = "saving", !.nodes = Nodes])
        BY <1>1, <1>4, <2>1 DEF Becomes, GoroutineRecords, MidCall
    <2> QED BY <1>15, <2>1, <2>2, <1>1 DEF SaveRead, Keeps, world
<1>16. CASE SaveWrite(w)
    <2>1. g[w].pc \in MidCall /\ g' = [g EXCEPT ![w] = [After(w, n) EXCEPT !.nodes = {}]]
        BY <1>16 DEF SaveWrite, MidCall
    <2>2. Becomes(w, [After(w, n) EXCEPT !.nodes = {}])
        BY <2>1, <1>4 DEF Becomes, GoroutineRecords
    <2>3. g[w].nodes \subseteq Hosts
        BY <1>1 DEF GoroutineRecords
    <2> QED BY <1>16, <2>1, <2>2, <2>3, <1>1 DEF SaveWrite, Keeps
<1> QED BY <1>5, <1>6, <1>7, <1>10, <1>11, <1>12, <1>13, <1>14, <1>15, <1>16 DEF Goroutine

-----------------------------------------------------------------------------
(* The spawner's record when a stage is over.                              *)
LEMMA GoOnType ==
    ASSUME job \in JobRecords, NEW n \in Nat \ {0}, GoOn(n)
    PROVE  /\ job' \in JobRecords
           /\ ~job'.finalErr
           /\ \/ job'.pc = "enter" /\ job'.at = job.at + n /\ job'.at \in Stages
              \/ job'.pc = "returned" /\ job'.at = job.at /\ job.at + n \notin Stages
<1>1. job.at + n \in Nat \ {0}
    BY DEF JobRecords
<1>2. CASE job.at + n \in Stages
    BY <1>1, <1>2 DEF GoOn, JobRecords
<1>3. CASE job.at + n \notin Stages
    BY <1>3 DEF GoOn, JobRecords
<1> QED BY <1>2, <1>3

(* Decide, in one formula: the task is untouched or in Error, the spawner  *)
(* enters a later stage or returns, and goroutines of the stage are gone   *)
(* or left as they are.                                                    *)
LEMMA DecideMoves ==
    ASSUME RunnerTypes, job.pc = "wait", Decide
    PROVE  /\ job' \in JobRecords
           /\ \/ /\ job'.pc = "enter" /\ ~job'.finalErr /\ job'.at \in Stages
                 /\ job'.at > job.at /\ (~job.finalErr => job'.at = job.at + 1)
              \/ job'.pc = "returned" /\ job'.at = job.at /\ ~job'.finalErr
                    /\ (~job.finalErr => job.at + 1 \notin Stages)
              \/ job'.pc = "returned" /\ job'.at = job.at /\ job.finalErr /\ job'.finalErr
                    /\ (Now.reports = "after" => task' = "error")
           /\ task' = task \/ (task' = "error" /\ job.finalErr)
           /\ g' \in [Workers -> GoroutineRecords]
           /\ \A w \in Workers : g'[w] = g[w] \/ (g'[w] = Gone /\ ~Active(w))
           /\ err' \in [AllStages -> BOOLEAN] /\ \A s \in AllStages : err'[s] => err[s]
           /\ UNCHANGED <<plan, conn, world>>
<1>1. job \in JobRecords /\ job.at \in Stages /\ Now \in StageRecords
    BY StageType DEF RunnerTypes, InStage, Now
<1>2. Now.jump \in 0..3
    BY <1>1 DEF StageRecords
<1>3. job.at \in Nat
    BY <1>1 DEF JobRecords
<1> DEFINE Comes ==
        \/ /\ job'.pc = "enter" /\ ~job'.finalErr /\ job'.at \in Stages
           /\ job'.at > job.at /\ (~job.finalErr => job'.at = job.at + 1)
        \/ job'.pc = "returned" /\ job'.at = job.at /\ ~job'.finalErr
              /\ (~job.finalErr => job.at + 1 \notin Stages)
        \/ job'.pc = "returned" /\ job'.at = job.at /\ job.finalErr /\ job'.finalErr
              /\ (Now.reports = "after" => task' = "error")
<1>4. job' \in JobRecords /\ Comes
    <2>1. CASE ~job.finalErr
        <3>1. GoOn(1)
            BY <2>1 DEF Decide
        <3> QED BY <3>1, <1>1, <1>3, <2>1, GoOnType
    <2>2. CASE job.finalErr /\ Now.jump = 0
        BY <2>2, <1>1 DEF Decide, Return, JobRecords
    <2>3. CASE job.finalErr /\ Now.jump # 0
        <3>1. GoOn(Now.jump) /\ Now.jump \in Nat \ {0}
            BY <2>3, <1>2 DEF Decide
        <3> QED BY <3>1, <1>1, <1>3, <2>3, GoOnType
    <2> QED BY <2>1, <2>2, <2>3
<1>5. task' = task \/ (task' = "error" /\ job.finalErr)
    BY DEF Decide
<1>6. /\ g \in [Workers -> GoroutineRecords] /\ err \in [AllStages -> BOOLEAN]
      /\ Gone \in GoroutineRecords
    BY DEF RunnerTypes, Gone, Idle, GoroutineRecords
<1>7. /\ g' \in [Workers -> GoroutineRecords]
      /\ \A w \in Workers : g'[w] = g[w] \/ (g'[w] = Gone /\ ~Active(w))
      /\ err' \in [AllStages -> BOOLEAN] /\ \A s \in AllStages : err'[s] => err[s]
    <2>1. CASE \A h \in Hosts : g[<<job.at, h>>].pc \in {"off", "done"}
        <3>1. /\ g' = [w \in Workers |-> IF w[1] = job.at THEN Gone ELSE g[w]]
              /\ err' = [err EXCEPT ![job.at] = FALSE]
            BY <2>1 DEF Decide, Forget
        <3>2. \A w \in Workers : w[1] = job.at => ~Active(w)
            BY <2>1 DEF Workers, Active
        <3> QED BY <3>1, <3>2, <1>6
    <2>2. CASE ~\A h \in Hosts : g[<<job.at, h>>].pc \in {"off", "done"}
        BY <2>2, <1>6 DEF Decide, Forget
    <2> QED BY <2>1, <2>2
<1>8. UNCHANGED <<plan, conn, world>>
    BY DEF Decide
<1> QED BY <1>4, <1>5, <1>7, <1>8

-----------------------------------------------------------------------------
LEMMA RunnerTypesInit == Init => RunnerTypes
<1> SUFFICES ASSUME Init PROVE RunnerTypes
    OBVIOUS
<1>1. Idle \in GoroutineRecords
    BY DEF Idle, GoroutineRecords
<1>2. g \in [Workers -> GoroutineRecords] /\ \A w \in Workers : g[w].pc = "off"
    BY <1>1 DEF Init, Idle
<1>3. job \in JobRecords /\ job.pc = "enter"
    BY DEF Init, JobRecords
<1> QED BY <1>2, <1>3 DEF Init, RunnerTypes, TaskStates, InStage, MidCall, Active

(* A step that changes g where it says and keeps the plan keeps what       *)
(* RunnerTypes says of the goroutines.                                     *)
LEMMA GoroutinesKept ==
    ASSUME RunnerTypes, plan' = plan,
           g' \in [Workers -> GoroutineRecords],
           \A w \in Workers :
              \/ g'[w] = g[w]
              \/ g'[w].pc \in {"off", "done"}
              \/ g'[w].pc = "start" /\ w[1] \in Stages
              \/ Active(w) /\ Becomes(w, g'[w])
    PROVE  /\ \A w \in Workers : Active(w)' => w[1] \in Stages'
           /\ \A w \in Workers : g'[w].pc \in MidCall => g'[w].n \in DOMAIN Calls(w)'
<1> SUFFICES ASSUME NEW w \in Workers
             PROVE  /\ Active(w)' => w[1] \in Stages'
                    /\ g'[w].pc \in MidCall => g'[w].n \in DOMAIN Calls(w)'
    OBVIOUS
<1>1. Stages' = Stages /\ Calls(w)' = Calls(w)
    BY DEF Stages, Calls
<1>2. Active(w)' <=> g'[w].pc \notin {"off", "done"}
    BY DEF Active
<1>3. /\ Active(w) => w[1] \in Stages
      /\ g[w].pc \in MidCall => g[w].n \in DOMAIN Calls(w)
    BY DEF RunnerTypes
<1> QED BY <1>1, <1>2, <1>3 DEF Active, Becomes, MidCall

(* What the spawner does, whatever its step: the goroutines keep their     *)
(* records, but for one that starts and those of a stage that is over.     *)
SpawnerKeeps ==
    /\ plan' = plan /\ UNCHANGED world /\ conn' \in Hosts \cup {NoConn}
    /\ job' \in JobRecords
    /\ job'.pc \in {"enter", "returned"} \cup InStage
    /\ job'.pc \in InStage => job'.at = job.at /\ job.at \in Stages
    /\ job'.pc = "read" => job'.loopVar \in Hosts
    /\ g' \in [Workers -> GoroutineRecords]
    /\ \A w \in Workers :
          \/ g'[w] = g[w]
          \/ g'[w] = Gone /\ ~Active(w)
          \/ g'[w] = [g[w] EXCEPT !.pc = "start"] /\ w[1] = job.at /\ w[1] \in Stages
    /\ err' \in [AllStages -> BOOLEAN] /\ \A s \in AllStages : err'[s] => err[s]

LEMMA SpawnerMoves ==
    ASSUME RunnerTypes, Spawner
    PROVE  SpawnerKeeps
<1>1. /\ job \in JobRecords /\ g \in [Workers -> GoroutineRecords]
      /\ err \in [AllStages -> BOOLEAN] /\ conn \in Hosts \cup {NoConn}
    BY DEF RunnerTypes
<1>2. job.at \in Stages => Now \in StageRecords
    BY StageType DEF RunnerTypes, Now
<1>3. ASSUME job.pc \in InStage PROVE job.at \in Stages
    BY <1>3 DEF RunnerTypes
<1>4. CASE ReturnAtOnce
    BY <1>4, <1>1 DEF ReturnAtOnce, Return, SpawnerKeeps, world, JobRecords, InStage
<1>5. CASE UpdateState
    BY <1>5, <1>1, GoOnType DEF UpdateState, SpawnerKeeps, world, InStage
<1>6. CASE LeaveOut
    BY <1>6, <1>1, GoOnType DEF LeaveOut, SpawnerKeeps, world, InStage
<1>7. ASSUME NEW H \in SUBSET Hosts, Enter(H)
      PROVE  SpawnerKeeps
    <2>1. job' = [job EXCEPT !.pc = "spawn", !.todo = H] /\ job.at \in Stages
        BY <1>7 DEF Enter
    <2>2. job' \in JobRecords /\ job'.pc = "spawn" /\ job'.at = job.at
        BY <1>1, <2>1 DEF JobRecords, InStage
    <2> QED BY <1>7, <1>1, <2>1, <2>2 DEF Enter, SpawnerKeeps, world, InStage
<1>8. ASSUME NEW h \in Hosts, Spawn(h)
      PROVE  SpawnerKeeps
    <2> DEFINE v == <<job.at, h>>
    <2>1. job.at \in Stages
        BY <1>3, <1>8 DEF Spawn, InStage
    <2>2. v \in Workers /\ v[1] = job.at
        BY <2>1, StageType DEF RunnerTypes, Workers
    <2>3. job' \in JobRecords /\ job'.pc = "read" /\ job'.at = job.at /\ job'.loopVar = h
        BY <1>8, <1>1 DEF Spawn, JobRecords, InStage
    <2>4. g' = [g EXCEPT ![v] = [g[v] EXCEPT !.pc = "start"]]
        BY <1>8 DEF Spawn
    <2>5. [g[v] EXCEPT !.pc = "start"] \in GoroutineRecords
        BY <1>1, <2>2 DEF GoroutineRecords
    <2>6. /\ g' \in [Workers -> GoroutineRecords]
          /\ \A w \in Workers : IF w = v THEN g'[w] = [g[v] EXCEPT !.pc = "start"] ELSE g'[w] = g[w]
        BY <1>1, <2>2, <2>4, <2>5
    <2> QED BY <1>8, <1>1, <2>1, <2>2, <2>3, <2>6 DEF Spawn, SpawnerKeeps, world, InStage
<1>9. CASE ReadErr
    <2>1. job' \in JobRecords /\ job'.pc = "spawn" /\ job'.at = job.at /\ job.at \in Stages
        <3>1. job' = [job EXCEPT !.pc = "spawn", !.finalErr = @ \/ (Now.collect = "spawner" /\ err[job.at])]
            BY <1>9 DEF ReadErr
        <3> QED BY <3>1, <1>9, <1>1, <1>3 DEF ReadErr, JobRecords, InStage
    <2> QED BY <1>9, <1>1, <2>1 DEF ReadErr, SpawnerKeeps, world, InStage
<1>10. CASE ReadResult
    <2> DEFINE bad == g[<<job.at, job.loopVar>>].own
    <2>1. job' = [job EXCEPT !.pc = "spawn", !.finalErr = bad, !.todo = IF bad THEN {} ELSE @]
        BY <1>10 DEF ReadResult
    <2>2. job.at \in Stages
        BY <1>3, <1>10 DEF ReadResult, InStage
    <2>3. bad \in BOOLEAN
        <3>1. <<job.at, job.loopVar>> \in Workers
            BY <2>2, <1>10, StageType DEF ReadResult, RunnerTypes, Workers
        <3> QED BY <3>1, <1>1 DEF GoroutineRecords
    <2>4. job' \in JobRecords /\ job'.pc = "spawn" /\ job'.at = job.at
        BY <1>1, <2>1, <2>3 DEF JobRecords, InStage
    <2> QED BY <1>10, <1>1, <2>2, <2>4 DEF ReadResult, SpawnerKeeps, world, InStage
<1>11. CASE LoopEnds
    <2>1. job' \in JobRecords /\ job'.pc = "wait" /\ job'.at = job.at /\ job.at \in Stages
        BY <1>11, <1>1, <1>3 DEF LoopEnds, JobRecords, InStage
    <2> QED BY <1>11, <1>1, <2>1 DEF LoopEnds, SpawnerKeeps, world, InStage
<1>12. CASE Wait
    <2>1. job.pc = "wait" /\ Decide
        BY <1>12 DEF Wait
    <2>2. conn' = conn /\ world' = world /\ plan' = plan
        BY <2>1, DecideMoves
    <2> QED BY <2>1, <2>2, <1>1, DecideMoves DEF SpawnerKeeps, InStage
<1> QED BY <1>4, <1>5, <1>6, <1>7, <1>8, <1>9, <1>10, <1>11, <1>12 DEF Spawner

(* RunnerTypes is inductive: a step is the spawner's, a move of a single   *)
(* goroutine, or a panic, which ends all of them.                          *)
LEMMA TypesStep == RunnerTypes /\ [Next]_vars => RunnerTypes'
<1> SUFFICES ASSUME RunnerTypes, [Next]_vars PROVE RunnerTypes'
    OBVIOUS
<1>1. CASE Spawner
    <2>1. SpawnerKeeps
        BY <1>1, SpawnerMoves
    <2>2. /\ \A w \in Workers : Active(w)' => w[1] \in Stages'
          /\ \A w \in Workers : g'[w].pc \in MidCall => g'[w].n \in DOMAIN Calls(w)'
        <3>1. ASSUME NEW w \in Workers
              PROVE  \/ g'[w] = g[w]
                     \/ g'[w].pc \in {"off", "done"}
                     \/ g'[w].pc = "start" /\ w[1] \in Stages
            BY <2>1 DEF SpawnerKeeps, RunnerTypes, Gone, Idle, GoroutineRecords
        <3> QED BY <3>1, <2>1, GoroutinesKept DEF SpawnerKeeps
    <2>3. task' \in TaskStates
        <3>1. job.at \in Stages => Now.state \in {"", "complete"}
            BY StageType DEF RunnerTypes, Now, StageRecords
        <3> QED BY <1>1, <3>1 DEF RunnerTypes, TaskStates, Spawner, ReturnAtOnce, UpdateState, LeaveOut,
                  Enter, Spawn, ReadErr, ReadResult, LoopEnds, Wait, Decide
    <2>4. plan' = plan /\ Stages' = Stages
        BY <2>1 DEF SpawnerKeeps, Stages
    <2> QED BY <2>1, <2>2, <2>3, <2>4 DEF SpawnerKeeps, RunnerTypes, world, InStage
<1>2. ASSUME NEW w \in Workers, Active(w), Goroutine(w), ~Panic(w)
      PROVE  RunnerTypes'
    <2>1. Keeps
        BY <1>2, GoroutineMoves
    <2>2. PICK r : Becomes(w, r) /\ g' = [g EXCEPT ![w] = r]
        BY <1>2, GoroutineMoves
    <2>3. r \in GoroutineRecords
        BY <2>2 DEF Becomes
    <2>4. /\ g' \in [Workers -> GoroutineRecords]
          /\ \A v \in Workers : g'[v] = IF v = w THEN r ELSE g[v]
        BY <2>2, <2>3, <1>2 DEF RunnerTypes
    <2>5. /\ \A v \in Workers : Active(v)' => v[1] \in Stages'
          /\ \A v \in Workers : g'[v].pc \in MidCall => g'[v].n \in DOMAIN Calls(v)'
        BY <2>1, <2>2, <2>4, <1>2, GoroutinesKept DEF Keeps
    <2>6. /\ job' \in JobRecords /\ job'.pc = job.pc /\ job'.at = job.at
          /\ job'.loopVar = job.loopVar
        BY <2>1 DEF Keeps, RunnerTypes, JobRecords
    <2>7. plan' = plan /\ Stages' = Stages
        BY <2>1 DEF Keeps, Stages
    <2> QED BY <2>1, <2>4, <2>5, <2>6, <2>7 DEF Keeps, RunnerTypes, TaskStates
<1>3. ASSUME NEW w \in Workers, Panic(w)
      PROVE  RunnerTypes'
    <2>1. /\ Gone \in GoroutineRecords /\ Gone.pc = "done"
          /\ g' = [v \in Workers |-> Gone]
        BY <1>3 DEF Panic, Gone, Idle, GoroutineRecords
    <2>2. job' \in JobRecords /\ job'.pc = "crashed"
        BY <1>3 DEF Panic, RunnerTypes, JobRecords
    <2> QED BY <1>3, <2>1, <2>2 DEF Panic, RunnerTypes, world, InStage, MidCall, Active
<1>4. CASE UNCHANGED vars
    BY <1>4 DEF vars, world, RunnerTypes, Stages, Active, Calls
<1> QED BY <1>1, <1>2, <1>3, <1>4 DEF Next, Goroutines

(* StepRunner: the variables of the spawner and of the goroutines have     *)
(* their types, and a goroutine is always at a call its stage has.         *)
THEOREM RunnerTypeCorrect == Spec => []TypeOK
<1>1. RunnerTypes => TypeOK
    BY DEF RunnerTypes, TypeOK, TaskStates, JobRecords, GoroutineRecords, InStage, MidCall
<1> QED BY <1>1, RunnerTypesInit, TypesStep, PTL DEF Spec

-----------------------------------------------------------------------------
(* Stages that do not overlap. What a step of a goroutine that is no panic *)
(* does not change: who is active, and where the spawner is.               *)
LEMMA GoroutineFrame ==
    ASSUME RunnerTypes, NEW w \in Workers, Active(w), Goroutine(w), ~Panic(w)
    PROVE  /\ plan' = plan /\ job'.pc = job.pc /\ job'.at = job.at
           /\ job'.todo = job.todo /\ job'.loopVar = job.loopVar
           /\ \A v \in Workers : Active(v)' => Active(v)
<1>1. Keeps
    BY GoroutineMoves
<1>2. PICK r : g' = [g EXCEPT ![w] = r]
    BY GoroutineMoves
<1>3. \A v \in Workers : v # w => g'[v] = g[v]
    BY <1>2 DEF RunnerTypes
<1>4. \A v \in Workers : Active(v)' => Active(v)
    BY <1>3 DEF Active
<1> QED BY <1>1, <1>4 DEF Keeps, RunnerTypes, JobRecords

LEMMA OverlapStep ==
    RunnerTypes /\ StagesDoNotOverlap /\ [Next]_vars => StagesDoNotOverlap'
<1> SUFFICES ASSUME RunnerTypes, StagesDoNotOverlap, [Next]_vars,
                    NEW v \in Workers, Active(v)', plan'[v[1]].done = "last"
             PROVE  v[1] = job'.at /\ job'.pc \in InStage
    BY DEF StagesDoNotOverlap, InStage
<1>1. Active(v) /\ plan[v[1]].done = "last" => v[1] = job.at /\ job.pc \in InStage
    BY DEF StagesDoNotOverlap, InStage
<1>2. CASE Spawner
    <2>1. SpawnerKeeps
        BY <1>2, SpawnerMoves
    <2>2. plan' = plan
        BY <2>1 DEF SpawnerKeeps
    <2>3. CASE Active(v)
        <3>1. v[1] = job.at /\ job.pc \in InStage
            BY <1>1, <2>2, <2>3
        <3>2. job.pc # "enter"
            BY <3>1 DEF InStage
        <3>3. ~Wait
            <4>1. SUFFICES ASSUME Wait PROVE FALSE
                OBVIOUS
            <4>2. v = <<job.at, v[2]>> /\ v[2] \in Hosts
                BY <3>1 DEF Workers
            <4>3. DoneWith(v)
                BY <4>1, <4>2 DEF Wait
            <4> QED BY <4>3, <2>2, <2>3 DEF DoneWith, Active
        <3>4. job'.pc \in InStage /\ job'.at = job.at
            BY <1>2, <3>2, <3>3, <2>1 DEF Spawner, ReturnAtOnce, UpdateState, LeaveOut, Enter, Spawn,
               ReadErr, ReadResult, LoopEnds, RunnerTypes, JobRecords, InStage
        <3> QED BY <3>1, <3>4
    <2>4. CASE ~Active(v)
        <3>1. g'[v] # g[v] /\ g'[v] # Gone
            BY <2>4 DEF Active, Gone, Idle
        <3>2. v[1] = job.at
            BY <3>1, <2>1 DEF SpawnerKeeps
        <3>3. PICK h \in Hosts : Spawn(h)
            BY <1>2, <3>1, <2>1, DecideMoves DEF Spawner, ReturnAtOnce, UpdateState, LeaveOut, Enter,
               ReadErr, ReadResult, LoopEnds, Wait, SpawnerKeeps, RunnerTypes
        <3>4. job'.pc = "read" /\ job'.at = job.at
            BY <3>3 DEF Spawn, RunnerTypes, JobRecords
        <3> QED BY <3>2, <3>4 DEF InStage
    <2> QED BY <2>3, <2>4
<1>3. ASSUME NEW w \in Workers, Active(w), Goroutine(w), ~Panic(w)
      PROVE  v[1] = job'.at /\ job'.pc \in InStage
    BY <1>1, <1>3, GoroutineFrame
<1>4. ASSUME NEW w \in Workers, Panic(w)
      PROVE  FALSE
    BY <1>4 DEF Panic, Active, Gone, Idle
<1>5. CASE UNCHANGED vars
    BY <1>1, <1>5 DEF vars, Active
<1> QED BY <1>2, <1>3, <1>4, <1>5 DEF Next, Goroutines

(* "Return when the workers of all goroutines have installed": for every   *)
(* table and every set of hosts, a goroutine whose wg.Done comes last runs *)
(* in its own stage only.                                                  *)
THEOREM StagesAreApart == Spec => []StagesDoNotOverlap
<1>1. Init => StagesDoNotOverlap
    BY DEF Init, StagesDoNotOverlap, Active, Idle
<1> QED BY <1>1, RunnerTypesInit, TypesStep, OverlapStep, PTL DEF Spec

-----------------------------------------------------------------------------
(* Errors have a cause. As long as no call has failed no variable that     *)
(* holds an error is set: neither the shared err of a stage, nor what a    *)
(* goroutine has noted, nor finalErr, nor the task's state.                *)
CauseInv ==
    failed = {} =>
        /\ task # "error" /\ ~job.finalErr
        /\ \A s \in AllStages : ~err[s]
        /\ \A w \in Workers : ~g[w].bad /\ ~g[w].own

LEMMA CauseStep == RunnerTypes /\ CauseInv /\ [Next]_vars => CauseInv'
<1> SUFFICES ASSUME RunnerTypes, CauseInv, [Next]_vars, failed' = {}
             PROVE  CauseInv'
    BY DEF CauseInv
<1>1. CASE Spawner
    <2>1. SpawnerKeeps
        BY <1>1, SpawnerMoves
    <2>2. failed = {}
        BY <2>1 DEF SpawnerKeeps, world
    <2>3. /\ task # "error" /\ ~job.finalErr
          /\ \A s \in AllStages : ~err[s]
          /\ \A w \in Workers : ~g[w].bad /\ ~g[w].own
        BY <2>2 DEF CauseInv
    <2>4. \A s \in AllStages : ~err'[s]
        BY <2>1, <2>3 DEF SpawnerKeeps
    <2>5. \A w \in Workers : ~g'[w].bad /\ ~g'[w].own
        <3>1. \A w \in Workers : g[w] \in GoroutineRecords
            BY DEF RunnerTypes
        <3> QED BY <2>1, <2>3, <3>1 DEF SpawnerKeeps, Gone, Idle, GoroutineRecords
    <2>6. task' # "error" /\ ~job'.finalErr
        <3>1. job \in JobRecords
            BY DEF RunnerTypes
        <3>2. CASE ReturnAtOnce
            BY <3>1, <3>2, <2>3 DEF ReturnAtOnce, Return, JobRecords
        <3>3. CASE UpdateState
            <4>1. Now.state # "error"
                BY <3>3, StageType DEF UpdateState, RunnerTypes, Now, StageRecords
            <4> QED BY <3>1, <3>3, <4>1, GoOnType DEF UpdateState
        <3>4. CASE LeaveOut
            BY <3>1, <3>4, <2>3, GoOnType DEF LeaveOut
        <3>5. CASE \E H \in SUBSET Hosts : Enter(H)
            BY <3>1, <3>5, <2>3 DEF Enter, JobRecords
        <3>6. CASE \E h \in Hosts : Spawn(h)
            BY <3>1, <3>6, <2>3 DEF Spawn, JobRecords
        <3>7. CASE ReadErr
            <4>1. job.at \in AllStages
                BY <3>7, StageType DEF ReadErr, RunnerTypes, InStage
            <4>2. ~err[job.at]
                BY <4>1, <2>3
            <4> QED BY <3>1, <3>7, <4>2, <2>3 DEF ReadErr, JobRecords
        <3>8. CASE ReadResult
            <4>1. <<job.at, job.loopVar>> \in Workers
                BY <3>8, StageType DEF ReadResult, RunnerTypes, InStage, Workers
            <4>2. ~g[<<job.at, job.loopVar>>].own
                BY <4>1, <2>3
            <4> QED BY <3>1, <3>8, <4>2, <2>3 DEF ReadResult, JobRecords
        <3>9. CASE LoopEnds
            BY <3>1, <3>9, <2>3 DEF LoopEnds, JobRecords
        <3>10. CASE Wait
            BY <3>10, <2>3, DecideMoves DEF Wait
        <3> QED BY <1>1, <3>2, <3>3, <3>4, <3>5, <3>6, <3>7, <3>8, <3>9, <3>10 DEF Spawner
    <2> QED BY <2>4, <2>5, <2>6 DEF CauseInv
<1>2. ASSUME NEW w \in Workers, Active(w), Goroutine(w), ~Panic(w)
      PROVE  CauseInv'
    <2>1. Keeps /\ \E r : Becomes(w, r) /\ g' = [g EXCEPT ![w] = r]
        BY <1>2, GoroutineMoves
    <2>2. PICK r : Becomes(w, r) /\ g' = [g EXCEPT ![w] = r]
        BY <2>1
    <2>3. failed = {}
        BY <2>1 DEF Keeps
    <2>4. /\ task # "error" /\ ~job.finalErr
          /\ \A s \in AllStages : ~err[s]
          /\ \A v \in Workers : ~g[v].bad /\ ~g[v].own
        BY <2>3 DEF CauseInv
    <2>5. \A v \in Workers : g'[v] = IF v = w THEN r ELSE g[v]
        BY <2>2, <1>2 DEF RunnerTypes
    <2>6. ~r.own /\ ~r.bad
        BY <2>2, <2>4, <1>2 DEF Becomes
    <2> QED BY <2>1, <2>4, <2>5, <2>6 DEF Keeps, CauseInv
<1>3. ASSUME NEW w \in Workers, Panic(w)
      PROVE  CauseInv'
    <2>1. failed = {}
        BY <1>3 DEF Panic, world
    <2> QED BY <1>3, <2>1 DEF Panic, CauseInv, world, Gone, Idle, RunnerTypes, JobRecords
<1>4. CASE UNCHANGED vars
    BY <1>4 DEF vars, world, CauseInv
<1> QED BY <1>1, <1>2, <1>3, <1>4 DEF Next, Goroutines

LEMMA CauseInit == Init => CauseInv
<1> SUFFICES ASSUME Init PROVE CauseInv
    OBVIOUS
<1>1. \A w \in Workers : g[w] = Idle
    BY DEF Init
<1> QED BY <1>1 DEF Init, CauseInv, Idle

(* No false alarm, in any step function: a task that ends with Error, or a *)
(* returned error, has had a call that failed.                             *)
THEOREM ErrorsAreCaused == Spec => []ErrorsHaveACause
<1>1. CauseInv => ErrorsHaveACause
    BY DEF CauseInv, ErrorsHaveACause
<1> QED BY <1>1, CauseInit, CauseStep, RunnerTypesInit, TypesStep, PTL DEF Spec

-----------------------------------------------------------------------------
(* A returned step function. The spawner takes no step any more.           *)
LEMMA ReturnedRests == Spawner => job.pc # "returned" /\ job.pc # "crashed"
BY DEF Spawner, ReturnAtOnce, UpdateState, LeaveOut, Enter, Spawn, ReadErr, ReadResult,
       LoopEnds, Wait

(* Of a plan that waits for all goroutines, none is left when its step     *)
(* function has returned.                                                  *)
LEMMA NobodyLeft ==
    ASSUME RunnerTypes, StagesDoNotOverlap, Attached(plan), job.pc \notin InStage,
           NEW w \in Workers
    PROVE  ~Active(w)
<1> SUFFICES ASSUME Active(w) PROVE FALSE
    OBVIOUS
<1>1. plan[w[1]].done = "last"
    BY DEF RunnerTypes, Attached, Stages
<1> QED BY <1>1 DEF StagesDoNotOverlap, InStage

(* ReportedErrorStays with what makes it inductive: the spawner is at a    *)
(* stage of its plan, if that has any.                                     *)
ReportInv ==
    /\ Stages = {} => ~job.finalErr
    /\ Stages # {} => job.at \in Stages
    /\ ReportedErrorStays

LEMMA ReportStep ==
    ASSUME \A P \in Plans : ReportsAttached(P)
    PROVE  RunnerTypes /\ StagesDoNotOverlap /\ ReportInv /\ [Next]_vars => ReportInv'
<1> SUFFICES ASSUME RunnerTypes, StagesDoNotOverlap, ReportInv, [Next]_vars
             PROVE  ReportInv'
    OBVIOUS
<1>1. CASE Spawner
    <2>1. SpawnerKeeps /\ job \in JobRecords
        BY <1>1, SpawnerMoves DEF RunnerTypes
    <2>2. plan' = plan /\ Stages' = Stages
        BY <2>1 DEF SpawnerKeeps, Stages
    <2>3. CASE Wait
        BY <2>2, <2>3, DecideMoves
           DEF Wait, ReportInv, ReportedErrorStays, Returned, Now, RunnerTypes, InStage
    <2>4. CASE UpdateState \/ LeaveOut
        BY <2>1, <2>2, <2>4, GoOnType
           DEF UpdateState, LeaveOut, ReportInv, ReportedErrorStays, Returned
    <2>5. CASE ReturnAtOnce
        <3>1. Stages = {} /\ job'.finalErr = job.finalErr
            BY <2>1, <2>5 DEF ReturnAtOnce, Return, Stages, JobRecords
        <3> QED BY <2>2, <3>1 DEF ReportInv, ReportedErrorStays, Returned
    <2>6. CASE \/ \E H \in SUBSET Hosts : Enter(H)
               \/ \E h \in Hosts : Spawn(h)
               \/ ReadErr \/ ReadResult \/ LoopEnds
        <3>1. job'.pc \in InStage
            BY <2>1, <2>6 DEF Enter, Spawn, ReadErr, ReadResult, LoopEnds, JobRecords, InStage
        <3> QED BY <2>1, <2>2, <3>1 DEF SpawnerKeeps, ReportInv, ReportedErrorStays, Returned, InStage
    <2> QED BY <1>1, <2>3, <2>4, <2>5, <2>6 DEF Spawner
<1>2. ASSUME NEW w \in Workers, Active(w), Goroutine(w), ~Panic(w)
      PROVE  ReportInv'
    <2>1. /\ plan' = plan /\ job'.pc = job.pc /\ job'.at = job.at /\ Stages' = Stages
        BY <1>2, GoroutineFrame DEF Stages
    <2>2. Returned => ~Attached(plan)
        BY <1>2, NobodyLeft DEF Returned, InStage
    <2>3. w[1] \in Stages
        BY <1>2 DEF RunnerTypes
    <2>4. Returned /\ job.at \in Stages => plan[job.at].reports # "after"
        BY <2>2 DEF ReportsAttached, RunnerTypes, Stages
    <2> QED BY <2>1, <2>3, <2>4 DEF ReportInv, ReportedErrorStays, Returned
<1>3. ASSUME NEW w \in Workers, Panic(w)
      PROVE  ReportInv'
    <2>1. job' = [job EXCEPT !.pc = "crashed"] /\ plan' = plan /\ Stages' = Stages
        BY <1>3 DEF Panic, Stages
    <2> QED BY <2>1 DEF ReportInv, ReportedErrorStays, Returned, RunnerTypes, JobRecords
<1>4. CASE UNCHANGED vars
    BY <1>4 DEF vars, ReportInv, ReportedErrorStays, Returned, Stages
<1> QED BY <1>1, <1>2, <1>3, <1>4 DEF Next, Goroutines

(* "Force an error" is the last word: in a step function that waits for    *)
(* all its goroutines, no goroutine overwrites the Error it reports when   *)
(* it returns its own error.                                               *)
THEOREM ReportedErrorsStay ==
    ASSUME \A P \in Plans : ReportsAttached(P)
    PROVE  Spec => []ReportedErrorStays
<1>1. Init => ReportInv
    <2> SUFFICES ASSUME Init PROVE ReportInv
        OBVIOUS
    <2>1. Stages # {} => 1 \in Stages
        BY StageType DEF Init
    <2> QED BY <2>1 DEF Init, ReportInv, ReportedErrorStays, Returned
<1>2. Init => StagesDoNotOverlap
    BY DEF Init, StagesDoNotOverlap, Active, Idle
<1>3. ReportInv => ReportedErrorStays
    BY DEF ReportInv
<1> QED BY <1>1, <1>2, <1>3, ReportStep, RunnerTypesInit, TypesStep, OverlapStep, PTL DEF Spec

-----------------------------------------------------------------------------
(* A run without a failed call visits every stage but the optional ones,   *)
(* and Complete, the last of them, is not optional.                        *)
CleanInv ==
    failed = {} /\ Completes =>
        /\ job.at \in Stages
        /\ job.pc \in InStage => Now.mode # "set"
        /\ Returned => task = "complete" \/ (task = "running" /\ ~Attached(plan))

(* The last stage of a plan that has a Complete.                           *)
LEMMA LastIsComplete ==
    ASSUME RunnerTypes, CompletesLast(plan), Completes,
           job.at \in Stages, job.at + 1 \notin Stages
    PROVE  Now.mode = "set" /\ Now.state = "complete" /\ ~Now.optional
<1>1. PICK i \in Stages : plan[i].mode = "set" /\ plan[i].state = "complete"
    BY DEF Completes
<1>2. i = Len(plan) /\ ~plan[i].optional
    BY <1>1 DEF CompletesLast, Stages
<1>3. job.at = Len(plan)
    BY StageType DEF RunnerTypes, JobRecords
<1> QED BY <1>1, <1>2, <1>3 DEF Now

(* What a goroutine does to the state of a task as long as no call fails.  *)
LEMMA LateUpdates ==
    ASSUME NEW w \in Workers, Goroutine(w), failed' = {}
    PROVE  task' \in {task, "running"}
<1>1. ASSUME NEW bad \in BOOLEAN, CallEnds(w, bad) PROVE task' \in {task, "running"}
    <2>1. ~bad
        BY <1>1 DEF CallEnds
    <2> QED BY <1>1, <2>1 DEF CallEnds
<1> QED BY <1>1 DEF Goroutine, Begin, MarkRunning, MakeCall, CallNothing, NoSession, Assign,
                    Test, SaveRead, SaveWrite, Panic

LEMMA CleanStep ==
    ASSUME \A P \in Plans : CompletesLast(P)
    PROVE  RunnerTypes /\ StagesDoNotOverlap /\ CauseInv /\ CleanInv /\ [Next]_vars => CleanInv'
<1> SUFFICES ASSUME RunnerTypes, StagesDoNotOverlap, CauseInv, CleanInv, [Next]_vars,
                    failed' = {}, Completes'
             PROVE  /\ job'.at \in Stages'
                    /\ job'.pc \in InStage => Now'.mode # "set"
                    /\ Returned' => task' = "complete" \/ (task' = "running" /\ ~Attached(plan'))
    BY DEF CleanInv, Attached
<1>1. CASE Spawner
    <2>1. SpawnerKeeps /\ job \in JobRecords
        BY <1>1, SpawnerMoves DEF RunnerTypes
    <2>2. plan' = plan /\ Stages' = Stages /\ Completes /\ failed = {}
        BY <2>1 DEF SpawnerKeeps, Stages, Completes, world
    <2>3. /\ job.at \in Stages /\ ~job.finalErr
          /\ job.pc \in InStage => Now.mode # "set"
        BY <2>2 DEF CleanInv, CauseInv
    <2>4. job.at + 1 \notin Stages => Now.mode = "set" /\ Now.state = "complete" /\ ~Now.optional
        BY <2>2, <2>3, LastIsComplete DEF RunnerTypes
    <2>5. job'.at = job.at => Now' = Now
        BY <2>2 DEF Now
    <2>6. CASE Wait
        BY <2>1, <2>2, <2>3, <2>4, <2>6, DecideMoves DEF Wait, Returned, InStage
    <2>7. CASE UpdateState
        BY <2>1, <2>2, <2>3, <2>4, <2>7, GoOnType DEF UpdateState, Returned, InStage
    <2>8. CASE LeaveOut
        BY <2>1, <2>2, <2>3, <2>4, <2>8, GoOnType DEF LeaveOut, Returned, InStage
    <2>9. CASE ReturnAtOnce
        BY <2>3, <2>9 DEF ReturnAtOnce, Stages
    <2>10. CASE \E H \in SUBSET Hosts : Enter(H)
        <3>1. job'.pc = "spawn" /\ job'.at = job.at /\ Now.mode # "set"
            BY <2>1, <2>10 DEF Enter, JobRecords
        <3> QED BY <3>1, <2>2, <2>3, <2>5 DEF Returned
    <2>11. CASE (\E h \in Hosts : Spawn(h)) \/ ReadErr \/ ReadResult \/ LoopEnds
        <3>1. job.pc \in InStage /\ job'.pc \in InStage /\ job'.at = job.at
            BY <2>1, <2>11 DEF Spawn, ReadErr, ReadResult, LoopEnds, JobRecords, InStage
        <3> QED BY <3>1, <2>2, <2>3, <2>5 DEF Returned, InStage
    <2> QED BY <1>1, <2>6, <2>7, <2>8, <2>9, <2>10, <2>11 DEF Spawner
<1>2. ASSUME NEW w \in Workers, Active(w), Goroutine(w), ~Panic(w)
      PROVE  /\ job'.at \in Stages'
             /\ job'.pc \in InStage => Now'.mode # "set"
             /\ Returned' => task' = "complete" \/ (task' = "running" /\ ~Attached(plan'))
    <2>1. plan' = plan /\ job'.pc = job.pc /\ job'.at = job.at
        BY <1>2, GoroutineFrame
    <2>2. Stages' = Stages /\ Completes /\ Now' = Now /\ failed = {}
        BY <1>2, <2>1, GoroutineMoves DEF Stages, Completes, Now, Keeps
    <2>3. Returned => ~Attached(plan)
        BY <1>2, NobodyLeft DEF Returned, InStage
    <2>4. task' \in {task, "running"}
        BY <1>2, <2>2, LateUpdates
    <2> QED BY <2>1, <2>2, <2>3, <2>4 DEF CleanInv, Returned
<1>3. ASSUME NEW w \in Workers, Panic(w)
      PROVE  /\ job'.at \in Stages'
             /\ job'.pc \in InStage => Now'.mode # "set"
             /\ Returned' => task' = "complete" \/ (task' = "running" /\ ~Attached(plan'))
    <2>1. /\ job' = [job EXCEPT !.pc = "crashed"] /\ plan' = plan /\ failed' = failed
          /\ job \in JobRecords
        BY <1>3 DEF Panic, world, RunnerTypes
    <2>2. Stages' = Stages /\ Completes
        BY <2>1 DEF Stages, Completes
    <2> QED BY <2>1, <2>2 DEF CleanInv, Returned, JobRecords, InStage
<1>4. CASE UNCHANGED vars
    BY <1>4 DEF vars, world, CleanInv, Returned, Stages, Completes, Now
<1> QED BY <1>1, <1>2, <1>3, <1>4 DEF Next, Goroutines

(* A task of which no call has failed ends Complete, if its step function  *)
(* has a Complete at its end: no error return is taken without cause, and  *)
(* no worker's late update overwrites it where they are all waited for.    *)
(* Where they are not, as in InstallCeph, such an update, of a call that   *)
(* went well, is all that may follow: then the task ends Running.          *)
THEOREM CleanRunsComplete ==
    ASSUME \A P \in Plans : CompletesLast(P)
    PROVE  Spec => []CleanRunCompletes
<1>1. Init => CleanInv
    <2> SUFFICES ASSUME Init, Completes PROVE CleanInv
        BY DEF CleanInv
    <2>1. 1 \in Stages
        BY StageType DEF Init, Completes
    <2> QED BY <2>1 DEF Init, CleanInv, Returned, InStage
<1>2. Init => StagesDoNotOverlap
    BY DEF Init, StagesDoNotOverlap, Active, Idle
<1>3. CleanInv => CleanRunCompletes
    BY DEF CleanInv, CleanRunCompletes
<1> QED BY <1>1, <1>2, <1>3, CleanStep, CauseInit, CauseStep, RunnerTypesInit, TypesStep,
           OverlapStep, PTL DEF Spec

-----------------------------------------------------------------------------
(* Step functions without goroutines. One host is served at a time, and a  *)
(* failure is handed on: from the host's function to the loop, from there  *)
(* to the end of the stage and out of the step function.                   *)
SerialInv ==
    Serial =>
        /\ task = "complete" => Returned
        /\ \A w \in Workers : Active(w) => job.pc = "read" /\ w = <<job.at, job.loopVar>>
        /\ job.pc \in InStage => Now.mode # "set"
        /\ failed # {} =>
             \/ job.pc = "read" /\ g[<<job.at, job.loopVar>>].own
             \/ job.pc = "spawn" /\ job.finalErr /\ job.todo = {}
             \/ job.pc = "wait" /\ job.finalErr
             \/ job.pc \in {"returned", "crashed"} /\ task # "complete"

(* A call that fails in such a step function is noted by its host.         *)
LEMMA SerialCallFails ==
    ASSUME RunnerTypes, Serial, NEW w \in Workers, Active(w), Goroutine(w), ~Panic(w),
           plan[w[1]].mode # "set", failed' # failed
    PROVE  g'[w].own
<1>1. Fail(w) /\ g[w].pc \in MidCall
    BY DEF Goroutine, Begin, MarkRunning, MakeCall, CallNothing, NoSession, CallEnds, Assign,
           Test, SaveRead, SaveWrite, world, MidCall
<1>2. This(w).into = "own"
    BY <1>1 DEF RunnerTypes, Serial, This, Calls
<1>3. g' = [g EXCEPT ![w] = [(IF This(w).test THEN Left(w) ELSE After(w, g[w].n)) EXCEPT !.own = TRUE]]
    BY <1>1, <1>2 DEF Fail
<1>4. Left(w) \in GoroutineRecords /\ After(w, g[w].n) \in GoroutineRecords
    <2>1. g[w].n \in 0..Len(Calls(w))
        BY <1>1, CallType DEF RunnerTypes
    <2> QED BY <2>1, AfterBecomes DEF Becomes
<1> QED BY <1>3, <1>4 DEF RunnerTypes, GoroutineRecords

LEMMA SerialStep ==
    ASSUME \A P \in Plans : CompletesLast(P)
    PROVE  RunnerTypes /\ SerialInv /\ [Next]_vars => SerialInv'
<1> SUFFICES ASSUME RunnerTypes, SerialInv, [Next]_vars, Serial'
             PROVE  SerialInv'
    BY DEF SerialInv
<1>1. plan' = plan /\ Stages' = Stages /\ Serial
    <2>1. plan' = plan
        BY SpawnerMoves, GoroutineMoves DEF SpawnerKeeps, Keeps, Next, Goroutines, Panic, vars
    <2> QED BY <2>1 DEF Stages, Serial
<1>2. /\ task = "complete" => Returned
      /\ \A w \in Workers : Active(w) => job.pc = "read" /\ w = <<job.at, job.loopVar>>
      /\ job.pc \in InStage => Now.mode = "each" /\ Now.jump = 0
    BY <1>1 DEF SerialInv, Serial, Now, RunnerTypes
<1>3. failed # {} =>
             \/ job.pc = "read" /\ g[<<job.at, job.loopVar>>].own
             \/ job.pc = "spawn" /\ job.finalErr /\ job.todo = {}
             \/ job.pc = "wait" /\ job.finalErr
             \/ job.pc \in {"returned", "crashed"} /\ task # "complete"
    BY <1>1 DEF SerialInv
<1>4. job'.at = job.at => Now' = Now
    BY <1>1 DEF Now
<1>5. CASE Spawner
    <2>1. SpawnerKeeps /\ job \in JobRecords /\ failed' = failed
        BY <1>5, SpawnerMoves DEF RunnerTypes, SpawnerKeeps, world
    <2>2. ASSUME job.pc # "read" \/ ReadResult, ~\E h \in Hosts : Spawn(h)
          PROVE  \A w \in Workers : ~Active(w)'
        <3> SUFFICES ASSUME NEW w \in Workers, Active(w)' PROVE FALSE
            OBVIOUS
        <3>1. g'[w] = g[w]
            BY <1>5, <2>1, <2>2, DecideMoves
               DEF Spawner, ReturnAtOnce, UpdateState, LeaveOut, Enter, ReadErr, ReadResult, LoopEnds,
                   Wait, Active, Gone, Idle, SpawnerKeeps
        <3>2. Active(w)
            BY <3>1 DEF Active
        <3> QED BY <3>2, <2>2, <1>2 DEF ReadResult, Active
    <2>3. CASE UpdateState \/ LeaveOut \/ ReturnAtOnce
        <3>1. failed' = {} /\ task # "complete" /\ job.pc = "enter"
            BY <2>1, <2>3, <1>2, <1>3 DEF UpdateState, LeaveOut, ReturnAtOnce, Returned
        <3>2. \A w \in Workers : ~Active(w)'
            BY <2>2, <2>3, <3>1 DEF Spawn
        <3>3. job'.pc \in {"enter", "returned"}
            BY <2>1, <2>3, GoOnType DEF UpdateState, LeaveOut, ReturnAtOnce, Return, JobRecords
        <3>4. task' = "complete" => job'.pc = "returned"
            <4>1. SUFFICES ASSUME task' = "complete" PROVE job'.pc = "returned"
                OBVIOUS
            <4>2. UpdateState /\ Now.state = "complete"
                BY <4>1, <2>3, <3>1 DEF UpdateState, LeaveOut, ReturnAtOnce
            <4>3. job.at = Len(plan)
                BY <4>2 DEF UpdateState, CompletesLast, RunnerTypes, Stages, Now
            <4>4. job.at + 1 \notin Stages
                BY <4>3, StageType DEF RunnerTypes
            <4> QED BY <4>2, <4>4, <2>1, GoOnType DEF UpdateState
        <3> QED BY <3>1, <3>2, <3>3, <3>4 DEF SerialInv, Returned, InStage
    <2>4. CASE \E H \in SUBSET Hosts : Enter(H)
        <3>1. failed' = {} /\ task' # "complete" /\ job.pc = "enter" /\ Now.mode # "set"
            BY <2>1, <2>4, <1>2, <1>3 DEF Enter, Returned
        <3>2. \A w \in Workers : ~Active(w)'
            BY <2>2, <2>4, <3>1 DEF Spawn
        <3>3. job'.pc = "spawn" /\ job'.at = job.at
            BY <2>1, <2>4 DEF Enter, JobRecords
        <3> QED BY <3>1, <3>2, <3>3, <1>4 DEF SerialInv, Returned, InStage
    <2>5. ASSUME NEW h \in Hosts, Spawn(h)
          PROVE  SerialInv'
        <3>1. /\ job.pc = "spawn" /\ job'.pc = "read" /\ job'.at = job.at /\ job'.loopVar = h
              /\ task' = task /\ h \in job.todo
              /\ g' = [g EXCEPT ![<<job.at, h>>].pc = "start"]
            BY <2>1, <2>5 DEF Spawn, JobRecords
        <3>2. failed' = {} /\ task' # "complete"
            BY <3>1, <2>1, <1>2, <1>3 DEF Returned
        <3>3. \A w \in Workers : w # <<job.at, h>> => ~Active(w)'
            BY <3>1, <1>2 DEF Active, RunnerTypes
        <3> QED BY <3>1, <3>2, <3>3, <1>2, <1>4 DEF SerialInv, Returned, InStage
    <2>6. ~ReadErr
        BY <1>2 DEF ReadErr, InStage
    <2>7. CASE ReadResult
        <3> DEFINE bad == g[<<job.at, job.loopVar>>].own
        <3>1. /\ job.pc = "read" /\ job'.pc = "spawn" /\ job'.at = job.at /\ task' = task
              /\ job'.finalErr = bad
              /\ bad => job'.todo = {}
            BY <2>1, <2>7 DEF ReadResult, JobRecords
        <3>2. failed' # {} => bad
            BY <3>1, <2>1, <1>3
        <3>3. \A w \in Workers : ~Active(w)'
            BY <2>2, <2>7, <3>1 DEF Spawn
        <3> QED BY <3>1, <3>2, <3>3, <1>2, <1>4 DEF SerialInv, Returned, InStage
    <2>8. CASE LoopEnds
        <3>1. /\ job.pc = "spawn" /\ job'.pc = "wait" /\ job'.at = job.at
              /\ job'.finalErr = job.finalErr /\ task' \in {task, "error"}
            BY <2>1, <2>8 DEF LoopEnds, JobRecords
        <3>2. \A w \in Workers : ~Active(w)'
            BY <2>2, <2>8, <3>1 DEF LoopEnds, Spawn, RunnerTypes
        <3> QED BY <3>1, <3>2, <2>1, <1>2, <1>3, <1>4 DEF SerialInv, Returned, InStage
    <2>9. CASE Wait
        <3>1. job.pc = "wait" /\ Decide
            BY <2>9 DEF Wait
        <3>2. task' # "complete" /\ job'.pc \in {"enter", "returned"}
            BY <3>1, <1>2, DecideMoves DEF Returned
        <3>3. failed' # {} => job'.pc = "returned"
            BY <3>1, <2>1, <1>2, <1>3 DEF Decide, Return, JobRecords, InStage
        <3>4. \A w \in Workers : ~Active(w)'
            BY <2>2, <2>9, <3>1 DEF Spawn
        <3> QED BY <3>2, <3>3, <3>4 DEF SerialInv, Returned, InStage
    <2> QED BY <1>5, <2>3, <2>4, <2>5, <2>6, <2>7, <2>8, <2>9 DEF Spawner
<1>6. ASSUME NEW w \in Workers, Active(w), Goroutine(w), ~Panic(w)
      PROVE  SerialInv'
    <2>1. /\ job'.pc = job.pc /\ job'.at = job.at /\ job'.loopVar = job.loopVar
          /\ \A v \in Workers : Active(v)' => Active(v)
        BY <1>6, GoroutineFrame
    <2>2. job.pc = "read" /\ w = <<job.at, job.loopVar>>
        BY <1>6, <1>2
    <2>3. Keeps
        BY <1>6, GoroutineMoves
    <2>4. PICK r : Becomes(w, r) /\ g' = [g EXCEPT ![w] = r]
        BY <1>6, GoroutineMoves
    <2>5. g'[w] = r
        BY <2>4, <1>6 DEF RunnerTypes
    <2>6. task' # "complete"
        BY <2>2, <2>3, <1>2 DEF Keeps, Returned
    <2>7. failed' # {} => g'[w].own
        <3>1. CASE failed' = failed
            BY <3>1, <2>2, <2>4, <2>5, <1>3 DEF Becomes
        <3>2. CASE failed' # failed
            <4>1. plan[w[1]].mode # "set"
                BY <2>2, <1>2 DEF Now, InStage
            <4> QED BY <3>2, <4>1, <1>1, <1>6, SerialCallFails
        <3> QED BY <3>1, <3>2
    <2> QED BY <2>1, <2>2, <2>6, <2>7, <1>2, <1>4 DEF SerialInv, InStage
<1>7. ASSUME NEW w \in Workers, Active(w), Panic(w)
      PROVE  SerialInv'
    <2>1. job' = [job EXCEPT !.pc = "crashed"] /\ job \in JobRecords /\ task' = task
        BY <1>7 DEF Panic, RunnerTypes
    <2>2. task' # "complete"
        BY <2>1, <1>2, <1>7 DEF Returned
    <2>3. \A v \in Workers : ~Active(v)'
        BY <1>7 DEF Panic, Active, Gone, Idle
    <2> QED BY <2>1, <2>2, <2>3 DEF SerialInv, JobRecords, InStage
<1>8. CASE UNCHANGED vars
    BY <1>1, <1>2, <1>3, <1>8 DEF vars, world, SerialInv, Returned, Active, Now, InStage
<1> QED BY <1>5, <1>6, <1>7, <1>8 DEF Next, Goroutines

(* Where the hosts are served one after the other and errors are returned, *)
(* no later stage overwrites a failure with Complete.                      *)
THEOREM SerialFailuresStop ==
    ASSUME \A P \in Plans : CompletesLast(P)
    PROVE  Spec => []SerialFailureStops
<1>1. Init => SerialInv
    BY DEF Init, SerialInv, Active, Idle, InStage
<1>2. SerialInv => SerialFailureStops
    <2> SUFFICES ASSUME SerialInv, Serial, failed # {}, task = "complete" PROVE FALSE
        BY DEF SerialFailureStops
    <2>1. job.pc = "returned"
        BY DEF SerialInv, Returned
    <2> QED BY <2>1 DEF SerialInv
<1> QED BY <1>1, <1>2, SerialStep, RunnerTypesInit, TypesStep, PTL DEF Spec

-----------------------------------------------------------------------------
(***************************************************************************)
(* The parts of StepReturns that are not about fairness. A goroutine has a *)
(* number of steps before it that its own steps lower and nobody's step    *)
(* raises, since no host is started twice in a stage; the spawner goes on  *)
(* to later stages and within a stage from host to host.                   *)
(***************************************************************************)
PhaseRank(at) == CASE at = "call" -> 5 [] at = "busy" -> 4 [] at = "assign" -> 3
                   [] at = "test" -> 2 [] OTHER -> 1

(* What a goroutine with record r has before it: five steps for each call. *)
RecordRank(w, r) ==
    CASE w[1] \notin Stages -> 0
      [] w[1] \in Stages /\ r.pc = "off" -> 5 * Len(Calls(w)) + 7
      [] w[1] \in Stages /\ r.pc = "start" -> 5 * Len(Calls(w)) + 6
      [] w[1] \in Stages /\ r.pc \in MidCall -> 5 * (Len(Calls(w)) - r.n) + PhaseRank(r.pc)
      [] OTHER -> 0

GoroutineRank(w) == RecordRank(w, g[w])

LEMMA RecordRankType ==
    ASSUME plan \in Plans, NEW w \in Workers, NEW r \in GoroutineRecords,
           w[1] \in Stages, r.pc \in MidCall => r.n \in DOMAIN Calls(w)
    PROVE  /\ Len(Calls(w)) \in Nat
           /\ RecordRank(w, r) \in Nat
           /\ r.pc \in MidCall => /\ r.n \in 1..Len(Calls(w))
                                  /\ RecordRank(w, r) = 5 * (Len(Calls(w)) - r.n) + PhaseRank(r.pc)
                                  /\ PhaseRank(r.pc) \in 1..5
           /\ r.pc = "start" => RecordRank(w, r) = 5 * Len(Calls(w)) + 6
           /\ r.pc = "off" => RecordRank(w, r) = 5 * Len(Calls(w)) + 7
           /\ r.pc = "done" => RecordRank(w, r) = 0
<1>1. Len(Calls(w)) \in Nat /\ DOMAIN Calls(w) = 1..Len(Calls(w))
    BY CallType
<1>2. r.pc \in MidCall => r.n \in 1..Len(Calls(w))
    BY <1>1
<1>3. PhaseRank(r.pc) \in 1..5
    BY DEF PhaseRank
<1>4. r.pc \in MidCall \cup {"off", "start", "done"}
    BY DEF GoroutineRecords
<1>5. r.pc \in MidCall =>
        RecordRank(w, r) = 5 * (Len(Calls(w)) - r.n) + PhaseRank(r.pc)
    BY DEF RecordRank, MidCall
<1>6. /\ r.pc = "start" => RecordRank(w, r) = 5 * Len(Calls(w)) + 6
      /\ r.pc = "off" => RecordRank(w, r) = 5 * Len(Calls(w)) + 7
      /\ r.pc = "done" => RecordRank(w, r) = 0
    BY DEF RecordRank, MidCall
<1>7. RecordRank(w, r) \in Nat
  <2>1. CASE r.pc \in MidCall
    BY <1>1, <1>2, <1>3, <1>5, <2>1
  <2>2. CASE r.pc \notin MidCall
    BY <1>1, <1>4, <1>6, <2>2
  <2> QED BY <2>1, <2>2
<1> QED BY <1>1, <1>2, <1>3, <1>5, <1>6, <1>7

(* After a call comes the next or the end, which is less than any phase of *)
(* the call.                                                               *)
LEMMA AfterIsLess ==
    ASSUME RunnerTypes, NEW w \in Workers, Active(w),
           NEW r \in {After(w, g[w].n), Left(w)}, g[w].pc \in MidCall
    PROVE  /\ RecordRank(w, r) < GoroutineRank(w)
           /\ RecordRank(w, [r EXCEPT !.own = TRUE]) = RecordRank(w, r)
           /\ RecordRank(w, [r EXCEPT !.nodes = {}]) = RecordRank(w, r)
<1>1. g[w] \in GoroutineRecords /\ w[1] \in Stages /\ g[w].n \in DOMAIN Calls(w) /\ plan \in Plans
    BY DEF RunnerTypes
<1>2. /\ Len(Calls(w)) \in Nat /\ g[w].n \in 1..Len(Calls(w))
      /\ GoroutineRank(w) = 5 * (Len(Calls(w)) - g[w].n) + PhaseRank(g[w].pc)
      /\ PhaseRank(g[w].pc) \in 1..5
    BY <1>1, RecordRankType DEF GoroutineRank
<1>3. /\ r \in GoroutineRecords
      /\ r.pc = "done" \/ (r.pc = "call" /\ r.n = g[w].n + 1 /\ g[w].n < Len(Calls(w)))
  <2>1. CASE r = [g[w] EXCEPT !.pc = "done"]
    BY <1>1, <2>1 DEF GoroutineRecords
  <2>2. CASE r # [g[w] EXCEPT !.pc = "done"]
    <3>1. g[w].n < Len(Calls(w)) /\ r = [g[w] EXCEPT !.pc = "call", !.n = g[w].n + 1]
        BY <2>2 DEF After, Left
    <3>2. g[w].n + 1 \in Nat /\ "call" \in MidCall
        BY <1>2 DEF MidCall
    <3> QED BY <1>1, <3>1, <3>2 DEF GoroutineRecords
  <2> QED BY <2>1, <2>2
<1>4. RecordRank(w, r) < GoroutineRank(w)
    <2>1. CASE r.pc = "done"
        <3>1. RecordRank(w, r) = 0
            BY <1>1, <1>3, <2>1 DEF RecordRank, MidCall
        <3> QED BY <1>2, <3>1
    <2>2. CASE r.pc # "done"
        <3>1. RecordRank(w, r) = 5 * (Len(Calls(w)) - (g[w].n + 1)) + 5
            <4>1. RecordRank(w, r) = 5 * (Len(Calls(w)) - r.n) + PhaseRank(r.pc) /\ r.n = g[w].n + 1
                BY <1>1, <1>3, <2>2 DEF RecordRank, MidCall
            <4>2. PhaseRank(r.pc) = 5
                BY <1>3, <2>2 DEF PhaseRank
            <4> QED BY <4>1, <4>2
        <3>2. \A L, n \in Nat, d \in 1..5 : 5 * (L - (n + 1)) + 5 < 5 * (L - n) + d
            OBVIOUS
        <3>3. g[w].n \in Nat
            BY <1>2
        <3> QED BY <1>2, <3>1, <3>2, <3>3
    <2> QED BY <2>1, <2>2
<1>5. /\ [r EXCEPT !.own = TRUE].pc = r.pc /\ [r EXCEPT !.own = TRUE].n = r.n
      /\ [r EXCEPT !.nodes = {}].pc = r.pc /\ [r EXCEPT !.nodes = {}].n = r.n
    BY <1>3 DEF GoroutineRecords
<1>6. /\ RecordRank(w, [r EXCEPT !.own = TRUE]) = RecordRank(w, r)
      /\ RecordRank(w, [r EXCEPT !.nodes = {}]) = RecordRank(w, r)
    BY <1>5 DEF RecordRank
<1> QED BY <1>4, <1>6

LEMMA GoroutineGoesForward ==
    ASSUME RunnerTypes, NEW w \in Workers, Active(w), Goroutine(w), ~Panic(w)
    PROVE  /\ GoroutineRank(w)' < GoroutineRank(w)
           /\ \A v \in Workers : v # w => g'[v] = g[v]
           /\ g'[w].pc # "off"
<1> DEFINE n == g[w].n
           Less(r) == g' = [g EXCEPT ![w] = r] /\ RecordRank(w, r) < GoroutineRank(w)
<1>1. /\ g[w] \in GoroutineRecords /\ w[1] \in Stages /\ g \in [Workers -> GoroutineRecords]
      /\ plan \in Plans
      /\ g[w].pc \in MidCall => g[w].n \in DOMAIN Calls(w)
    BY DEF RunnerTypes
<1>2. /\ Len(Calls(w)) \in Nat
      /\ g[w].pc \in MidCall =>
           /\ n \in 1..Len(Calls(w))
           /\ GoroutineRank(w) = 5 * (Len(Calls(w)) - n) + PhaseRank(g[w].pc)
      /\ g[w].pc = "start" => GoroutineRank(w) = 5 * Len(Calls(w)) + 6
    <2> DEFINE r == g[w]
    <2>1. r \in GoroutineRecords /\ GoroutineRank(w) = RecordRank(w, r)
        BY <1>1 DEF GoroutineRank
    <2> QED BY <1>1, <2>1, RecordRankType
<1>3. ASSUME NEW r, NEW p, g[w].pc \in MidCall, p \in MidCall, r.pc = p, r.n = n,
             PhaseRank(p) < PhaseRank(g[w].pc), g' = [g EXCEPT ![w] = r]
      PROVE  Less(r)
    <2>1. RecordRank(w, r) = 5 * (Len(Calls(w)) - n) + PhaseRank(p)
        BY <1>1, <1>3 DEF RecordRank, MidCall
    <2>2. PhaseRank(p) \in Nat /\ PhaseRank(g[w].pc) \in Nat
        BY DEF PhaseRank
    <2> QED BY <1>2, <1>3, <2>1, <2>2
<1>4. ASSUME g[w].pc \in MidCall, NEW r \in {After(w, n), Left(w)},
             \/ g' = [g EXCEPT ![w] = r]
             \/ g' = [g EXCEPT ![w] = [r EXCEPT !.own = TRUE]]
             \/ g' = [g EXCEPT ![w] = [r EXCEPT !.nodes = {}]]
      PROVE  \E x : Less(x)
    <2>1. /\ RecordRank(w, r) < GoroutineRank(w)
          /\ RecordRank(w, [r EXCEPT !.own = TRUE]) < GoroutineRank(w)
          /\ RecordRank(w, [r EXCEPT !.nodes = {}]) < GoroutineRank(w)
        BY <1>4, AfterIsLess
    <2> QED BY <1>4, <2>1
<1>5. ASSUME NEW bad \in BOOLEAN, g[w].pc \in {"call", "busy"},
             g' = [g EXCEPT ![w] = Assigning(w, bad)]
      PROVE  \E x : Less(x)
    <2>1. Assigning(w, bad).pc = "assign" /\ Assigning(w, bad).n = n
        BY <1>1 DEF Assigning, GoroutineRecords
    <2>2. PhaseRank("assign") < PhaseRank(g[w].pc) /\ "assign" \in MidCall /\ g[w].pc \in MidCall
        BY <1>5 DEF PhaseRank, MidCall
    <2> QED BY <1>3, <1>5, <2>1, <2>2
<1>6. ASSUME Begin(w) PROVE \E x : Less(x)
    <2>1. g' = [g EXCEPT ![w] = After(w, 0)] /\ g[w].pc = "start"
        BY <1>6 DEF Begin
    <2>2. RecordRank(w, After(w, 0)) < 5 * Len(Calls(w)) + 6
        BY <1>1, <1>2 DEF After, RecordRank, MidCall, PhaseRank, GoroutineRecords
    <2> QED BY <1>2, <2>1, <2>2
<1>7. ASSUME MarkRunning(w) \/ SaveWrite(w) PROVE \E x : Less(x)
    <2>1. g[w].pc \in MidCall
        BY <1>7 DEF MarkRunning, SaveWrite, MidCall
    <2> QED BY <1>4, <1>7, <2>1 DEF MarkRunning, SaveWrite
<1>8. ASSUME NEW p \in {"busy", "test", "saving"}, NEW r, r.pc = p, r.n = n,
             g' = [g EXCEPT ![w] = r],
             \/ p \in {"busy", "saving"} /\ g[w].pc = "call"
             \/ p = "test" /\ g[w].pc = "assign"
      PROVE  \E x : Less(x)
    <2>1. PhaseRank(p) < PhaseRank(g[w].pc) /\ p \in MidCall /\ g[w].pc \in MidCall
        BY <1>8 DEF PhaseRank, MidCall
    <2> QED BY <1>3, <1>8, <2>1
<1>9. ASSUME MakeCall(w) PROVE \E x : Less(x)
    <2> DEFINE r == [g[w] EXCEPT !.pc = "busy", !.on = Target(w)]
    <2>1. g' = [g EXCEPT ![w] = r] /\ g[w].pc = "call" /\ r.pc = "busy" /\ r.n = n
        BY <1>1, <1>9 DEF MakeCall, GoroutineRecords
    <2> HIDE DEF r
    <2> QED BY <1>8, <2>1
<1>10. ASSUME Assign(w) PROVE \E x : Less(x)
    <2> DEFINE r == [g[w] EXCEPT !.pc = "test"]
    <2>1. g' = [g EXCEPT ![w] = r] /\ g[w].pc = "assign" /\ r.pc = "test" /\ r.n = n
        BY <1>1, <1>10 DEF Assign, GoroutineRecords
    <2> HIDE DEF r
    <2> QED BY <1>8, <2>1
<1>11. ASSUME SaveRead(w) PROVE \E x : Less(x)
    <2> DEFINE r == [g[w] EXCEPT !.pc = "saving", !.nodes = Nodes]
    <2>1. g' = [g EXCEPT ![w] = r] /\ g[w].pc = "call" /\ r.pc = "saving" /\ r.n = n
        BY <1>1, <1>11 DEF SaveRead, GoroutineRecords
    <2> HIDE DEF r
    <2> QED BY <1>8, <2>1
<1>12. ASSUME g[w].pc \in {"call", "busy"}, Fail(w) PROVE \E x : Less(x)
    <2>1. g[w].pc \in MidCall /\ This(w).into \in {"shared", "inner", "own", "drop", "lost"}
        <3>1. g[w].pc \in MidCall
            BY <1>12 DEF MidCall
        <3>2. This(w) \in CallRecords
            BY <3>1, <1>1, CallType DEF This
        <3> QED BY <3>1, <3>2 DEF CallRecords
    <2>2. CASE This(w).into \in {"shared", "inner"}
        BY <1>5, <1>12, <2>2 DEF Fail
    <2>3. CASE This(w).into = "own"
        <3> DEFINE next == IF This(w).test THEN Left(w) ELSE After(w, n)
        <3>1. g' = [g EXCEPT ![w] = [next EXCEPT !.own = TRUE]]
            BY <1>12, <2>3 DEF Fail
        <3>2. next \in {After(w, n), Left(w)}
            OBVIOUS
        <3> HIDE DEF next
        <3> QED BY <1>4, <2>1, <3>1, <3>2
    <2>4. CASE This(w).into = "lost"
        BY <1>4, <1>12, <2>1, <2>4 DEF Fail
    <2>5. CASE This(w).into = "drop"
        BY <1>4, <1>12, <2>1, <2>5 DEF Fail, Past
    <2> QED BY <2>1, <2>2, <2>3, <2>4, <2>5
<1>13. ASSUME NoSession(w) PROVE \E x : Less(x)
    BY <1>12, <1>13 DEF NoSession
<1>14. ASSUME NEW bad \in BOOLEAN, CallEnds(w, bad) PROVE \E x : Less(x)
    <2>1. g[w].pc = "busy" /\ g[w].pc \in MidCall
        BY <1>14 DEF CallEnds, MidCall
    <2>2. CASE bad
        BY <1>12, <1>14, <2>1, <2>2 DEF CallEnds
    <2>3. CASE ~bad
        <3>1. Succeed(w)
            BY <1>14, <2>3 DEF CallEnds
        <3>2. CASE This(w).into = "shared"
            BY <1>5, <2>1, <3>1, <3>2 DEF Succeed
        <3>3. CASE This(w).into # "shared"
            BY <1>4, <2>1, <3>1, <3>3 DEF Succeed, Past
        <3> QED BY <3>2, <3>3
    <2> QED BY <2>2, <2>3
<1>15. ASSUME CallNothing(w) PROVE \E x : Less(x)
    <2>1. g[w].pc = "call" /\ g[w].pc \in MidCall
        BY <1>15 DEF CallNothing, MidCall
    <2>2. CASE This(w).into = "shared"
        BY <1>5, <1>15, <2>1, <2>2 DEF CallNothing
    <2>3. CASE This(w).into # "shared"
        BY <1>4, <1>15, <2>1, <2>3 DEF CallNothing
    <2> QED BY <2>2, <2>3
<1>16. ASSUME Test(w) PROVE \E x : Less(x)
    <2>1. g[w].pc \in MidCall
        BY <1>16 DEF Test, MidCall
    <2>2. g' = [g EXCEPT ![w] = After(w, n)] \/ g' = [g EXCEPT ![w] = Left(w)]
        BY <1>16 DEF Test, Past
    <2> QED BY <1>4, <2>1, <2>2
<1>17. PICK x : Less(x)
    BY <1>6, <1>7, <1>9, <1>10, <1>11, <1>13, <1>14, <1>15, <1>16 DEF Goroutine
<1>18. g'[w] = x /\ \A v \in Workers : v # w => g'[v] = g[v]
    BY <1>1, <1>17
<1>19. GoroutineRank(w)' = RecordRank(w, x)
    <2>1. plan' = plan
        BY GoroutineFrame
    <2> QED BY <1>18, <2>1 DEF GoroutineRank, RecordRank, Stages, Calls
<1>20. g'[w].pc # "off"
    <2>1. PICK r : Becomes(w, r) /\ g' = [g EXCEPT ![w] = r]
        BY GoroutineMoves
    <2> QED BY <1>1, <2>1 DEF Becomes
<1> QED BY <1>17, <1>18, <1>19, <1>20

RanksTyped == \A w \in Workers : GoroutineRank(w) \in Nat

LEMMA RanksAreNat == RunnerTypes => RanksTyped
<1> SUFFICES ASSUME RunnerTypes, NEW w \in Workers PROVE GoroutineRank(w) \in Nat
    BY DEF RanksTyped
<1>1. CASE w[1] \notin Stages
    BY <1>1 DEF GoroutineRank, RecordRank
<1>2. CASE w[1] \in Stages
    <2> DEFINE r == g[w]
    <2>1. /\ r \in GoroutineRecords /\ GoroutineRank(w) = RecordRank(w, r) /\ plan \in Plans
          /\ r.pc \in MidCall => r.n \in DOMAIN Calls(w)
        BY DEF GoroutineRank, RunnerTypes
    <2> QED BY <1>2, <2>1, RecordRankType
<1> QED BY <1>1, <1>2

(* Within a stage: two steps for each host that has not been started.      *)
StageRank(j) ==
    CASE j.pc = "enter" -> 2 * Cardinality(Hosts) + 2
      [] j.pc = "read" -> 2 * Cardinality(j.todo) + 2
      [] j.pc = "spawn" -> 2 * Cardinality(j.todo) + 1
      [] OTHER -> 0

Later ==
    \/ job'.pc = "returned"
    \/ job'.pc = "enter" /\ job'.at > job.at /\ job'.at \in Stages
    \/ /\ job'.pc \in InStage /\ job'.at = job.at
       /\ StageRank(job') \in Nat /\ StageRank(job') < StageRank(job)

LEMMA SpawnerGoesForward ==
    ASSUME IsFiniteSet(Hosts), RunnerTypes, Spawner
    PROVE  Later
<1>1. /\ job \in JobRecords /\ job.at \in Nat /\ job.todo \in SUBSET Hosts
      /\ job.pc \in InStage => job.at \in Stages
    BY DEF RunnerTypes, JobRecords
<1>2. \A T \in SUBSET Hosts : /\ Cardinality(T) \in Nat /\ Cardinality(T) <= Cardinality(Hosts)
                              /\ \A h \in T : Cardinality(T \ {h}) = Cardinality(T) - 1
    BY FS_Subset, FS_CardinalityType, FS_RemoveElement
<1>3. Cardinality(Hosts) \in Nat
    BY FS_CardinalityType
<1>4. ASSUME NEW n \in Nat \ {0}, GoOn(n) PROVE Later
    BY <1>1, <1>4, GoOnType DEF Later
<1>5. CASE ReturnAtOnce
    BY <1>1, <1>5 DEF ReturnAtOnce, Return, JobRecords, Later
<1>6. CASE UpdateState \/ LeaveOut
    BY <1>4, <1>6 DEF UpdateState, LeaveOut
<1>7. ASSUME NEW H \in SUBSET Hosts, Enter(H) PROVE Later
    <2>1. job.pc = "enter" /\ job'.pc = "spawn" /\ job'.at = job.at /\ job'.todo = H
        BY <1>1, <1>7 DEF Enter, JobRecords
    <2>2. StageRank(job) = 2 * Cardinality(Hosts) + 2 /\ StageRank(job') = 2 * Cardinality(H) + 1
        BY <2>1 DEF StageRank
    <2> QED BY <1>2, <1>3, <2>1, <2>2 DEF Later, InStage
<1>8. ASSUME NEW h \in Hosts, Spawn(h) PROVE Later
    <2>1. /\ job.pc = "spawn" /\ h \in job.todo
          /\ job'.pc = "read" /\ job'.at = job.at /\ job'.todo = job.todo \ {h}
        BY <1>1, <1>8 DEF Spawn, JobRecords
    <2>2. /\ StageRank(job) = 2 * Cardinality(job.todo) + 1
          /\ StageRank(job') = 2 * (Cardinality(job.todo) - 1) + 2
          /\ Cardinality(job.todo \ {h}) \in Nat /\ Cardinality(job.todo) \in Nat
        BY <1>1, <1>2, <2>1 DEF StageRank
    <2>3. StageRank(job') \in Nat
        BY <1>1, <1>2, <2>1 DEF StageRank
    <2> QED BY <2>1, <2>2, <2>3 DEF Later, InStage
<1>9. CASE ReadErr \/ ReadResult
    <2>1. /\ job.pc = "read" /\ job'.pc = "spawn" /\ job'.at = job.at
          /\ job'.todo = job.todo \/ job'.todo = {}
        BY <1>1, <1>9 DEF ReadErr, ReadResult, JobRecords
    <2>2. /\ StageRank(job) = 2 * Cardinality(job.todo) + 2
          /\ StageRank(job') = 2 * Cardinality(job'.todo) + 1
        BY <2>1 DEF StageRank
    <2>3. Cardinality({}) = 0
        BY FS_EmptySet
    <2>4. /\ Cardinality(job.todo) \in Nat /\ Cardinality(job'.todo) \in Nat
          /\ Cardinality(job'.todo) <= Cardinality(job.todo)
        <3>1. Cardinality(job.todo) \in Nat
            BY <1>1, <1>2
        <3>2. Cardinality(job'.todo) \in {Cardinality(job.todo), 0}
            BY <2>1, <2>3
        <3> QED BY <3>1, <3>2
    <2> QED BY <2>1, <2>2, <2>4 DEF Later, InStage
<1>10. CASE LoopEnds
    <2>1. job.pc = "spawn" /\ job'.pc = "wait" /\ job'.at = job.at
        BY <1>1, <1>10 DEF LoopEnds, JobRecords
    <2>2. StageRank(job) = 2 * Cardinality(job.todo) + 1 /\ StageRank(job') = 0
        BY <2>1 DEF StageRank
    <2> QED BY <1>1, <1>2, <2>1, <2>2 DEF Later, InStage
<1>11. CASE Wait
    BY <1>11, DecideMoves DEF Wait, Later
<1> QED BY <1>5, <1>6, <1>7, <1>8, <1>9, <1>10, <1>11 DEF Spawner

(* Where the spawner is, and which goroutines it has not started yet.      *)
NotYet(w) ==
    \/ w[1] > job.at
    \/ /\ w[1] = job.at
       /\ job.pc = "enter" \/ (job.pc \in {"spawn", "read"} /\ w[2] \in job.todo)

PlaceInv ==
    /\ Stages # {} => job.at \in Stages
    /\ job.pc \in InStage => Now.mode # "set"
    /\ job.pc = "read" => g[<<job.at, job.loopVar>>].pc # "off"
    /\ job.pc # "crashed" => \A w \in Workers : NotYet(w) => g[w].pc = "off"

(* A stage is over: later stages are as they were.                         *)
LEMMA PlaceAfterStage ==
    ASSUME RunnerTypes, PlaceInv, plan' = plan, job' \in JobRecords, job.pc # "crashed",
           \/ job'.pc = "enter" /\ job'.at \in Stages /\ job'.at > job.at
           \/ job'.pc = "returned" /\ job'.at = job.at,
           \A w \in Workers : g'[w] = g[w] \/ w[1] = job.at
    PROVE  PlaceInv'
<1>1. job.at \in Nat /\ job'.at \in Nat /\ Stages' = Stages
    BY DEF RunnerTypes, JobRecords, Stages
<1>2. \A w \in Workers : NotYet(w)' => w[1] > job.at
    BY <1>1 DEF NotYet, Workers, AllStages
<1>3. \A w \in Workers : NotYet(w)' => g'[w].pc = "off"
    BY <1>1, <1>2 DEF PlaceInv, NotYet
<1> QED BY <1>1, <1>3 DEF PlaceInv, InStage

LEMMA PlaceSpawner ==
    ASSUME RunnerTypes, PlaceInv, Spawner
    PROVE  PlaceInv'
<1>1. /\ job \in JobRecords /\ plan' = plan /\ Stages' = Stages /\ job' \in JobRecords
      /\ job.pc # "crashed" /\ g \in [Workers -> GoroutineRecords]
    BY SpawnerMoves, ReturnedRests DEF RunnerTypes, SpawnerKeeps, Stages
<1>2. ASSUME NEW n \in Nat \ {0}, GoOn(n), g' = g PROVE PlaceInv'
    <2>1. \/ job'.pc = "enter" /\ job'.at \in Stages /\ job'.at > job.at
          \/ job'.pc = "returned" /\ job'.at = job.at
        BY <1>1, <1>2, GoOnType DEF JobRecords
    <2> QED BY <1>1, <1>2, <2>1, PlaceAfterStage
<1>3. CASE ReturnAtOnce
    <2>1. job'.pc = "returned" /\ job'.at = job.at /\ g' = g
        BY <1>1, <1>3 DEF ReturnAtOnce, Return, JobRecords
    <2> QED BY <1>1, <2>1, PlaceAfterStage
<1>4. CASE UpdateState \/ LeaveOut
    BY <1>2, <1>4 DEF UpdateState, LeaveOut
<1>5. CASE Wait
    <2>1. \A w \in Workers : g'[w] = g[w] \/ w[1] = job.at
        BY <1>1, <1>5 DEF Wait, Decide, Forget
    <2>2. \/ job'.pc = "enter" /\ job'.at \in Stages /\ job'.at > job.at
          \/ job'.pc = "returned" /\ job'.at = job.at
        BY <1>5, DecideMoves DEF Wait
    <2> QED BY <1>1, <2>1, <2>2, PlaceAfterStage
<1>6. ASSUME job'.pc \in InStage, job'.at = job.at, Now.mode # "set",
             job'.pc = "read" => g'[<<job.at, job'.loopVar>>].pc # "off",
             \A w \in Workers : NotYet(w)' => NotYet(w) /\ g'[w] = g[w]
      PROVE  PlaceInv'
    <2>1. Now' = Now
        BY <1>1, <1>6 DEF Now
    <2> QED BY <1>1, <1>6, <2>1 DEF PlaceInv
<1>7. ASSUME NEW H \in SUBSET Hosts, Enter(H) PROVE PlaceInv'
    <2>1. /\ job.pc = "enter" /\ Now.mode # "set" /\ g' = g
          /\ job'.pc = "spawn" /\ job'.at = job.at
        BY <1>1, <1>7 DEF Enter, JobRecords
    <2> QED BY <1>6, <2>1 DEF InStage, NotYet
<1>8. ASSUME NEW h \in Hosts, Spawn(h) PROVE PlaceInv'
    <2> DEFINE v == <<job.at, h>>
    <2>1. /\ job.pc = "spawn" /\ g' = [g EXCEPT ![v].pc = "start"]
          /\ job'.pc = "read" /\ job'.at = job.at /\ job'.todo = job.todo \ {h} /\ job'.loopVar = h
        BY <1>1, <1>8 DEF Spawn, JobRecords
    <2>2. v \in Workers
        BY <2>1, StageType DEF RunnerTypes, Workers, InStage
    <2>3. g'[v].pc = "start" /\ \A w \in Workers : w # v => g'[w] = g[w]
        BY <1>1, <2>1, <2>2 DEF GoroutineRecords
    <2>4. ASSUME NEW w \in Workers, NotYet(w)' PROVE NotYet(w) /\ g'[w] = g[w]
        <3>1. NotYet(w) /\ w # v
            BY <1>1, <2>1, <2>4 DEF NotYet, JobRecords
        <3> QED BY <2>3, <3>1
    <2>5. Now.mode # "set"
        BY <2>1 DEF PlaceInv, InStage
    <2> QED BY <1>6, <2>1, <2>3, <2>4, <2>5 DEF InStage
<1>9. CASE ReadErr \/ ReadResult \/ LoopEnds
    <2>1. /\ job.pc \in InStage /\ job'.pc \in {"spawn", "wait"} /\ job'.at = job.at /\ g' = g
          /\ job'.pc = "spawn" => job.pc = "read" /\ (job'.todo = job.todo \/ job'.todo = {})
        BY <1>1, <1>9 DEF ReadErr, ReadResult, LoopEnds, JobRecords, InStage
    <2>2. Now.mode # "set"
        BY <2>1 DEF PlaceInv
    <2>3. \A w \in Workers : NotYet(w)' => NotYet(w)
        BY <2>1 DEF NotYet
    <2> QED BY <1>6, <2>1, <2>2, <2>3 DEF InStage
<1> QED BY <1>3, <1>4, <1>5, <1>7, <1>8, <1>9 DEF Spawner

Unmoved == job'.pc = job.pc /\ job'.at = job.at /\ job'.todo = job.todo

GoForward ==
    /\ Spawner => Later
    /\ Spawner \/ Unmoved \/ job'.pc = "crashed"
    /\ \A w \in Workers :
         /\ GoroutineRank(w)' \in Nat /\ GoroutineRank(w)' <= GoroutineRank(w)
         /\ Active(w) /\ Goroutine(w) => GoroutineRank(w)' < GoroutineRank(w)

LEMMA RunnerGoesForward ==
    ASSUME IsFiniteSet(Hosts)
    PROVE  RunnerTypes /\ PlaceInv /\ [Next]_vars => PlaceInv' /\ [GoForward]_vars
<1> SUFFICES ASSUME RunnerTypes, PlaceInv, [Next]_vars
             PROVE  PlaceInv' /\ (GoForward \/ UNCHANGED vars)
    OBVIOUS
<1>1. \A w \in Workers : GoroutineRank(w) \in Nat /\ GoroutineRank(w)' \in Nat
    <2>1. RunnerTypes'
        BY TypesStep
    <2>2. RanksTyped'
        BY <2>1, RanksAreNat, PTL
    <2> QED BY <2>2, RanksAreNat DEF RanksTyped
<1>2. Spawner => Later
    BY SpawnerGoesForward
<1>3. ASSUME NEW w \in Workers, Active(w), Panic(w)
      PROVE  /\ job'.pc = "crashed" /\ job'.at = job.at /\ plan' = plan
             /\ \A v \in Workers : /\ GoroutineRank(v)' = 0
                                   /\ Active(v) => GoroutineRank(v) > 0
    <2>1. /\ job'.pc = "crashed" /\ job'.at = job.at /\ plan' = plan
          /\ g' = [v \in Workers |-> Gone] /\ Gone.pc = "done"
        BY <1>3 DEF Panic, Gone, Idle, RunnerTypes, JobRecords
    <2>2. ASSUME NEW v \in Workers PROVE GoroutineRank(v)' = 0
        <3>1. GoroutineRank(v)' = RecordRank(v, Gone)
            BY <2>1 DEF GoroutineRank, RecordRank, Stages, Calls
        <3> QED BY <2>1, <3>1 DEF RecordRank, MidCall
    <2>3. ASSUME NEW v \in Workers, Active(v) PROVE GoroutineRank(v) > 0
        <3> DEFINE r == g[v]
        <3>1. /\ r \in GoroutineRecords /\ v[1] \in Stages /\ plan \in Plans
              /\ r.pc \in MidCall => r.n \in DOMAIN Calls(v)
              /\ r.pc \in MidCall \cup {"start"} /\ GoroutineRank(v) = RecordRank(v, r)
            BY <2>3 DEF RunnerTypes, Active, GoroutineRecords, GoroutineRank
        <3> HIDE DEF r
        <3>2. CASE r.pc = "start"
            <4>1. Len(Calls(v)) \in Nat /\ RecordRank(v, r) = 5 * Len(Calls(v)) + 6
                BY <3>1, <3>2, RecordRankType
            <4> QED BY <3>1, <4>1
        <3>3. CASE r.pc \in MidCall
            <4>1. /\ Len(Calls(v)) \in Nat /\ r.n \in 1..Len(Calls(v)) /\ PhaseRank(r.pc) \in 1..5
                  /\ RecordRank(v, r) = 5 * (Len(Calls(v)) - r.n) + PhaseRank(r.pc)
                BY <3>1, <3>3, RecordRankType
            <4> QED BY <3>1, <4>1
        <3> QED BY <3>1, <3>2, <3>3
    <2> QED BY <2>1, <2>2, <2>3
<1>4. ASSUME NEW w \in Workers, Active(w), Goroutine(w)
      PROVE  GoroutineRank(w)' < GoroutineRank(w)
    <2>1. CASE Panic(w)
        BY <1>3, <1>4, <2>1
    <2>2. CASE ~Panic(w)
        BY <1>4, <2>2, GoroutineGoesForward
    <2> QED BY <2>1, <2>2
<1>5. CASE Spawner
    <2>1. PlaceInv' /\ SpawnerKeeps /\ job.pc # "crashed"
        BY <1>5, PlaceSpawner, SpawnerMoves, ReturnedRests
    <2>2. ASSUME NEW w \in Workers PROVE GoroutineRank(w)' <= GoroutineRank(w)
        <3>1. plan' = plan
            BY <2>1 DEF SpawnerKeeps
        <3>2. \A r : RecordRank(w, r)' = RecordRank(w, r)
            BY <3>1 DEF RecordRank, Stages, Calls
        <3>3. GoroutineRank(w)' = RecordRank(w, g'[w])
            BY <3>1 DEF GoroutineRank, RecordRank, Stages, Calls
        <3>4. CASE g'[w] = g[w]
            BY <1>1, <3>3, <3>4 DEF GoroutineRank
        <3>5. CASE g'[w] = Gone
            <4>1. RecordRank(w, Gone) = 0
                BY DEF RecordRank, Gone, Idle, MidCall
            <4> QED BY <1>1, <3>3, <3>5, <4>1
        <3>6. CASE g'[w] # g[w] /\ g'[w] # Gone
            <4>1. PICK h \in Hosts : Spawn(h)
                <5>1. CASE Wait
                    BY <3>6, <5>1, DecideMoves DEF Wait
                <5>2. ASSUME ReturnAtOnce \/ UpdateState \/ LeaveOut \/ ReadErr \/ ReadResult \/ LoopEnds
                      PROVE  FALSE
                    BY <3>6, <5>2 DEF ReturnAtOnce, UpdateState, LeaveOut, ReadErr, ReadResult, LoopEnds
                <5>3. ASSUME NEW H \in SUBSET Hosts, Enter(H) PROVE FALSE
                    BY <3>6, <5>3 DEF Enter
                <5> QED BY <1>5, <5>1, <5>2, <5>3 DEF Spawner
            <4>2. w = <<job.at, h>> /\ w[2] \in job.todo /\ w[1] = job.at /\ job.pc = "spawn"
                BY <3>6, <4>1 DEF Spawn, RunnerTypes
            <4>3. g[w].pc = "off"
                BY <2>1, <4>2 DEF PlaceInv, NotYet
            <4>4. g'[w] = [g[w] EXCEPT !.pc = "start"] /\ w[1] \in Stages
                BY <2>1, <3>6 DEF SpawnerKeeps
            <4> DEFINE r == g[w]
                       q == g'[w]
            <4>5. /\ r \in GoroutineRecords /\ q \in GoroutineRecords /\ plan \in Plans
                  /\ r.pc = "off" /\ q.pc = "start"
                BY <4>3, <4>4, <2>1 DEF RunnerTypes, SpawnerKeeps, GoroutineRecords
            <4>6. /\ GoroutineRank(w) = RecordRank(w, r) /\ GoroutineRank(w)' = RecordRank(w, q)
                BY <3>3 DEF GoroutineRank
            <4>7. /\ RecordRank(w, r) = 5 * Len(Calls(w)) + 7 /\ RecordRank(w, q) = 5 * Len(Calls(w)) + 6
                  /\ Len(Calls(w)) \in Nat
                <5> HIDE DEF r, q
                <5> QED BY <4>4, <4>5, RecordRankType DEF MidCall
            <4> QED BY <4>6, <4>7
        <3> QED BY <3>4, <3>5, <3>6
    <2> QED BY <1>1, <1>2, <1>4, <1>5, <2>1, <2>2 DEF GoForward
<1>6. ASSUME NEW w \in Workers, Active(w), Goroutine(w) PROVE PlaceInv' /\ GoForward
    <2>1. CASE Panic(w)
        <3>1. PlaceInv'
            BY <1>3, <1>6, <2>1 DEF PlaceInv, Stages, InStage
        <3> QED BY <1>1, <1>2, <1>3, <1>4, <1>6, <2>1, <3>1 DEF GoForward
    <2>2. CASE ~Panic(w)
        <3>1. /\ plan' = plan /\ Unmoved /\ job'.loopVar = job.loopVar
              /\ \A v \in Workers : v # w => g'[v] = g[v]
              /\ g'[w].pc # "off" /\ g[w].pc # "off"
            BY <1>6, <2>2, GoroutineFrame, GoroutineGoesForward DEF Unmoved, Active
        <3>2. \A v \in Workers : v # w => GoroutineRank(v)' = GoroutineRank(v)
            BY <3>1 DEF GoroutineRank, RecordRank, Stages, Calls
        <3>3. \A v \in Workers : GoroutineRank(v)' <= GoroutineRank(v)
            BY <1>1, <1>4, <1>6, <3>2
        <3>4. PlaceInv'
            <4>1. Stages' = Stages /\ Now' = Now /\ \A v \in Workers : NotYet(v)' <=> NotYet(v)
                BY <3>1 DEF Stages, Now, NotYet, Unmoved
            <4>2. job.pc = "read" => <<job.at, job.loopVar>> \in Workers
                BY StageType DEF RunnerTypes, Workers, InStage
            <4> QED BY <3>1, <4>1, <4>2 DEF PlaceInv, Unmoved
        <3> QED BY <1>1, <1>2, <1>4, <3>1, <3>3, <3>4 DEF GoForward
    <2> QED BY <2>1, <2>2
<1>7. CASE UNCHANGED vars
    BY <1>7 DEF vars, PlaceInv, Stages, Now, NotYet
<1> QED BY <1>5, <1>6, <1>7 DEF Next, Goroutines

LEMMA PlaceInit == Init => PlaceInv
<1> SUFFICES ASSUME Init PROVE PlaceInv
    OBVIOUS
<1>1. job.pc = "enter" /\ job.at = 1 /\ plan \in Plans /\ \A w \in Workers : g[w].pc = "off"
    BY DEF Init, Idle
<1>2. Stages # {} => 1 \in Stages
    BY <1>1, StageType
<1> QED BY <1>1, <1>2 DEF PlaceInv, InStage

(* No step function goes round: the spawner goes from host to host and to  *)
(* later stages only, each goroutine from call to call, and no step of one *)
(* puts another back.                                                      *)
THEOREM StepsGoForward ==
    ASSUME IsFiniteSet(Hosts)
    PROVE  Spec => [][GoForward]_vars
<1>1. Spec => [](RunnerTypes /\ PlaceInv)
    BY RunnerTypesInit, TypesStep, PlaceInit, RunnerGoesForward, PTL DEF Spec
<1> QED BY <1>1, RunnerGoesForward, PTL DEF Spec

(* Where a step function that has not returned may go on: the guards of    *)
(* the spawner's steps, or a goroutine, whose steps have none but their    *)
(* place.                                                                  *)
SpawnerMay ==
    \/ plan = <<>>
    \/ /\ job.pc = "enter" /\ job.at \in Stages
       /\ Now.mode = "set" \/ \E H \in SUBSET Hosts : H \in HostSets
    \/ job.pc = "spawn"
    \/ job.pc = "read" /\ Now.mode = "fan"
    \/ job.pc = "read" /\ Now.mode = "each" /\ g[<<job.at, job.loopVar>>].pc = "done"
    \/ job.pc = "wait" /\ \A h \in Hosts : DoneWith(<<job.at, h>>)

SomeoneGoesOn ==
    job.pc \notin {"returned", "crashed"} => SpawnerMay \/ \E w \in Workers : Active(w)

LEMMA StageFields ==
    ASSUME NEW r \in StageRecords
    PROVE  r.mode \in {"fan", "each", "set"} /\ r.scope \in {"all", "some", "one"}
BY Zenon DEF StageRecords

(* No step function is stuck: the WaitGroup and the loop without           *)
(* goroutines wait only for goroutines that were started and run.          *)
THEOREM NoStepIsStuck ==
    ASSUME IsFiniteSet(Hosts)
    PROVE  Spec => []SomeoneGoesOn
<1>1. Spec => [](RunnerTypes /\ PlaceInv)
    BY RunnerTypesInit, TypesStep, PlaceInit, RunnerGoesForward, PTL DEF Spec
<1>2. RunnerTypes /\ PlaceInv => SomeoneGoesOn
    <2> SUFFICES ASSUME RunnerTypes, PlaceInv, job.pc \notin {"returned", "crashed"},
                        \A w \in Workers : ~Active(w)
                 PROVE  SpawnerMay
        BY DEF SomeoneGoesOn
    <2>1. /\ Stages = {} => plan = <<>>
          /\ Stages # {} => job.at \in Stages
          /\ job.at \in Stages => Now \in StageRecords
        BY StageType DEF RunnerTypes, PlaceInv, Now
    <2>2. \A h \in Hosts : job.at \in Stages => <<job.at, h>> \in Workers
        BY StageType DEF RunnerTypes, Workers
    <2>7. \A w \in Workers : g[w].pc \in {"off", "done"}
        BY DEF RunnerTypes, GoroutineRecords, Active
    <2>3. CASE job.pc = "enter"
        <3>1. ASSUME job.at \in Stages PROVE \E H \in SUBSET Hosts : H \in HostSets
            <4>0. HostsOf(plan) \in (SUBSET Hosts) \ {{}}
                BY HostsOfAssumption DEF RunnerTypes
            <4>1. PICK h : h \in HostsOf(plan)
                BY <4>0
            <4>2. Now.scope \in {"all", "some", "one"}
                <5>1. Now \in StageRecords
                    BY <2>1, <3>1
                <5> QED BY <5>1, StageFields
            <4>3. {h} \in SUBSET Hosts /\ HostsOf(plan) \in SUBSET Hosts
                BY <4>0, <4>1
            <4>4. Now.scope = "all" => HostsOf(plan) \in HostSets
                BY DEF HostSets
            <4>5. Now.scope \in {"some", "one"} => {h} \in HostSets
                BY <4>1 DEF HostSets
            <4> QED BY <4>2, <4>3, <4>4, <4>5
        <3> QED BY <2>1, <2>3, <3>1 DEF SpawnerMay
    <2>4. CASE job.pc = "read"
        <3>1. /\ job.at \in Stages /\ job.loopVar \in Hosts /\ Now.mode # "set"
              /\ g[<<job.at, job.loopVar>>].pc # "off"
            BY <2>4 DEF RunnerTypes, PlaceInv, InStage
        <3>2. Now.mode \in {"fan", "each"}
            <4>1. Now \in StageRecords
                BY <2>1, <3>1
            <4>2. Now.mode \in {"fan", "each", "set"}
                BY <4>1, StageFields
            <4> QED BY <3>1, <4>2
        <3>3. g[<<job.at, job.loopVar>>].pc = "done"
            BY <2>2, <2>7, <3>1
        <3> QED BY <2>4, <3>2, <3>3 DEF SpawnerMay
    <2>5. CASE job.pc = "wait"
        <3>1. job.at \in Stages
            BY <2>5 DEF RunnerTypes, InStage
        <3>2. \A h \in Hosts : DoneWith(<<job.at, h>>)
            <4> TAKE h \in Hosts
            <4> DEFINE w == <<job.at, h>>
            <4>1. w \in Workers
                BY <2>2, <3>1
            <4>2. g[w].pc \in {"off", "done"}
                BY <2>7, <4>1
            <4> HIDE DEF w
            <4>3. DoneWith(w)
                BY <4>2 DEF DoneWith
            <4> QED BY <4>3 DEF w
        <3> QED BY <2>5, <3>2 DEF SpawnerMay
    <2>6. job.pc \in {"enter", "spawn", "read", "wait"}
        BY DEF RunnerTypes, JobRecords, InStage
    <2> QED BY <2>3, <2>4, <2>5, <2>6 DEF SpawnerMay
<1> QED BY <1>1, <1>2, PTL
=============================================================================
