----------------------------- MODULE StepRunner -----------------------------
(***************************************************************************)
(* One installation task of kubeinstall at work: the goroutine of the job  *)
(* (the spawner) goes through the stages of its step function, and in each *)
(* stage starts a goroutine per host, reads the shared variable err after  *)
(* every go statement, waits for the WaitGroup and decides how to go on.   *)
(* The state that clients see is the State of the task's context, which    *)
(* every command of every goroutine overwrites through state.Update.       *)
(*                                                                         *)
(* A read or a write of a variable that goroutines share (err, client, the *)
(* loop variable, currentClusterStatus.Nodes) is a step of its own. Any    *)
(* call may fail. The tables Plans come from InstallSteps and CephSteps.   *)
(***************************************************************************)
EXTENDS Naturals, Sequences

CONSTANTS
    Hosts,      \* the hosts of all plans
    Plans,      \* the step functions a behaviour may run
    HostsOf(_), \* the hosts each of them is asked to work on
    MaxStages,  \* the stages of the longest of them, or more
    NoConn      \* the nil *ssh.Client

ASSUME MaxStagesAssumption ==
    MaxStages \in Nat /\ \A P \in Plans : Len(P) <= MaxStages

ASSUME HostsOfAssumption == \A P \in Plans : HostsOf(P) \in (SUBSET Hosts) \ {{}}

(* The fields of a call and of a stage, as InstallSteps describes them.    *)
CallRecords ==
    [op : {"k8scc", "ssh", "connect", "quiet", "mark", "save"},
     into : {"shared", "inner", "own", "drop", "lost"},
     test : BOOLEAN, report : BOOLEAN, maybe : BOOLEAN, quits : BOOLEAN]

StageRecords ==
    [mode : {"fan", "each", "set"}, calls : Seq(CallRecords), state : {"", "complete"},
     collect : {"spawner", "body", "direct"}, reports : {"no", "before", "after"},
     jump : 0..3, scope : {"all", "some", "one"}, client : {"own", "shared"},
     target : {"param", "loopvar"}, done : {"first", "last"},
     starts : BOOLEAN, optional : BOOLEAN]

ASSUME PlansAssumption == \A P \in Plans : P \in Seq(StageRecords)

VARIABLES
    plan,       \* the step function that runs
    task,       \* the State of the task's context
    job,        \* the spawner: pc, stage, hosts to do, loop variable, finalErr
    g,          \* the goroutine of each stage and host
    err,        \* the err each stage's goroutines share: TRUE when not nil
    conn,       \* the host the shared client is connected to
    Nodes,      \* currentClusterStatus.Nodes, as a set
    failed      \* history: the hosts a call has failed on

world == <<Nodes, failed>>
vars == <<plan, task, job, g, err, conn, world>>

Stages == DOMAIN plan
AllStages == 1..MaxStages
Workers == AllStages \X Hosts
Idle == [pc |-> "off", n |-> 0, bad |-> FALSE, own |-> FALSE, on |-> NoConn, nodes |-> {}]
Gone == [Idle EXCEPT !.pc = "done"]

Init ==
    /\ plan \in Plans
    /\ task = "running"
    /\ job = [pc |-> "enter", at |-> 1, todo |-> {}, loopVar |-> NoConn, finalErr |-> FALSE]
    /\ g = [w \in Workers |-> Idle]
    /\ err = [s \in AllStages |-> FALSE]
    /\ conn = NoConn
    /\ Nodes = {} /\ failed = {}

Now == plan[job.at]

-----------------------------------------------------------------------------
(* The spawner. *)
Return == job' = [job EXCEPT !.pc = "returned"]

GoOn(n) ==
    job' = IF job.at + n \in Stages
           THEN [job EXCEPT !.pc = "enter", !.at = @ + n, !.finalErr = FALSE,
                            !.todo = {}, !.loopVar = NoConn]
           ELSE [job EXCEPT !.pc = "returned", !.finalErr = FALSE]

(* A step function without a stage returns at once. *)
ReturnAtOnce ==
    /\ job.pc = "enter" /\ plan = <<>>
    /\ Return
    /\ UNCHANGED <<plan, task, g, err, conn, world>>

UpdateState ==
    /\ job.pc = "enter" /\ job.at \in Stages /\ Now.mode = "set"
    /\ task' = Now.state
    /\ GoOn(1)
    /\ UNCHANGED <<plan, g, err, conn, world>>

LeaveOut ==
    /\ job.pc = "enter" /\ job.at \in Stages /\ Now.optional
    /\ GoOn(1)
    /\ UNCHANGED <<plan, task, g, err, conn, world>>

HostSets ==
    CASE Now.scope = "all"  -> {HostsOf(plan)}
      [] Now.scope = "some" -> SUBSET HostsOf(plan)
      [] Now.scope = "one"  -> {{h} : h \in HostsOf(plan)}

Enter(H) ==
    /\ job.pc = "enter" /\ job.at \in Stages /\ Now.mode # "set"
    /\ H \in HostSets
    /\ job' = [job EXCEPT !.pc = "spawn", !.todo = H]
    /\ task' = IF Now.starts THEN "running" ELSE task
    /\ conn' = NoConn
    /\ UNCHANGED <<plan, g, err, Nodes, failed>>

(* go func ... : a goroutine for the next host of the map. *)
Spawn(h) ==
    /\ job.pc = "spawn" /\ h \in job.todo
    /\ g' = [g EXCEPT ![<<job.at, h>>].pc = "start"]
    /\ job' = [job EXCEPT !.pc = "read", !.todo = @ \ {h}, !.loopVar = h]
    /\ UNCHANGED <<plan, task, err, conn, world>>

(* if err != nil { finalErr = err }, right after the go statement. *)
ReadErr ==
    /\ job.pc = "read" /\ Now.mode = "fan"
    /\ job' = [job EXCEPT !.pc = "spawn",
                          !.finalErr = @ \/ (Now.collect = "spawner" /\ err[job.at])]
    /\ UNCHANGED <<plan, task, g, err, conn, world>>

(* Faulty: the loop over the hosts does not stop at the first error. *)
ReadResultGoesOn ==
    /\ job.pc = "read" /\ Now.mode = "each"
    /\ g[<<job.at, job.loopVar>>].pc = "done"
    /\ job' = [job EXCEPT !.pc = "spawn", !.finalErr = g[<<job.at, job.loopVar>>].own]
    /\ UNCHANGED <<plan, task, g, err, conn, world>>

(* Without goroutines the loop waits for each host and stops at an error. *)
ReadResult ==
    /\ job.pc = "read" /\ Now.mode = "each"
    /\ g[<<job.at, job.loopVar>>].pc = "done"
    /\ LET bad == g[<<job.at, job.loopVar>>].own
       IN  job' = [job EXCEPT !.pc = "spawn", !.finalErr = bad,
                              !.todo = IF bad THEN {} ELSE @]
    /\ UNCHANGED <<plan, task, g, err, conn, world>>

LoopEnds ==
    /\ job.pc = "spawn" /\ job.todo = {}
    /\ job' = [job EXCEPT !.pc = "wait"]
    /\ task' = IF Now.reports = "before" /\ job.finalErr THEN "error" ELSE task
    /\ UNCHANGED <<plan, g, err, conn, world>>

(* wg.Done: the first thing a goroutine does, or the last. *)
DoneWith(w) ==
    g[w].pc \in {"off", "done"} \/ (plan[w[1]].done = "first" /\ g[w].pc # "start")

(* What is left of a stage when its function has returned: nothing but     *)
(* goroutines that still run. Variables nobody can read are reset.         *)
Forget(s) ==
    IF \A h \in Hosts : g[<<s, h>>].pc \in {"off", "done"}
    THEN /\ g' = [w \in Workers |-> IF w[1] = s THEN Gone ELSE g[w]]
         /\ err' = [err EXCEPT ![s] = FALSE]
    ELSE UNCHANGED <<g, err>>

Decide ==
    /\ task' = IF job.finalErr /\ Now.reports = "after" THEN "error" ELSE task
    /\ IF ~job.finalErr THEN GoOn(1)
       ELSE IF Now.jump = 0 THEN Return ELSE GoOn(Now.jump)
    /\ Forget(job.at)
    /\ UNCHANGED <<plan, conn, world>>

(* Faulty: nobody waits. *)
NoWait == job.pc = "wait" /\ Decide

(* Faulty: the test of finalErr is the wrong way round. *)
WaitInverted ==
    /\ job.pc = "wait"
    /\ \A h \in Hosts : DoneWith(<<job.at, h>>)
    /\ task' = IF ~job.finalErr /\ Now.reports = "after" THEN "error" ELSE task
    /\ IF job.finalErr THEN GoOn(1) ELSE Return
    /\ Forget(job.at)
    /\ UNCHANGED <<plan, conn, world>>

(* wg.Wait, and what the function and its caller make of finalErr. *)
Wait ==
    /\ job.pc = "wait"
    /\ \A h \in Hosts : DoneWith(<<job.at, h>>)
    /\ Decide

-----------------------------------------------------------------------------
(* The goroutines. *)
Calls(w) == plan[w[1]].calls
This(w) == Calls(w)[g[w].n]

(* Faulty: one call more than there are. *)
AfterOffByOne(w, n) ==
    IF n <= Len(Calls(w)) THEN [g[w] EXCEPT !.pc = "call", !.n = n + 1]
    ELSE [g[w] EXCEPT !.pc = "done"]

(* After call n: the next one, or the end. *)
After(w, n) ==
    IF n < Len(Calls(w)) THEN [g[w] EXCEPT !.pc = "call", !.n = n + 1]
    ELSE [g[w] EXCEPT !.pc = "done"]

(* Faulty: wg.Done is not deferred, and an early return skips it. *)
LeftWithoutDone(w) == [g[w] EXCEPT !.pc = "left"]

(* An early return. *)
Left(w) == [g[w] EXCEPT !.pc = "done"]

(* Past a call that went well: some functions may return there. *)
Past(w, rec) ==
    \/ g' = [g EXCEPT ![w] = rec]
    \/ This(w).quits /\ g' = [g EXCEPT ![w] = Left(w)]

Begin(w) ==
    /\ g[w].pc = "start"
    /\ g' = [g EXCEPT ![w] = After(w, 0)]
    /\ UNCHANGED <<plan, task, job, err, conn, world>>

(* A shared client is read once, for the call after the connection.        *)
ReadsClient(w) ==
    /\ plan[w[1]].client = "shared"
    /\ g[w].n > 1 /\ Calls(w)[g[w].n - 1].op = "connect"

(* The host a call works on: the goroutine's parameter, or the host of the *)
(* client. In multiExecCMD a connection goes to the loop variable.         *)
Target(w) ==
    CASE plan[w[1]].client = "own" -> w[2]
      [] This(w).op = "connect" -> (IF plan[w[1]].target = "loopvar" THEN job.loopVar ELSE w[2])
      [] ReadsClient(w) -> conn
      [] OTHER -> g[w].on

MarkRunning(w) ==
    /\ g[w].pc = "call" /\ This(w).op = "mark"
    /\ task' = "running"
    /\ g' = [g EXCEPT ![w] = After(w, g[w].n)]
    /\ UNCHANGED <<plan, job, err, conn, world>>

MakeCall(w) ==
    /\ g[w].pc = "call" /\ This(w).op \in {"k8scc", "ssh", "connect", "quiet"}
    /\ ReadsClient(w) => conn # NoConn
    /\ task' = IF This(w).op \in {"k8scc", "ssh"} THEN "running" ELSE task
    /\ g' = [g EXCEPT ![w].pc = "busy", ![w].on = Target(w)]
    /\ UNCHANGED <<plan, job, err, conn, world>>

(* A method of a nil client panics, which ends the server and with it      *)
(* every goroutine.                                                        *)
Panic(w) ==
    /\ g[w].pc = "call" /\ ReadsClient(w) /\ conn = NoConn
    /\ job' = [job EXCEPT !.pc = "crashed"]
    /\ g' = [v \in Workers |-> Gone]
    /\ UNCHANGED <<plan, task, err, conn, world>>

(* Where the outcome of a call goes. *)
Assigning(w, bad) == [g[w] EXCEPT !.pc = "assign", !.bad = bad]

Succeed(w) ==
    IF This(w).into = "shared" THEN g' = [g EXCEPT ![w] = Assigning(w, FALSE)]
    ELSE Past(w, After(w, g[w].n))

Fail(w) ==
    LET next == IF This(w).test THEN Left(w) ELSE After(w, g[w].n) IN
    CASE This(w).into \in {"shared", "inner"} ->
            g' = [g EXCEPT ![w] = Assigning(w, TRUE)]
      [] This(w).into = "own"  -> g' = [g EXCEPT ![w] = [next EXCEPT !.own = TRUE]]
      [] This(w).into = "lost" -> g' = [g EXCEPT ![w] = Left(w)]
      [] This(w).into = "drop" -> Past(w, After(w, g[w].n))

(* There was nothing to send. *)
CallNothing(w) ==
    /\ g[w].pc = "call" /\ This(w).maybe
    /\ g' = [g EXCEPT ![w] = IF This(w).into = "shared" THEN Assigning(w, FALSE)
                             ELSE After(w, g[w].n)]
    /\ UNCHANGED <<plan, task, job, err, conn, world>>

(* No SSH session: the call fails before its first update. *)
NoSession(w) ==
    /\ g[w].pc = "call" /\ This(w).op = "ssh"
    /\ ReadsClient(w) => conn # NoConn
    /\ Fail(w)
    /\ failed' = failed \cup {w[2]}
    /\ UNCHANGED <<plan, task, job, err, conn, Nodes>>

(* Faulty: the state is set to Error by every call that ends. *)
CallEndsInError(w, bad) ==
    /\ g[w].pc = "busy"
    /\ task' = IF This(w).op \in {"k8scc", "ssh"} THEN "error" ELSE task
    /\ IF bad THEN Fail(w) ELSE Succeed(w)
    /\ failed' = IF bad THEN failed \cup {w[2]} ELSE failed
    /\ UNCHANGED <<plan, job, err, conn, Nodes>>

(* The call returns: a command updates the task with its outcome. *)
CallEnds(w, bad) ==
    /\ g[w].pc = "busy"
    /\ task' = IF This(w).op \in {"k8scc", "ssh"}
               THEN (IF bad THEN "error" ELSE "running")
               ELSE IF bad /\ This(w).report THEN "error" ELSE task
    /\ IF bad THEN Fail(w) ELSE Succeed(w)
    /\ failed' = IF bad THEN failed \cup {w[2]} ELSE failed
    /\ UNCHANGED <<plan, job, err, conn, Nodes>>

(* err = ..., or client, err = ConnectToHost() *)
Assign(w) ==
    /\ g[w].pc = "assign"
    /\ err' = [err EXCEPT ![w[1]] = g[w].bad]
    /\ conn' = IF This(w).op = "connect" /\ plan[w[1]].client = "shared"
               THEN (IF g[w].bad THEN NoConn ELSE g[w].on)
               ELSE conn
    /\ g' = [g EXCEPT ![w].pc = "test"]
    /\ UNCHANGED <<plan, task, job, world>>

(* if err != nil: by now err may hold the result of another goroutine. A   *)
(* body that collects errors does so after its last call.                  *)
LastCall(w) == g[w].n = Len(Calls(w)) \/ This(w).into = "inner"

Test(w) ==
    /\ g[w].pc = "test"
    /\ \/ /\ LastCall(w)
          /\ g' = [g EXCEPT ![w] = Left(w)]
          /\ job' = [job EXCEPT !.finalErr =
                       @ \/ (plan[w[1]].collect = "body" /\ err[w[1]])]
       \/ /\ ~LastCall(w)
          /\ IF This(w).test /\ err[w[1]] THEN g' = [g EXCEPT ![w] = Left(w)]
             ELSE Past(w, After(w, g[w].n))
          /\ UNCHANGED job
    /\ UNCHANGED <<plan, task, err, conn, world>>

(* Nodes = saveNode(Nodes, host): read, then write. *)
SaveRead(w) ==
    /\ g[w].pc = "call" /\ This(w).op = "save"
    /\ g' = [g EXCEPT ![w].pc = "saving", ![w].nodes = Nodes]
    /\ UNCHANGED <<plan, task, job, err, conn, world>>

SaveWrite(w) ==
    /\ g[w].pc = "saving"
    /\ Nodes' = g[w].nodes \cup {w[2]}
    /\ g' = [g EXCEPT ![w] = [After(w, g[w].n) EXCEPT !.nodes = {}]]
    /\ UNCHANGED <<plan, task, job, err, conn, failed>>

-----------------------------------------------------------------------------
Spawner ==
    \/ ReturnAtOnce \/ UpdateState \/ LeaveOut
    \/ \E H \in SUBSET Hosts : Enter(H)
    \/ \E h \in Hosts : Spawn(h)
    \/ ReadErr \/ ReadResult \/ LoopEnds \/ Wait

Goroutine(w) ==
    \/ Begin(w) \/ MarkRunning(w) \/ MakeCall(w) \/ CallNothing(w) \/ NoSession(w)
    \/ \E bad \in BOOLEAN : CallEnds(w, bad)
    \/ Assign(w) \/ Test(w) \/ SaveRead(w) \/ SaveWrite(w) \/ Panic(w)

(* The return of the step function does not stop the goroutines that it    *)
(* has not waited for.                                                     *)
Active(w) == g[w].pc \notin {"off", "done"}
Goroutines == \E w \in Workers : Active(w) /\ Goroutine(w)

Next == Spawner \/ Goroutines

Spec == Init /\ [][Next]_vars

(* The runtime runs some goroutine that can run, and a call returns.       *)
FairSpec ==
    /\ Spec
    /\ WF_vars(Spawner)
    /\ WF_vars(Goroutines)

-----------------------------------------------------------------------------
(* Three shapes that tables can have. A plan is attached if it waits for   *)
(* all its goroutines to end: all are but InstallCeph, in whose            *)
(* setMaxfileLimit they call wg.Done before they work. A step function     *)
(* that reports the error it returns is attached; in one that ends         *)
(* Complete, that is the last stage.                                       *)
Attached(P) == \A i \in DOMAIN P : P[i].done = "last"
ReportsAttached(P) == (\E i \in DOMAIN P : P[i].reports = "after") => Attached(P)
CompletesLast(P) ==
    \A i \in DOMAIN P : P[i].mode = "set" /\ P[i].state = "complete" =>
        i = Len(P) /\ ~P[i].optional

Returned == job.pc = "returned"
(* The types of the spawner's and the goroutines' variables. *)
TypeOK ==
    /\ task \in {"running", "error", "complete", ""}
    /\ job.pc \in {"enter", "spawn", "read", "wait", "returned", "crashed"}
    /\ job.todo \subseteq Hosts
    /\ err \in [AllStages -> BOOLEAN]
    /\ conn \in Hosts \cup {NoConn}
    /\ \A w \in Workers :
         /\ g[w].pc \in {"off", "start", "call", "busy", "assign", "test", "saving", "done"}
         /\ g[w].pc \in {"call", "busy", "assign", "test", "saving"} => g[w].n \in DOMAIN Calls(w)
    /\ Nodes \subseteq Hosts /\ failed \subseteq Hosts

(* "Return when the workers of all goroutines have installed (the caller   *)
(* needs them all)": no goroutine of one stage runs in another, or after   *)
(* the step function has returned, but for those of setMaxfileLimit, which *)
(* call wg.Done before they work.                                          *)
StagesDoNotOverlap ==
    \A w \in Workers :
        Active(w) /\ plan[w[1]].done = "last"
        => w[1] = job.at /\ job.pc \in {"spawn", "read", "wait"}

(* No false alarm: a task that ends with Error, or a step function that    *)
(* returns an error, has had a call that failed.                           *)
ErrorsHaveACause ==
    Returned /\ (task = "error" \/ job.finalErr) => failed # {}

(* "In case the last one went well and overwrote the state, force an       *)
(* error": a step function that reports the error it returns leaves the    *)
(* task in Error, and no goroutine overwrites that afterwards.             *)
ReportedErrorStays ==
    Returned /\ job.finalErr /\ plan[job.at].reports = "after" => task = "error"

(* A task of which no call failed ends Complete, for the step functions    *)
(* that ever set it: no error return is taken, no stage passed over, and   *)
(* no late update of a goroutine overwrites it. Only where goroutines      *)
(* outlive the step function (InstallCeph, for setMaxfileLimit's call      *)
(* wg.Done first) may one of their updates come after Complete, and leave  *)
(* the finished task Running for ever.                                     *)
Completes == \E i \in Stages : plan[i].mode = "set" /\ plan[i].state = "complete"
CleanRunCompletes ==
    Returned /\ failed = {} /\ Completes =>
        task = "complete" \/ (task = "running" /\ ~Attached(plan))

(* Where the hosts are served one after the other and errors are returned, *)
(* a failure is the last word: the task ends in Error, or Complete is not  *)
(* reached at least.                                                       *)
Serial == \A i \in Stages :
            \/ plan[i].mode = "set"
            \/ /\ plan[i].mode = "each" /\ plan[i].jump = 0
               /\ \A k \in DOMAIN plan[i].calls : plan[i].calls[k].into = "own"
SerialFailureStops == Serial /\ failed # {} => task # "complete"

(* Every step function returns, unless the server panics: no goroutine is  *)
(* missing from a WaitGroup.                                               *)
StepReturns == <>(job.pc \in {"returned", "crashed"})

-----------------------------------------------------------------------------
(* What comments of the code say. *)

(* "The whole flow has no error at all: complete."                         *)
CompleteMeansNoFailure == Returned /\ task = "complete" => failed = {}

(* "All operations succeeded: save the node in the global list of nodes."  *)
SucceededNodesAreSaved == Returned /\ failed = {} => Nodes = HostsOf(plan)
=============================================================================
