# A TLA+ model of kubeinstall

kubeinstall is an HTTP server that installs a Kubernetes cluster on a set of
hosts, in steps: check the plan (1), yum repository (2), rpm packages (3),
docker registry (4), etcd (5), masters (6), nodes (7), ceph (8), modules (9),
the extensions EX5, EX7, EX8, and the removal of each step. A client posts a
plan to `/cluster/create/{step}` or `/cluster/remove/{step}`, gets a session
id, and polls `/taskquery/{id}` and `/nodequery/{ip}/{step}` while a goroutine
works on the hosts, through SSH or through a worker agent (`k8scc`).

## The parts of the system

| part | source (under `src/src`) | state | operations | what makes it correct |
|---|---|---|---|---|
| task registry | `session`, `state`, `cluster/module.go`, `runconf` | session ids in use, contexts by id, step-to-id map, two JSON files, two mutexes (and one around `Alloc`) | `Alloc`, `Update`, `Delete`, `DeleteAll`, `UpdateModules`, `DeleteModuleSessionID`, recovery at start | ids are unique, output of tasks is not mixed, files agree with memory through crashes |
| create/remove API | `apiserver/createcluster`, `removecluster`, `taskquery` | none of its own | allocate, map, start the context, clean node entries, spawn the job, reply | the client finds the task it was told; no handler hangs |
| node progress | `apiserver/nodequery` | host -> step -> context, the step posted last, a mutex | POST opens an entry, PUT updates one, DELETE cleans one **without the mutex** | output lands on its host and step, cleaning takes nothing else, the last state is shown |
| jobs | `cluster/*.go` | local variables of a step function that its goroutines share; the task's state; `currentClusterStatus` | one goroutine per host and stage, `WaitGroup`, error variables, update of the task | a failure is reported, a clean run completes, every host is served, stages are in order |
| plan check | `CheckInstallPlan` and the functions `check*` | the messages so far | try each host, check the parameters of each step | no plan is accepted that has a fault, none refused that has none |
| SSH runner | `kubessh` | **one output file for all sessions** | connect, send a file, run a command and search its output | a command is judged by its own output |
| worker agent | `kubeworker` | the child process | run a command, read both pipes | a command ends |
| cluster status | `currentClusterStatus` | nodes, their logins, health, urls; a JSON file | written by the jobs **without a lock** | it names the nodes that joined and their logins, and a restart brings it back |
| module step | `k8smod.go` and its packages | none | build yaml, push images, run kubectl | it finds the master, and one application does not keep another from being installed |
| rest | `config`, `logdebug`, `msg`, `client`, `cmd`, `helm`, ... | settings, logs | pure input and output | - |

They interact in four ways. The API calls the registry and spawns jobs. Jobs
call the registry (`state.Update`) with every command, and the node progress
table through HTTP requests to their own server. Jobs share variables among
their goroutines, and `currentClusterStatus` among themselves. And a restart of
the server brings the registry back from its files, but neither the jobs nor
the session ids nor the node progress.

What is hard to test in this: the interleavings of the goroutines of a stage
over `err`, `client` and the loop variable; updates of one host that overwrite
the state another one set; the DELETE without a mutex; a crash between the
removal and the rewriting of a file; ids that start from 0 beside recovered
contexts; wait groups that must be signalled on every early return. The list
with the lines is `hazards` in `PROJECT.json`.

## Modules

| module | models | how |
|---|---|---|
| `TaskStore` | what the registry promises | an atomic table of contexts that can issue, record, forget and restart |
| `TaskRegistry` | session ids, contexts, step map, files, handlers | one goroutine per request (`pc`, `call`, `sid`), which goes on as the job it spawns |
| `TaskRegistryProofs` | - | theorems about `TaskRegistry` |
| `NodeStore` | what the node progress table promises to tasks one after the other | each POST, PUT and cleaning of an entry in one step, no inner maps, no mutex |
| `NodeQuery` | the node progress table under jobs | inner maps on a heap of references, POST and PUT under the mutex, DELETE in four steps |
| `InstallSteps`, `CephSteps` | the step functions | tables: a sequence of stages, each a sequence of calls with what becomes of their errors |
| `StepRunner` | one job at work | interprets a table: the spawner, a goroutine per host and stage, the shared `err` and `client` |
| `SshOutput` | commands over SSH and the output file they share | a goroutine per host with its own position in the one file |
| `ExecPipe` | a shell command of the worker or the server | the child, two bounded pipes, the reader |
| `SysctlRules` | the rules in `/etc/sysctl.conf` and `/etc/profile` | goroutines over a shared check command, response and `err`; or one host after the other |
| `DockerApply` | the docker options of each host | goroutines over one command list |
| `ClusterStatus` | `currentClusterStatus` and its file | jobs as sequences of the statements that touch it, `runconf.Write` in four steps, crash and restart |
| `K8sModules` | step 9, on top of `ClusterStatus` | an installer per application, one after the other |
| `PlanCheck` | step 1 | the tries on the hosts in any order, the check functions, the verdict |
| `NodeQueryProofs`, `StepRunnerProofs`, `SysctlRulesProofs`, `DockerApplyProofs`, `PlanCheckProofs` | - | theorems about the module they are named for |
| `CommandProofs` | - | theorems about `ExecPipe` and `SshOutput` |
| `ClusterStatusProofs` | - | theorems about `ClusterStatus` and `K8sModules` |
| `MC*` | - | instances for TLC |

### TaskRegistry

`sessionIDSet`, `ContextSet` and `SessionIDMap` are the variables of the code;
`taskFile` and `moduleFile` are the two JSON files, `NoFile` when missing or
torn. Output strings are abstracted to the set of their writers, so that mixing
is visible and appending is not. A critical section that rewrites a file is two
actions: the change in memory with `os.Remove` (the file becomes `NoFile`), and
`WriteFile` with the unlock. A crash can come between them; a crash between the
change in memory and `os.Remove` leaves the old file and no memory, which is
what a crash before the first action leaves. `Restart` ends every goroutine,
empties the session ids and recovers the two tables from the files, as
`session.Init`, `state.Init` and `initMoulesInfo` do. `Alloc` takes the least
free id. A request may be refused before it allocates; a removal is answered
without a ticket, since `execRemoveStep` never writes its response. A `DELETE`
with a malformed id is a delete of 0, as `Atoi`'s error is dropped.

The abstract `TaskStore` has no mutexes, handlers, files or requests. The
refinement maps `issued` to `sessionIDSet` and `store` to `ContextSet`: each
step of the registry is one of the store's, or invisible to clients, and a
restart comes back with all the contexts or none of them.

### NodeQuery

`AllNodesContextSet` maps a host to a reference into `heap`, as a Go map of maps
does: a handler that has read the inner map keeps its reference although the
host may be deleted or given a new map. POST and PUT are a locked read and a
locked write; DELETE is `DeleteRead`, `DeleteKey`, `DeleteStore`, `DeleteCheck`
and `DeleteDrop` without the lock, one request per host before the job is
launched. A request to create or remove names its step, the hosts it cleans
(`MachineSSHSet`), the hosts it works on, and those on which it opens an entry;
these differ in the code, and removals clean and open nothing. `PostAgain`
is the second POST of a job, as in `createDefaultYumStorage` and then
`yumMakeCache`. `Overlap` says whether one job may start before the other ends.

The abstract `NodeStore` has a table `shown` of entries by host and step, the step
opened `last`, and `asked`, the DELETEs that have no answer yet. The refinement maps
`shown` to `View`, the contents of the inner maps as a query sees them (a host with an
empty inner map is like one that is not there), and `asked` to the DELETEs of the jobs'
cleaning. Of a DELETE's steps the one that takes the key out is `Clean`, and it answers
only when the entry is gone. With overlapping jobs this is false, as `progress_lost`
shows.

### InstallSteps, CephSteps and StepRunner

A stage is a loop over hosts: `Fan` (a goroutine per host and `wg.Wait`), `Each`
(one host after the other) or `Set` (an update of the task's state). A call is
one command (`k8scc`, `ssh`), connection or other fallible operation, with the
place its error goes to: the `err` that the goroutines share, an `err` of its own,
or nowhere. The table says also who collects errors (the spawner right after
the `go` statement, or the goroutine), whether the function writes Error itself,
what its caller does with the error, whether the client variable is shared,
which variable the connection uses, and whether `wg.Done` comes first or last.
The tables are one definition per Go function, under its name; the methods of
InstallPlan, NodesExtension and CephExtension that share a name have a prefix.

`StepRunner` gives each read and write of a shared variable an action of its own.
`task` is the State of the task's context: a command sets `running` when it is
sent, and `running` or `error` when it returns. `failed` and `ran` are history.

Abstractions. A list of commands sent in one go is one call. Where the code
ignores the error of `runconf.Read`, the read is assumed to work. The monitor,
storage and client hosts of ceph are one set, `setCephClient` ranges over the
joined nodes and is given the same set. The local requests to `/nodequery` are
left to `NodeQuery` and assumed to arrive. A Go version before 1.22 is assumed
for the loop variable, there being no `go.mod`. A stage whose goroutines outlive
it (`setMaxfileLimit`) keeps them running in the stages after it, and after the step
function has returned: a late update of one may leave a task Running that was Complete,
which `CleanRunCompletes` allows for such tables only (`Attached`).

### PlanCheck

`finalMsg` is the sequence of complaints (none of the texts is empty, so that
comparing sequences is comparing strings). `checkDocker` returns the first of its
complaints and so is one code. Addresses and hosts are the same set; `repo` is the
set of fields of the repository that are filled in.

`Acceptable` is what the comments on the checks mean to accept. Two of the plans it has
do not get through: one etcd host is a complaint that step 1 does not put up with, though
its comment says so (`HAComplaintsAccepted`, run `plan_ha`); and five etcd hosts are
accepted here and refused by step 5, which takes one or three (etcd.go:174, 184). That
the later steps check again, and more than step 1 (the CIDR, master.go:1006; the
repository's and the registry's address, yum.go:318, docker.go:157), is not modelled.

### SshOutput

`ClientRunCMD` opens `/tmp/sshcmd.output` with truncation, lets the session write its
output there, reads the file by its name and looks for the tags of the command.
`ExecSendFileCMD` does the same with its `cp`. `outFile` is a sequence of pieces, each
with its writer; `ssh[s].sent` is the position of a session's own open file, so that
a truncation by another host leaves a hole before the next piece (`WrittenAt`), which
`Nobody` wrote. `Run` may return before all output has arrived, as its error is not
looked at. A host whose command failed runs no other in its list.

The errors of `os.Create` and `ioutil.ReadFile` are dropped (kubessh.go:252, 268).
`CreateFails` lets the command run with its output going nowhere and the file as it was,
so that it is judged by the output of another, maybe of one long over; `ReadFails` gives
a verdict on no output. `file` remembers which of them happened, and the two properties
are about sessions that opened and read the file; what the others do to the file
counts for these too.

`near` is a history variable: the sessions that ran at the same time. Without it
there would be nothing true to say, since two hosts do judge each other's output;
with it, the mixing is shown to reach no further than the overlap.

### ExecPipe

`ExecInfo.Exec` of the worker, which runs every command it is sent, and of the
server, which runs image and yaml commands. The command is a sequence of pieces of
output, to one of two pipes of `PipeSize`; it blocks on a full one. `Exec` reads
standard output to its end, then error output, then waits. `StuckOnlyOnFullPipe`
says when this hangs, and `ExecReturns` is the liveness of all other commands.
Children in the background that keep a pipe open after the command has ended are
left out: all the commands of the configuration run in the foreground.

### SysctlRules

In step 3 a goroutine per host runs `cat` on `sysctl.conf`, appends the lines that
are not there, and turns to `/etc/profile`. The check command, `resp` and `err` are
declared outside the loop: `Mine(h)` is the one copy `All` then, and the host itself
for the extensions, which declare them inside a serial loop (`nodes_ex.go`,
`ceph_ex.go`). `resp, err =` is two actions. A line appended whose answer is lost
counts as failed. The step may run again, with the same hosts.

Between goroutines the step has no promise that holds beyond its first run: a
host may be judged by another's `sysctl.conf`, or by `/etc/profile`, and gets lines
twice or lacks them. The two properties say where the duplicate check is right.

### DockerApply

`conf.ApplyDockerRegistryCMDList` is one slice for all goroutines. Each goroutine
replaces it by a list with `$(GRAPH_PATH)` filled in (installation only; an
extension does this before its loop), by one with its own `OPTIONS` line at the end,
and by a copy with the percentage; each of these is a read and a store. It then
sends the list of that moment to its host, which runs it until a command fails.
`conf.ModifyKubeletCMDList` is filled with values that are the same for all hosts
and has no part here.

The list is modelled as a value. Two appends to a slice with spare capacity may
also write the same cell of its array, and a slice read during a store may be torn;
neither is modelled. `FileList` is the list of `json/kubeworker-cmd.json`; the copy
under `run/runconf` has no `$(GRAPH_PATH)` and needs no filling in. Its
restart of docker comes before the host's own `OPTIONS` line, which is appended at
the end: the configuration is right after the step, and the daemon runs with the
directory of the list until it is started again, which `daemon` shows.

### ClusterStatus and K8sModules

A job is the sequence of the statements of its step function that touch
`currentClusterStatus` (`Program`): assignments, error returns between them,
`runconf.Write`. What it does to hosts in between is in `StepRunner`, and a return
before the first of these statements is no job here. `mem.known` is the set of
fields assigned; `masters`, `nodes` and `ssh` (the keys of `NodesSSH`) are sets of
hosts, since later steps read these. `Write` is `RemoveFile`, `Marshal`, `OpenFile`
and `WriteFile`; another job's `Remove` unlinks a file that is open, and a text
written over a longer one leaves a torn file, which `json.Unmarshal` rejects at the
next start. `WriteFails` is `ioutil.WriteFile` failing to open the file or to write it:
`Write` has removed the old one by then, and no caller looks at the error, so that the job
goes on with memory ahead of a missing or torn file (`Lost`) until some later job writes
it again. `os.Remove` is taken to fail only when there is no file, as in `TaskRegistry`.
`Restart` is `Init`: the status of the file, or the default.

`RemoveNodes` replaces `NodesSSH` by the nodes of its request, which may be nil;
`createStandaloneMaster` then panics (`Panic`). `NodesJoinEX` leaves the nodes that
joined without a login if another failed. Both are exceptions of `LoginsKnown`, which
names them. The loss of one of two concurrent appends is left to `StepRunner`
(`SucceededNodesAreSaved`).

`K8sModules` adds the inside of step 9: `Choose` takes the next application in the
order of a map, `LeaveOut` is the early return of an installer that finds no master
or no login in the status (or, for Prometheus, no mail settings), the three calls
may fail and their results are dropped. `Does` says which calls an installer makes
at all: those of DNS monitor, Redis and Helm are partly commented out. A name that
`execFuncSet` does not have ends the server (`CallNil`).

## Runs

| run | instance | what it shows |
|---|---|---|
| `registry_tasks` | 3 requests, 1 step, 1 run of the server | ids unique, output unmixed, a mapped step has its context, an answered task is known |
| `registry_crash` | 2 requests, 2 steps (one, as stepXKill, not in the initial map), 2 runs, ids -1, 0 and 1 deleted | files are never stale; refines `TaskStore`; every request is answered |
| `registry_reuse` | as `registry_crash` | **violated**: after a restart a task appends to a recovered one's context |
| `progress_serial` | 3 jobs one after the other, 2 hosts, 1 update | cleaning, step of updates, last state shown, no concurrent map writes; refines `NodeStore` |
| `progress_overlap` | 2 jobs at once, 2 hosts | output stays on its host, jobs end |
| `progress_lost` | 3 jobs at once, 1 host | **violated**: cleaning drops another step |
| `steps_plan` | 17 step functions and 5 parts of the ceph ones, 2 hosts; the 24 stages of `InstallCeph`, 1 host | order of stages, causes of errors, reported errors stay, clean runs complete unless goroutines outlive them, serial failures stop, every step returns |
| `steps_complete` | step 3 | **violated**: completes with hosts that failed |
| `steps_lost` | step 7 | **violated**: a node that joined is not saved |
| `plan_ha` | the plans of `host_stages` | **violated**: a plan with one etcd host, an HA complaint, is refused |
| `cluster_status` | 1 master, 2 nodes, 3 jobs of 11 kinds, 2 of them at once, failed writes, 1 crash, 4 sets of applications | the file agrees with memory between jobs, or a write has failed; hosts of the cluster keep their logins; one entry; step 9 finds the master and installs what does not fail |
| `host_stages` | 2 hosts or sessions, 2 commands each; commands of up to 4 pieces over pipes of 2; 2 rules and 2 runs of the step; 7,680 plans of 2 hosts with 0, 1, 2, 3 or 5 etcd hosts | verdicts on the whole output, no stale output, own output when alone; rules once and complete where nothing is shared; own docker directory when no two goroutines meet, never the placeholder; commands return; the verdict on a plan is right |

The violated properties each state a comment of the code; `findings` quotes them.

The tables show more of the kind, for which no run is kept. The goroutines of
`multiExecCMD` connect to the captured loop variable `sshInfo` instead of their
parameter (cluster.go:484) and share one client, so that a removal may clean one host
twice and another never, against the comment at cluster.go:464 (`Target` and
`Assigning` in `StepRunner`). `CompleteMeansNoFailure`
is also violated by `CreateYUMStorage`, where a goroutine that cannot connect does
not set `finalErr` (yum.go:540, against the comment at 549), and by the last stage of
`InstallRPMS` alone (rpms.go:424). `installCoreRPMs` returns nil although a host
failed (rpms.go:188, against 195). `NodesJoin` also saves nodes on which a call
failed, since the result of the last command of `sendCephConf` is dropped. The
goroutines of `setMaxfileLimit` signal first (ceph_sysconfig.go:241), so that
`applySysCfg` may work on a host whose limits are still being written;
`StagesDoNotOverlap` excepts them; their updates may also come after the Complete of
`InstallCeph` (ceph.go:448) and leave the finished task Running. `installRPMS` of the
extensions leaves a task with an empty state (nodes_ex.go:259, ceph_ex.go:336).
`InstallCeph` compares `err` with itself (ceph.go:444), so that a failed
`setCephClient` passes; `InstallEtcd` of a single host returns before it would save
`Etcd` (etcd.go:166), and no ceph extension saves the status.

**Bounds.** Three requests are what it takes for a task, a second one that takes
its step and a delete in between; the runs with a crash have two, one update per
job and two runs of the server, so that a crash can meet every pair of
operations and the recovered state is used. Two hosts suffice for the races over
`err`, the client and the list of nodes, each of which is between two goroutines; a
third would meet no kind of step that the two do not. The whole of `InstallCeph` has one
host: what is new in it is a goroutine left behind beside the stages after it, for which
one is enough; races between hosts are met in its parts. In `NodeQuery` three jobs let one job meet
what two earlier ones, of two steps, have left; six references are the fewest that
three jobs and two hosts can never use up (`RefsAssumption`). `MaxUpdates` and `MaxPuts`
bound the updates of a job, `MaxBoots` the runs of the server, `MaxStages` is the length
of the longest table. Five etcd hosts is the first odd number after 1 and 3.
In `cluster_status` two jobs that overlap and a third after them are what it takes
for a status to be spoilt, saved and used; `MaxOverlap` keeps the third from
starting beside another. In `host_stages` two sessions with two commands each can
meet in every order, and leave output for a later one; four pieces fill one pipe of
two while the other is read; a second run of the rules meets what the first left. A
command of `SshOutput` succeeds, fails by a missing tag or by an error tag, or is
silent. The five parts of `host_stages` are independent, and share a run only
to be checked in one go.

**Symmetry** is used for requests, jobs, hosts and nodes in runs of invariants only
(`steps_plan`, which has a liveness property, uses none) and in `progress_serial`, whose
`PROPERTY` is a refinement without fairness that treats all jobs and hosts alike.
(`FreshRef` of NodeQuery takes an arbitrary unused reference; references are not
permuted.) **Deadlock** is checked for the registry and the node progress, where
`Finished` and `AllFinished` are the idle server. It is off for `StepRunner`,
`plan_ha` and `host_stages`, which describe work that ends, and for
`cluster_status`, where the bounds on jobs and crashes end it.

**Fairness** is weak, per goroutine: the Go scheduler runs what can run, mutexes
are handed over, and a request to the own server is served. A handler is fair,
a client is not obliged to send anything. In `StepRunner` an outstanding call returns
at some time, with or without an error; that an SSH command may hang is outside.
`ExecFairness` lets the child of a command run on unless it is blocked, and its
reader too: the operating system and the scheduler give this. It does not promise
that a pipe is ever read, and `ExecReturns` is stated for commands whose error output
fits one.

## Proofs

The theorems hold for every value of the constants that the named assumptions of a
module allow; TLC evaluates these on every run. A property is seldom inductive, so each
module of proofs begins with the invariant it takes, which TLC checked before it was
proved. `theorems` in `PROJECT.json` lists the results.

`TaskRegistryProofs`, for every set of requests, ids, steps, states and queries and any
bounds (ids are natural numbers, the initial and removable steps are steps, `Running` is
a state, the holder of a free mutex is no request):

* `TypeCorrect`: the type invariant. It needs `TicketInv`, which says at which points
  of its handler a request has a session id: a context is updated under an id.
* `TicketsAreUnique`: with `TicketInv`, since an id that is held is in `sessionIDSet`
  and `Alloc` takes none of these. Deleting a context does not free an id, and a
  restart ends all holders with the set.
* `FilesAreNeverStale`: inductive as it stands. Whoever changes memory removes the
  file in the same critical section, and only the section's end writes it.
* `OutputIsUnmixed`: `OwnerInv` adds that everything a context holds of
  this run of the server was written by the request that holds its id; then
  uniqueness of ids gives that there is one. `IInv` is the conjunction of all of
  these, and `RegistryInvariant` its theorem.
* `AnsweredTasksAreKnown`: `KnownInv` says that a started task has its context from
  `StartTask` on, answered or not, unless a delete of its id was asked for; a delete
  once asked for stays so, and nobody else's request touches the context (uniqueness).
* `MappedStepsHaveContexts`, in the first run of the server: `MapInv` says that an entry
  of the map is `Mapped` by the request that holds its id, and that its context is there
  or a request is settling it (`Settling`: between the entry and the context of a start,
  or between the context and the entry of a delete). A delete resets the first entry it
  finds; by `OneStepPerID` there is no other.
* `RegistryImplementsStore`: every step maps to a step of `TaskStore` or a stutter.
  `Update` needs that the id is issued (`TicketInv`), and `Restart` that the file is
  missing or what memory held (`FilesNeverStale`), the rest is the mapping itself.
* `MutexesComeFree` and `RequestsGoForward`: see below.

`NodeQueryProofs`, for every set of jobs, hosts, steps and requests (`RequestsAssumption`:
entries are opened where the job works; `RefsAssumption`: there are more references than
hosts and jobs together, as `make(map)` never fails; `NobodyAssumption`, `PutsAssumption`):

* `NodeTableTypeCorrect`: `NodeTypes` adds that a worker is in its critical section
  exactly when it holds the mutex, and where a DELETE and a worker can be.
* `HostsShareNoMap`, with overlap or without. The property speaks of the table, but a
  handler stores what it read before: `OneHostEach` and `OwnOutput` say it of every map
  that the table, a DELETE or a worker has in hand (`Uses`).
* `CleaningIsPrecise`, `TablesStartClean`, `UpdatesAreNotLost`, `StateIsTheLastGiven` and
  `MapsHaveOneWriter`, for jobs one after the other (`~Overlap`; with overlap the first is
  what `progress_lost` refutes). `SerialInv`: one task runs (`OneTask`), so a DELETE or a
  worker holds the very map of the table (`DeleteOwn`, `WorkerOwn`), a host that
  was cleaned shows only the output of this job (`CleanedFirst`), and a worker past its
  POST finds its entry (`OpenedOwn`). `MapsHaveOneWriter` is the theorem that DELETE,
  though it takes no mutex, never writes beside a worker.
* `TableImplementsStore`, for jobs one after the other: every step of the table is a step
  of `NodeStore` or a stutter. `NoneEmpty` adds to `SerialInv` that a host without entries
  is on its way out of the table, so that a PUT, which looks only for the host, adds to
  entries that are shown; `DeleteOwn` gives that a DELETE takes its key out of the map
  that queries see, and `OpenedOwn` that a PUT works on the map it found.
* `TasksGoForward` and `NoTaskIsStuck`: see below.

`StepRunnerProofs`, for every set of hosts and every table of stages in the form of
`StageRecords` (`PlansAssumption`, `MaxStagesAssumption`; `HostsOfAssumption`: a step
function has some host to work on, as a stage for one master needs one):

* `RunnerTypeCorrect` and `StagesAreApart`: `RunnerTypes` adds that a stage at work
  and a goroutine that runs belong to the plan. A stage whose `wg.Done` comes last leaves
  nobody behind.
* `ErrorsAreCaused`: `CauseInv`, without a failed call no error variable is set, neither
  the shared ones nor a goroutine's nor the spawner's.
* `ReportedErrorsStay`, for tables in which no goroutine outlives a stage that writes the
  error at the return (`ReportsAttached`); `CleanRunsComplete` and `SerialFailuresStop`,
  for tables that set Complete in their last stage, without a condition
  (`CompletesLast`). `CleanInv`: a run without a failure visits every
  stage that is not optional, and after Complete the task is Complete, or Running if
  some stage leaves goroutines behind (`LateUpdates`: such a goroutine sets no
  other state unless its call fails). `SerialInv`: a failure is handed on from the host to the loop,
  to the end of the stage, to the return. `TablesAssumption` of `MCStepRunner` evaluates
  both hypotheses on all the tables of its runs, that of the whole `InstallCeph` among
  them.
* `StepsGoForward` and `NoStepIsStuck`: see below.

`ClusterStatusProofs`, for every set of hosts, jobs, kinds of jobs and applications and any
bounds (`KindsAssumption`, `BoundsAssumption`; `NoMapAssumption` and `NoFileAssumption`: the
values for a nil map and for no file or a torn one are no others). The programs are
first turned into a table of places (`StatementAt`, `ProgramTable`), so that the invariants
can say where a job is. `StatusInv` is the conjunction of

* the types of the status and of the installers (`StatusTypes`, `InstallersOK`, which gives
  `K8sTypeCorrect` and `NoAppKeepsAnotherOut`), and what is remembered of the past
  (`HistoryOK`);
* `EntryOK`, for `EntryIsInstalledOnce`: the address is in memory or, while the server
  is down, on the file, once the entry is installed;
* `LoginsOK`, for `HostsStayReachable` and `MasterIsFound`: a master or node has its login
  in memory, or the job that made it one is about to enter it (`MastersOK`, `NodesOK`), and
  so in the file and in each snapshot about to be written, since a crash turns these into
  memory;
* `SavedOK`, for `FileHoldsStatus`: without overlap, and unless a write has failed and
  not been made good (`Lost`), what no job is about to save is on the file
  (`OnFileAll`), and the job that is writing writes what memory holds
  (`WritersOK`).

`CommandProofs`, for every set of commands and every size of pipe greater than 0
(`PipeAssumption`), any number of sessions and any number of runs (`RunsAssumption`):

* `ExecInvariant` and from it `VerdictIsOnWholeOutput`: `ExecInv` says that what the command
  has written to a pipe is what was read and what the pipe holds (`NothingLost`), and that
  `Exec` is past a pipe only when the process has ended and the pipe is empty
  (`Progress`). At the end nothing is left in the pipes, so all was read.
* `ExecStuckOnlyOnFullPipe`, from the same invariant: the reader of standard output is
  the only one that can wait for a process that waits for it. `ExecGoesForward` and
  `SmallErrorsNeverStuck`: see below.
* `SshTypeCorrect`, `NoOutputIsStale` and `AloneIsJudgedRight`. The last two are about what
  was read; `SshInv` carries them back to the file: sessions that run
  at one time know of each other (`Met`), so the file has only pieces of sessions that
  each running one knows (`OnlyNear`), because the last truncation was by itself or by
  one it knows; and one that knows of none finds exactly its own pieces
  (`OwnWhenAlone`), for which it must begin at position 0 (`Fresh`). A session that
  failed to open the file is not among those that run (`Running`), as it cannot write.

`DockerApplyProofs`, for any hosts and directories (`GraphAssumption`: a host's
directory is not the placeholder):

* `DockerTypeCorrect` and `NoHostGetsPlaceholder`. `ListFilled` says that after the first
  store the list, and every copy of it that a goroutine has read, are filled: a goroutine
  that stores an older copy stores one it has filled itself. `CopyHeld` says who has a copy.
* `UnracedHostsGetTheirOwn`. `OwnIsLast`: while no two goroutines have met, the one at
  work has its own options at the end of the list, and its host works through a copy that
  ends so; the options of the hosts before it, which are in the list too, come first.

`SysctlRulesProofs`, for any finite set of hosts (`HostsAssumption`), any lines that are
not empty and distinct (`RulesAssumption`, as those of `cfgSet`, rpms.go:230) and any
number of runs: `RulesTypeCorrect`, `RulesAreAddedOnce`, `SerialRunsAreComplete`. `RulesInv`
has five parts: the types; only hosts whose turn has come do anything (`HostsOK`); a run
adds a line to a file at most once, since a line yet to come was added in earlier runs
only (`RoundsOK`), which is the first run under any race; what a host that shares its
variables with nobody knows is what its file has, until it adds the next line itself
(`SoleOK`); and the lines before the one a host of a serial run is at are in its
file (`CompleteOK`).

`PlanCheckProofs`, for any finite set of hosts and any plans over it (`HostsAssumption`,
`PlansAssumption`): `VerdictIsAlwaysRight`. `CheckInv` says that
up to the verdict the complaints are those of hosts, and none just when the hosts tried
are ready. The verdict compares the text of all complaints with one: it equals this one
only if four of the five checks and all the hosts have added nothing (`OnlyThatOne`,
`FiveComplaints`). So the plans accepted are the acceptable ones without a single etcd
host (`Sound`), from which the two halves of `VerdictIsRight` follow.

Every invariant and refinement that a run checks is the statement of a theorem.

### What is proved of liveness

Liveness (`RequestsAnswered`, `TasksEnd`, `StepReturns`, `ExecReturns`) is only
model-checked: fairness and `ENABLED` are out of the prover's reach. Two safety facts
carry each of these four arguments, and both are proved for every value of the constants:
that nobody goes round, and that somebody may always go on. The step from there by weak
fairness of the goroutines is left to TLC.

| property | nobody goes round | somebody may go on |
|---|---|---|
| `RequestsAnswered` | `RequestsGoForward`: a step of a request lowers its rank and raises no other's, through failed writes and a restart as well | `MutexesComeFree`: the holder of a mutex is at the write of its file, which waits for nothing, so handlers cannot wait for each other in a ring |
| `TasksEnd` | `TasksGoForward`: likewise for DELETEs, POSTs and PUTs of a task and its workers, with overlap or without | `NoTaskIsStuck`: a task at work is done, or the mutex is held by one that writes and unlocks, or a worker can make its next call (DELETEs, before it works, wait for nobody) |
| `StepReturns` | `StepsGoForward`: a step of the spawner goes to the next host, or to a later stage; a step of a goroutine lowers its rank, and no step raises one | `NoStepIsStuck`: the spawner has a step, or some goroutine runs; `wg.Wait` and the loops without goroutines wait only for goroutines that were started |
| `ExecReturns` | `ExecGoesForward`: every step lowers what is left to write, to read and to do | `SmallErrorsNeverStuck`: if the error output fits its pipe, the command or its reader has a step |

The guards of the next steps are written out in the theorems of the last column, where
TLA+ would say `ENABLED`. What each needs besides the types: `LockInv` (who is in which
critical section), `StartedOnce` (a worker is off until its task launches it, which
happens once), `PlaceInv` (the goroutines of later stages, and of hosts still to do, are
not started; the host that the spawner reads the result of is) and `ErrCounted` (the error
output so far is counted by the pieces written, so a full pipe would be more than
`SmallErrors` allows). `StepsGoForward` and `NoStepIsStuck` are for a finite set of hosts.

`TablesAssumption`, that the tables of the step functions have the form the theorems of
`StepRunnerProofs` ask for, is evaluated on those tables and not proved.

## Not modelled

* The read-only handlers. Two of them hand a map to the encoder after or while
  others write it, which is listed as a hazard.
* The texts of commands and messages, yaml building, logging, settings, the HTTP
  client and the routing library; the start of the worker; `stepXTest` and
  `SetStatus`, which replace the cluster status for tests.
* The files that jobs download from a host to the server and send on to others
  (ceph keys, the admin configuration), which two jobs at once may overwrite.
* `HealthState`, which is assigned a constant and read by no job.

## Plan

1. Registry, its store and proofs: done.
2. Node progress, its store and proofs: done.
3. Step functions, their runner and proofs: done.
4. Plan check and proofs: done.
5. `SshOutput`, `ExecPipe`, `DockerApply`, `SysctlRules` and proofs: done.
6. `ClusterStatus`, `K8sModules` and proofs: done.
7. A composition of the runner with the registry: the state a client polls.
8. The files on the server that jobs pass on from one host to another.
