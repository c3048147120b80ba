----------------------------- MODULE K8sModules -----------------------------
(***************************************************************************)
(* Step 9, InstallK8sModules: the applications of the plan are installed   *)
(* one after the other, in the order of a map. Each installer looks up the *)
(* login of the first master in the cluster status, pushes its images to   *)
(* the registry, adapts its yaml files and has the master's worker create  *)
(* it. The installers return nothing: what fails is left out in silence.   *)
(* Meanwhile the jobs of ClusterStatus go on changing the status.          *)
(***************************************************************************)
EXTENDS ClusterStatus

CONSTANTS
    AppSets,    \* the sets of applications a plan may ask for
    NoApp       \* no application

VARIABLES
    inst,       \* the installer of each job, with a history of what it has done
    passedOver  \* history: an application was left out for want of a login, though there is a master

kvars == <<inst, passedOver>>

Installers == {"heapster", "influxdb", "prometheus", "dns-monitor", "redis", "helm"}

(* execFuncSet: what each installer does. DNS monitor only pushes, Redis   *)
(* only builds, Helm does nothing yet.                                     *)
Does(app) ==
    CASE app \in {"heapster", "influxdb", "prometheus"} -> {"push", "yaml", "build"}
      [] app = "dns-monitor" -> {"push"}
      [] app = "redis" -> {"build"}
      [] app = "helm" -> {}

Off == [pc |-> "off", asked |-> {}, todo |-> {}, app |-> NoApp,
        pushed |-> {}, built |-> {}, missed |-> {}]

K8sInit ==
    /\ StatusInit
    /\ inst = [j \in Jobs |-> Off] /\ passedOver = FALSE

AtApps(j) == Busy(j) /\ This(j).op = "apps"
In(j, pc) == AtApps(j) /\ inst[j].pc = pc

(* The application's call has gone well, or it is one of those missed.     *)
Note(rec, ok) == IF ok THEN rec ELSE [rec EXCEPT !.missed = @ \cup {rec.app}]
With(set, app, does) == IF does \in Does(app) THEN set \cup {app} ELSE set

Begin(j, A) ==
    /\ In(j, "off") /\ A \in AppSets
    /\ inst' = [inst EXCEPT ![j] = [Off EXCEPT !.pc = "loop", !.asked = A, !.todo = A]]
    /\ UNCHANGED <<passedOver, svars>>

Choose(j, app) ==
    /\ In(j, "loop") /\ app \in inst[j].todo \cap Installers
    /\ inst' = [inst EXCEPT ![j].pc = "check", ![j].todo = @ \ {app}, ![j].app = app]
    /\ UNCHANGED <<passedOver, svars>>

(* A name that execFuncSet does not have is the call of a nil function.    *)
CallNil(j) ==
    /\ In(j, "loop") /\ inst[j].todo \ Installers # {}
    /\ Crash
    /\ inst' = [k \in Jobs |-> Off]
    /\ UNCHANGED passedOver

HasLogin == mem.masters # {} /\ mem.ssh # NoMap /\ mem.masters \subseteq mem.ssh

(* Faulty: one application that cannot be installed ends the loop. *)
LeaveOutRest(j) ==
    /\ In(j, "check") /\ (HasLogin => inst[j].app = "prometheus")
    /\ inst' = [inst EXCEPT ![j] =
                  [Note(inst[j], FALSE) EXCEPT !.pc = "loop", !.todo = {}, !.app = NoApp]]
    /\ passedOver' = (passedOver \/ (mem.masters # {} /\ ~HasLogin))
    /\ UNCHANGED svars

(* The early returns: no login of a master, or mail settings of Prometheus *)
(* that are incomplete.                                                    *)
LeaveOut(j) ==
    /\ In(j, "check") /\ (HasLogin => inst[j].app = "prometheus")
    /\ inst' = [inst EXCEPT ![j] = [Note(inst[j], FALSE) EXCEPT !.pc = "loop", !.app = NoApp]]
    /\ passedOver' = (passedOver \/ (mem.masters # {} /\ ~HasLogin))
    /\ UNCHANGED svars

Check(j) ==
    /\ In(j, "check") /\ HasLogin
    /\ inst' = [inst EXCEPT ![j].pc = "push"]
    /\ UNCHANGED <<passedOver, svars>>

(* The results of PushDockerImage, ModifyYaml and Build are dropped.       *)
PushDockerImage(j, ok) ==
    /\ In(j, "push") /\ (~ok => "push" \in Does(inst[j].app))
    /\ inst' = [inst EXCEPT ![j] =
                  [Note(inst[j], ok) EXCEPT !.pc = "yaml",
                      !.pushed = IF ok THEN With(@, inst[j].app, "push") ELSE @]]
    /\ UNCHANGED <<passedOver, svars>>

ModifyYaml(j, ok) ==
    /\ In(j, "yaml") /\ (~ok => "yaml" \in Does(inst[j].app))
    /\ inst' = [inst EXCEPT ![j] = [Note(inst[j], ok) EXCEPT !.pc = "build"]]
    /\ UNCHANGED <<passedOver, svars>>

Build(j, ok) ==
    /\ In(j, "build") /\ (~ok => "build" \in Does(inst[j].app))
    /\ inst' = [inst EXCEPT ![j] =
                  [Note(inst[j], ok) EXCEPT !.pc = "loop", !.app = NoApp,
                      !.built = IF ok THEN With(@, inst[j].app, "build") ELSE @]]
    /\ UNCHANGED <<passedOver, svars>>

(* Faulty: the installer is not reset. *)
EndOnly(j) ==
    /\ In(j, "loop") /\ inst[j].todo = {}
    /\ InstallK8sModules(j)
    /\ UNCHANGED kvars

End(j) ==
    /\ In(j, "loop") /\ inst[j].todo = {}
    /\ InstallK8sModules(j)
    /\ inst' = [inst EXCEPT ![j] = Off]
    /\ UNCHANGED passedOver

Install(j) ==
    \/ \E A \in AppSets : Begin(j, A)
    \/ \E app \in Installers : Choose(j, app)
    \/ CallNil(j) \/ LeaveOut(j) \/ Check(j)
    \/ \E ok \in BOOLEAN : PushDockerImage(j, ok) \/ ModifyYaml(j, ok) \/ Build(j, ok)
    \/ End(j)

(* The server dies with its installers. *)
Die ==
    /\ Crash \/ \E j \in Jobs : Panic(j)
    /\ inst' = [j \in Jobs |-> Off]
    /\ UNCHANGED passedOver

K8sNext ==
    \/ \E j \in Jobs : JobStep(j) /\ UNCHANGED kvars
    \/ \E j \in Jobs : Install(j)
    \/ Die
    \/ Restart /\ UNCHANGED kvars

K8sSpec == K8sInit /\ [][K8sNext]_<<svars, kvars>>

-----------------------------------------------------------------------------
(* The types of the status and of the installers' variables. *)
K8sTypeOK ==
    /\ StatusTypeOK
    /\ \A j \in Jobs :
        /\ inst[j].pc \in {"off", "loop", "check", "push", "yaml", "build"}
        /\ inst[j].pc # "off" => AtApps(j)
        /\ inst[j].app \in Installers \cup {NoApp}
        /\ inst[j].pushed \cup inst[j].built \cup inst[j].missed \subseteq inst[j].asked

(* Once step 6 has set up a master, the installers find its login, also    *)
(* after a restart: unless a removal of nodes has replaced the table, or   *)
(* another job ran beside step 9 or step 6.                                *)
AppsFindMaster == passedOver => seen \cap {"removal", "overlap"} # {}

(* When step 9 is done, every application it was asked for has its images  *)
(* pushed and is created, but for those of which a check or a call failed: *)
(* one that cannot be installed does not keep another from it.             *)
OthersAreInstalled ==
    \A j \in Jobs :
        In(j, "loop") /\ inst[j].todo = {} =>
            \A app \in inst[j].asked \ inst[j].missed :
                /\ "push" \in Does(app) => app \in inst[j].pushed
                /\ "build" \in Does(app) => app \in inst[j].built
=============================================================================
