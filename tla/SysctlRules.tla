---------------------------- MODULE SysctlRules ----------------------------
(***************************************************************************)
(* modifySysctlConf and addRules: on every host the lines that Kubernetes  *)
(* needs are appended to /etc/sysctl.conf and /etc/profile, unless a look  *)
(* at the file shows that an earlier run has done so. In step 3 a          *)
(* goroutine per host does this, and all of them share the command to look *)
(* with, its response and err; the extensions of nodes and of Ceph serve   *)
(* one host after the other. The step may be run again.                    *)
(***************************************************************************)
EXTENDS Naturals, Sequences, FiniteSets

CONSTANTS
    RuleHosts,  \* the hosts
    Rules,      \* the lines for sysctl.conf, in the order of cfgSet
    SwapRule,   \* the line for /etc/profile
    MaxRounds   \* bound: how often the step is run

ASSUME RoundsAssumption == MaxRounds \in Nat
ASSUME HostsAssumption == IsFiniteSet(RuleHosts)
ASSUME RulesAssumption ==
    /\ Rules \in Seq(STRING) \ {<<>>} /\ SwapRule \in STRING
    /\ \A i, j \in DOMAIN Rules : Rules[i] = Rules[j] => i = j

VARIABLES
    lines,      \* how often each file of each host has each line
    step,       \* the step: how it runs, what is to do, finalErr
    rg,         \* a goroutine per host
    checkFile,  \* checkCMDInfo: the file it looks at; one copy per host, or one for all
    resp,       \* the response: the lines it has
    failed      \* err

ruleVars == <<lines, step, rg, checkFile, resp, failed>>

Files == {"sysctl.conf", "profile"}
Lines == {Rules[i] : i \in DOMAIN Rules} \cup {SwapRule}
All == "all"
Copies == RuleHosts \cup {All}
Resting == [pc |-> "off", file |-> "sysctl.conf", at |-> 0, src |-> {}]

RulesInit ==
    /\ lines = [h \in RuleHosts |-> [f \in Files |-> [l \in Lines |-> 0]]]
    /\ step = [mode |-> "", hosts |-> {}, todo |-> {}, pc |-> "idle", bad |-> FALSE, round |-> 0]
    /\ rg = [h \in RuleHosts |-> Resting]
    /\ checkFile = [c \in Copies |-> "sysctl.conf"]
    /\ resp = [c \in Copies |-> {}]
    /\ failed = [c \in Copies |-> FALSE]

(* The goroutines of step 3 share the variables that the extensions        *)
(* declare inside the loop.                                                *)
Mine(h) == IF step.mode = "shared" THEN All ELSE h
FileRules(f) == IF f = "profile" THEN <<SwapRule>> ELSE Rules

-----------------------------------------------------------------------------
(* The step. *)
Begin(mode, H) ==
    /\ step.pc = "idle" /\ step.round < MaxRounds
    /\ step.round > 0 => mode = step.mode /\ H = step.hosts
    /\ step' = [mode |-> mode, hosts |-> H, todo |-> H, pc |-> "loop", bad |-> FALSE,
                round |-> step.round + 1]
    /\ checkFile' = [c \in Copies |-> "sysctl.conf"]
    /\ resp' = [c \in Copies |-> {}]
    /\ failed' = [c \in Copies |-> FALSE]
    /\ rg' = [h \in RuleHosts |-> Resting]
    /\ UNCHANGED lines

Done(h) == rg[h].pc = "done"

Spawn(h) ==
    /\ step.pc = "loop" /\ h \in step.todo
    /\ rg' = [rg EXCEPT ![h].pc = "look"]
    /\ step' = [step EXCEPT !.todo = @ \ {h},
                            !.pc = IF step.mode = "shared" THEN "readErr" ELSE "result"]
    /\ UNCHANGED <<lines, checkFile, resp, failed>>

(* if err != nil { finalErr = err }, just after the go statement.          *)
ReadErrVar ==
    /\ step.pc = "readErr"
    /\ step' = [step EXCEPT !.pc = "loop", !.bad = @ \/ failed[All]]
    /\ UNCHANGED <<lines, rg, checkFile, resp, failed>>

(* The serial loop returns with the first error. *)
Result ==
    /\ step.pc = "result"
    /\ LET tried == step.hosts \ step.todo
           bad == \E h \in tried : failed[h]
       IN  /\ \A h \in tried : Done(h)
           /\ step' = [step EXCEPT !.pc = "loop", !.bad = bad,
                                   !.todo = IF bad THEN {} ELSE @]
    /\ UNCHANGED <<lines, rg, checkFile, resp, failed>>

Return ==
    /\ step.pc = "loop" /\ step.todo = {}
    /\ \A h \in RuleHosts : rg[h].pc \in {"off", "done"}
    /\ step' = [step EXCEPT !.pc = "idle"]
    /\ UNCHANGED <<lines, rg, checkFile, resp, failed>>

-----------------------------------------------------------------------------
(* A host. Each read or write of a shared variable is a step.              *)
Go(h, pc) == rg' = [rg EXCEPT ![h].pc = pc]

(* sendCMDToK8scc(checkCMDInfo): the file of the shared command is read.   *)
Look(h) ==
    /\ rg[h].pc = "look"
    /\ \/ LET f == checkFile[Mine(h)]
          IN  rg' = [rg EXCEPT ![h].pc = "assign",
                               ![h].src = {l \in Lines : lines[h][f][l] > 0}]
       \/ Go(h, "lookFailed")
    /\ UNCHANGED <<lines, step, checkFile, resp, failed>>

(* resp, err = ..., which are two assignments. *)
AssignResp(h) ==
    /\ rg[h].pc \in {"assign", "lookFailed"}
    /\ resp' = [resp EXCEPT ![Mine(h)] = rg[h].src]
    /\ rg' = [rg EXCEPT ![h].pc = IF rg[h].pc = "assign" THEN "looked" ELSE "notLooked",
                        ![h].src = {}]
    /\ UNCHANGED <<lines, step, checkFile, failed>>

AssignLookErr(h) ==
    /\ rg[h].pc \in {"looked", "notLooked"}
    /\ failed' = [failed EXCEPT ![Mine(h)] = rg[h].pc = "notLooked"]
    /\ Go(h, "test")
    /\ UNCHANGED <<lines, step, checkFile, resp>>

(* if err != nil { return } *)
TestErr(h) ==
    /\ rg[h].pc = "test"
    /\ Go(h, IF failed[Mine(h)] THEN "done" ELSE "take")
    /\ UNCHANGED <<lines, step, checkFile, resp, failed>>

(* The argument of addRules(resp). *)
TakeResp(h) ==
    /\ rg[h].pc = "take"
    /\ rg' = [rg EXCEPT ![h] = [@ EXCEPT !.pc = "add", !.at = 1, !.src = resp[Mine(h)]]]
    /\ UNCHANGED <<lines, step, checkFile, resp, failed>>

Rule(h) == FileRules(rg[h].file)[rg[h].at]
Adding(h) == rg[h].pc = "add" /\ rg[h].at <= Len(FileRules(rg[h].file))

(* Faulty: the look at the file is not heeded. *)
AddAlways(h, ran, ok) ==
    /\ Adding(h) /\ (ok => ran)
    /\ lines' = IF ran THEN [lines EXCEPT ![h][rg[h].file][Rule(h)] = @ + 1] ELSE lines
    /\ rg' = [rg EXCEPT ![h] = [@ EXCEPT !.pc = IF ok THEN "add" ELSE "addFailed",
                                         !.at = rg[h].at + 1]]
    /\ UNCHANGED <<step, checkFile, resp, failed>>

(* A line the file has: 已经添加过 无需添加, no need to add it.            *)
SkipRule(h) ==
    /\ Adding(h) /\ Rule(h) \in rg[h].src
    /\ rg' = [rg EXCEPT ![h].at = @ + 1]
    /\ UNCHANGED <<lines, step, checkFile, resp, failed>>

(* echo >>file. The answer can get lost on the way back.                   *)
AddRule(h, ran, ok) ==
    /\ Adding(h) /\ Rule(h) \notin rg[h].src /\ (ok => ran)
    /\ lines' = IF ran THEN [lines EXCEPT ![h][rg[h].file][Rule(h)] = @ + 1] ELSE lines
    /\ rg' = [rg EXCEPT ![h] = [@ EXCEPT !.pc = IF ok THEN "add" ELSE "addFailed",
                                         !.at = rg[h].at + 1]]
    /\ UNCHANGED <<step, checkFile, resp, failed>>

(* Faulty: the result of addRules is dropped. *)
AssignNil(h) ==
    /\ rg[h].pc = "addFailed" \/ (rg[h].pc = "add" /\ ~Adding(h))
    /\ failed' = [failed EXCEPT ![Mine(h)] = FALSE]
    /\ rg' = [rg EXCEPT ![h] = [@ EXCEPT !.pc = "added", !.at = 0, !.src = {}]]
    /\ UNCHANGED <<lines, step, checkFile, resp>>

(* err = addRules(...) *)
AssignErr(h) ==
    /\ rg[h].pc = "addFailed" \/ (rg[h].pc = "add" /\ ~Adding(h))
    /\ failed' = [failed EXCEPT ![Mine(h)] = rg[h].pc = "addFailed"]
    /\ rg' = [rg EXCEPT ![h] = [@ EXCEPT !.pc = "added", !.at = 0, !.src = {}]]
    /\ UNCHANGED <<lines, step, checkFile, resp>>

(* After sysctl.conf, step 3 turns the shared command to /etc/profile.     *)
Added(h) ==
    /\ rg[h].pc = "added"
    /\ IF failed[Mine(h)] \/ step.mode = "serial" \/ rg[h].file = "profile"
       THEN Go(h, "done") /\ UNCHANGED checkFile
       ELSE /\ rg' = [rg EXCEPT ![h].pc = "look", ![h].file = "profile"]
            /\ checkFile' = [checkFile EXCEPT ![Mine(h)] = "profile"]
    /\ UNCHANGED <<lines, step, resp, failed>>

HostStep(h) ==
    \/ Look(h) \/ AssignResp(h) \/ AssignLookErr(h) \/ TestErr(h) \/ TakeResp(h) \/ SkipRule(h)
    \/ \E ran, ok \in BOOLEAN : AddRule(h, ran, ok)
    \/ AssignErr(h) \/ Added(h)

RulesNext ==
    \/ \E mode \in {"shared", "serial"}, H \in (SUBSET RuleHosts) \ {{}} : Begin(mode, H)
    \/ \E h \in RuleHosts : Spawn(h) \/ HostStep(h)
    \/ ReadErrVar \/ Result \/ Return

RulesSpec == RulesInit /\ [][RulesNext]_ruleVars

-----------------------------------------------------------------------------
(* The types of the variables. *)
RulesTypeOK ==
    /\ \A h \in RuleHosts :
         /\ rg[h].pc \in {"off", "look", "assign", "lookFailed", "looked", "notLooked",
                          "test", "take", "add", "addFailed", "added", "done"}
         /\ rg[h].at \in 0..(Len(Rules) + 1) /\ rg[h].src \subseteq Lines
         /\ \A f \in Files : \A l \in Lines : lines[h][f][l] \in 0..MaxRounds
    /\ step.todo \subseteq step.hosts /\ step.round \in 0..MaxRounds

(* Where no other goroutine shares the variables. *)
Alone == step.mode = "serial" \/ Cardinality(step.hosts) = 1

(* "Already added, no need to add it": without goroutines that share the   *)
(* response, no file ever has a line twice, however often the step runs,   *)
(* fails half way or loses an answer; with them, not in the first run.     *)
RulesAddedOnce ==
    Alone \/ step.round = 1 =>
        \A h \in RuleHosts, f \in Files, l \in Lines : lines[h][f][l] <= 1

(* A run of the extensions that ends without an error has seen to every    *)
(* line of every host, although it stops looking after the first failure.  *)
RulesComplete ==
    step.mode = "serial" /\ step.pc = "idle" /\ ~step.bad =>
        \A h \in step.hosts, i \in DOMAIN Rules : lines[h]["sysctl.conf"][Rules[i]] > 0
=============================================================================
