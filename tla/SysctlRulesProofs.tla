------------------------- MODULE SysctlRulesProofs -------------------------
(***************************************************************************)
(* For every set of hosts, every list of lines and any number of runs of   *)
(* the step: no line is added twice where the look at the file is a host's *)
(* own, nor in a first run; and a serial run without an error is complete. *)
(***************************************************************************)
EXTENDS SysctlRules, FiniteSetTheorems, TLAPS

Places == {"off", "look", "assign", "lookFailed", "looked", "notLooked",
           "test", "take", "add", "addFailed", "added", "done"}
Positions == 0..(Len(Rules) + 1)

RuleTypes ==
    /\ lines \in [RuleHosts -> [Files -> [Lines -> Nat]]]
    /\ step \in [mode : {"", "shared", "serial"}, hosts : SUBSET RuleHosts,
                 todo : SUBSET RuleHosts, pc : {"idle", "loop", "readErr", "result"},
                 bad : BOOLEAN, round : 0..MaxRounds]
    /\ rg \in [RuleHosts -> [pc : Places, file : Files, at : Positions,
                             src : SUBSET Lines]]
    /\ checkFile \in [Copies -> Files]
    /\ resp \in [Copies -> SUBSET Lines]
    /\ failed \in [Copies -> BOOLEAN]
    /\ \A h \in RuleHosts : rg[h].pc = "add" => rg[h].at # 0

(* Only the hosts whose turn has come do anything, and a host turns to     *)
(* /etc/profile only in step 3.                                            *)
HostsOK ==
    /\ step.todo \subseteq step.hosts
    /\ step.round = 0 => step.hosts = {}
    /\ \A h \in RuleHosts :
         /\ h \notin step.hosts \ step.todo => rg[h].pc = "off"
         /\ rg[h].pc = "off" \/ step.mode = "serial" => rg[h].file = "sysctl.conf"

(* The rules that a host has yet to come to in this run of the step.       *)
Before == {"off", "look", "assign", "lookFailed", "looked", "notLooked", "test", "take"}

Pending(h, f, l) ==
    \/ rg[h].pc \in Before /\ f = rg[h].file
    \/ /\ rg[h].pc = "add" /\ f = rg[h].file
       /\ \E i \in rg[h].at..Len(FileRules(f)) : FileRules(f)[i] = l
    \/ rg[h].file = "sysctl.conf" /\ f = "profile"

(* A run adds a line to a file once at most, whatever the host was told    *)
(* that the file has.                                                      *)
RoundsOK ==
    \A h \in RuleHosts, f \in Files, l \in Lines :
        /\ lines[h][f][l] <= step.round
        /\ step.round > 0 /\ Pending(h, f, l) => lines[h][f][l] < step.round

(* What a host that shares its variables with nobody knows of its file:    *)
(* the command looks at the file the host is at, and the answer names the  *)
(* lines that the file has, until the host itself adds the next.           *)
Sole == step.mode = "serial" \/ \E x \in RuleHosts : step.hosts = {x}
Found(h) == {l \in Lines : lines[h][rg[h].file][l] > 0}

Knows(h) ==
    /\ rg[h].pc \in {"off", "look"} => checkFile[Mine(h)] = rg[h].file
    /\ rg[h].pc = "assign" => rg[h].src = Found(h)
    /\ rg[h].pc \in {"looked", "take"} => resp[Mine(h)] = Found(h)
    /\ rg[h].pc = "test" /\ ~failed[Mine(h)] => resp[Mine(h)] = Found(h)
    /\ rg[h].pc = "add" =>
         \A i \in rg[h].at..Len(FileRules(rg[h].file)) :
            LET l == FileRules(rg[h].file)[i] IN l \in rg[h].src <=> l \in Found(h)

SoleOK ==
    Sole => /\ \A h \in step.hosts : Knows(h)
            /\ \A h \in RuleHosts, f \in Files, l \in Lines : lines[h][f][l] <= 1

(* How far a host of the extensions has come: the lines before the one it  *)
(* is at are in the file, and without an error they all are. A loop that   *)
(* has met no error has finished the hosts it has begun.                   *)
HasRule(h, i) == lines[h]["sysctl.conf"][Rules[i]] > 0

ComesTo(h) ==
    /\ rg[h].pc = "add" => \A i \in DOMAIN Rules : i < rg[h].at => HasRule(h, i)
    /\ rg[h].pc \in {"added", "done"} /\ ~failed[h] => \A i \in DOMAIN Rules : HasRule(h, i)

CompleteOK ==
    step.mode = "serial" =>
        /\ step.pc # "readErr" /\ \A h \in step.hosts : ComesTo(h)
        /\ step.pc \in {"loop", "idle"} /\ ~step.bad =>
             \A h \in step.hosts \ step.todo : rg[h].pc = "done" /\ ~failed[h]
        /\ step.pc = "idle" => step.todo = {}

RulesInv == RuleTypes /\ HostsOK /\ RoundsOK /\ SoleOK /\ CompleteOK

-----------------------------------------------------------------------------
LEMMA FileRulesFacts ==
    /\ Len(Rules) \in Nat \ {0} /\ DOMAIN Rules = 1..Len(Rules)
    /\ \A f \in Files :
         /\ Len(FileRules(f)) \in 1..Len(Rules)
         /\ \A i \in 1..Len(FileRules(f)) : FileRules(f)[i] \in Lines
         /\ \A i, j \in 1..Len(FileRules(f)) : FileRules(f)[i] = FileRules(f)[j] => i = j
<1>1. Len(Rules) \in Nat \ {0} /\ DOMAIN Rules = 1..Len(Rules)
    BY RulesAssumption
<1>2. ASSUME NEW f \in Files
      PROVE  /\ Len(FileRules(f)) \in 1..Len(Rules)
             /\ \A i \in 1..Len(FileRules(f)) : FileRules(f)[i] \in Lines
             /\ \A i, j \in 1..Len(FileRules(f)) : FileRules(f)[i] = FileRules(f)[j] => i = j
  <2>1. CASE f = "profile"
    <3>1. FileRules(f) = <<SwapRule>>
        BY <2>1 DEF FileRules
    <3>2. Len(FileRules(f)) = 1 /\ FileRules(f)[1] = SwapRule
        BY <3>1
    <3>3. SwapRule \in Lines
        BY DEF Lines
    <3> QED BY <1>1, <3>2, <3>3
  <2>2. CASE f # "profile"
    <3>1. FileRules(f) = Rules
        BY <2>2 DEF FileRules
    <3>2. \A i \in 1..Len(Rules) : Rules[i] \in Lines
        BY <1>1 DEF Lines
    <3>3. \A i, j \in 1..Len(Rules) : Rules[i] = Rules[j] => i = j
        BY <1>1, RulesAssumption
    <3>4. Len(Rules) \in 1..Len(Rules)
        BY <1>1
    <3> QED BY <3>1, <3>2, <3>3, <3>4
  <2> QED BY <2>1, <2>2
<1> QED BY <1>1, <1>2

LEMMA PositionsFacts ==
    /\ 0 \in Positions /\ 1 \in Positions /\ Positions \subseteq Nat
    /\ \A i \in 1..Len(Rules) : i + 1 \in Positions
<1> DEFINE n == Len(Rules)
<1>1. n \in Nat \ {0} /\ Positions = 0..(n + 1)
    BY FileRulesFacts DEF Positions
<1> HIDE DEF n
<1>2. /\ 0 \in Positions /\ 1 \in Positions /\ Positions \subseteq Nat
      /\ \A i \in 1..n : i + 1 \in Positions
    BY <1>1
<1> QED BY <1>2 DEF n

LEMMA MineIsCopy == \A h \in RuleHosts : Mine(h) \in Copies /\ All \in Copies
BY DEF Mine, Copies

LEMMA RulesInitTypes == RulesInit => RuleTypes
<1> SUFFICES ASSUME RulesInit PROVE RuleTypes
    OBVIOUS
<1>1. /\ lines \in [RuleHosts -> [Files -> [Lines -> Nat]]]
      /\ checkFile \in [Copies -> Files] /\ resp \in [Copies -> SUBSET Lines]
      /\ failed \in [Copies -> BOOLEAN]
    BY DEF RulesInit, Files
<1>2. step \in [mode : {"", "shared", "serial"}, hosts : SUBSET RuleHosts,
                todo : SUBSET RuleHosts, pc : {"idle", "loop", "readErr", "result"},
                bad : BOOLEAN, round : 0..MaxRounds]
  <2>1. 0 \in 0..MaxRounds
    BY RoundsAssumption
  <2>2. step = [mode |-> "", hosts |-> {}, todo |-> {}, pc |-> "idle", bad |-> FALSE, round |-> 0]
    BY DEF RulesInit
  <2> QED BY <2>1, <2>2
<1>3. /\ rg \in [RuleHosts -> [pc : Places, file : Files, at : Positions,
                               src : SUBSET Lines]]
      /\ \A h \in RuleHosts : rg[h].pc = "off"
  <2>1. Resting \in [pc : Places, file : Files, at : Positions, src : SUBSET Lines]
    BY PositionsFacts DEF Resting, Places, Files
  <2>2. Resting.pc = "off" /\ rg = [h \in RuleHosts |-> Resting]
    BY DEF RulesInit, Resting
  <2> QED BY <2>1, <2>2
<1> QED BY <1>1, <1>2, <1>3 DEF RuleTypes

(* The line that a host is at, and what a step of AddRule does to it.      *)
LEMMA AddingFacts ==
    ASSUME RuleTypes, NEW h \in RuleHosts, Adding(h)
    PROVE  /\ rg[h].at \in 1..Len(FileRules(rg[h].file)) /\ Rule(h) \in Lines
           /\ rg[h].at + 1 \in Positions /\ rg[h].at + 1 # 0
<1>1. /\ rg[h].file \in Files /\ rg[h].at \in Nat /\ rg[h].at # 0
      /\ rg[h].at <= Len(FileRules(rg[h].file))
    BY PositionsFacts DEF RuleTypes, Adding
<1>2. Len(FileRules(rg[h].file)) \in 1..Len(Rules) /\ Len(Rules) \in Nat
    BY <1>1, FileRulesFacts
<1>3. rg[h].at \in 1..Len(FileRules(rg[h].file)) /\ rg[h].at \in 1..Len(Rules)
    BY <1>1, <1>2
<1>4. rg[h].at + 1 \in Positions /\ rg[h].at + 1 # 0
    BY <1>1, <1>3, PositionsFacts
<1> QED BY <1>1, <1>3, <1>4, FileRulesFacts DEF Rule

LEMMA AddRuleLines ==
    ASSUME RuleTypes, NEW h \in RuleHosts, NEW ran \in BOOLEAN, NEW ok \in BOOLEAN,
           AddRule(h, ran, ok)
    PROVE  /\ lines' \in [RuleHosts -> [Files -> [Lines -> Nat]]]
           /\ \A k \in RuleHosts, f \in Files, l \in Lines :
                lines'[k][f][l] = IF ran /\ k = h /\ f = rg[h].file /\ l = Rule(h)
                                  THEN lines[k][f][l] + 1 ELSE lines[k][f][l]
<1>1. Rule(h) \in Lines /\ rg[h].file \in Files
    BY AddingFacts DEF AddRule, RuleTypes
<1> DEFINE F == rg[h].file
           L == Rule(h)
<1>2. lines' = IF ran THEN [lines EXCEPT ![h][F][L] = @ + 1] ELSE lines
    BY DEF AddRule
<1>3. F \in Files /\ L \in Lines
    BY <1>1
<1> HIDE DEF F, L
<1>4. lines \in [RuleHosts -> [Files -> [Lines -> Nat]]]
    BY DEF RuleTypes
<1>5. CASE ~ran
    BY <1>2, <1>4, <1>5
<1>6. CASE ran
  <2> DEFINE row == [lines[h][F] EXCEPT ![L] = lines[h][F][L] + 1]
             page == [lines[h] EXCEPT ![F] = row]
  <2>1. lines' = [lines EXCEPT ![h] = page]
    BY <1>2, <1>6
  <2>2. row \in [Lines -> Nat] /\ \A l \in Lines : row[l] = IF l = L THEN lines[h][F][l] + 1 ELSE lines[h][F][l]
    BY <1>3, <1>4
  <2> HIDE DEF row
  <2>3. page \in [Files -> [Lines -> Nat]] /\ \A f \in Files : page[f] = IF f = F THEN row ELSE lines[h][f]
    BY <1>3, <1>4, <2>2
  <2> HIDE DEF page
  <2> QED BY <1>4, <1>6, <2>1, <2>2, <2>3 DEF F, L
<1> QED BY <1>5, <1>6 DEF F, L

(* A step of a host is about this host, whose turn has come.               *)
OwnStep(h) ==
    /\ UNCHANGED step
    /\ rg' \in [RuleHosts -> [pc : Places, file : Files, at : Positions,
                              src : SUBSET Lines]]
    /\ \A k \in RuleHosts : k # h => rg'[k] = rg[k]
    /\ rg[h].pc \notin {"off", "done"} /\ rg'[h].pc # "off"
    /\ rg'[h].pc = "add" => rg'[h].at # 0
    /\ rg'[h].file # rg[h].file => Added(h) /\ step.mode # "serial"

HostStates == [pc : Places, file : Files, at : Positions, src : SUBSET Lines]

LEMMA OwnChange ==
    ASSUME RuleTypes, NEW h \in RuleHosts, rg[h].pc \notin {"off", "done"}, UNCHANGED step,
           NEW p \in Places \ {"off"}, NEW f \in Files, NEW i \in Positions, NEW s \in SUBSET Lines,
           p = "add" => i # 0, f # rg[h].file => Added(h) /\ step.mode # "serial",
           rg' = [rg EXCEPT ![h] = [pc |-> p, file |-> f, at |-> i, src |-> s]]
    PROVE  OwnStep(h)
<1> DEFINE new == [pc |-> p, file |-> f, at |-> i, src |-> s]
<1>1. new \in HostStates /\ new.pc = p /\ new.file = f /\ new.at = i
    BY DEF HostStates
<1> HIDE DEF new
<1>2. rg \in [RuleHosts -> HostStates] /\ rg' = [rg EXCEPT ![h] = new]
    BY DEF RuleTypes, HostStates, new
<1>3. /\ rg' \in [RuleHosts -> HostStates] /\ rg'[h] = new
      /\ \A k \in RuleHosts : k # h => rg'[k] = rg[k]
    BY <1>1, <1>2
<1> QED BY <1>1, <1>3 DEF OwnStep, HostStates

(* Replacing fields of a host's state, one after the other. *)
Turned(x, p, s) == [x EXCEPT !.pc = p, !.src = s]
Moved(x, p, i, s) == [x EXCEPT !.pc = p, !.at = i, !.src = s]

LEMMA NewState ==
    ASSUME NEW x \in HostStates, NEW p, NEW i, NEW s
    PROVE  /\ Turned(x, p, s) = [pc |-> p, file |-> x.file, at |-> x.at, src |-> s]
           /\ Moved(x, p, i, s) = [pc |-> p, file |-> x.file, at |-> i, src |-> s]
<1>1. PICK y : y = [x EXCEPT !.pc = p]
    OBVIOUS
<1>2. y = [pc |-> p, file |-> x.file, at |-> x.at, src |-> x.src]
    BY <1>1 DEF HostStates
<1>3. [y EXCEPT !.src = s] = [pc |-> p, file |-> x.file, at |-> x.at, src |-> s]
    BY <1>2
<1>4. Turned(x, p, s) = [y EXCEPT !.src = s]
    BY <1>1 DEF Turned
<1>5. PICK z : z = [y EXCEPT !.at = i]
    OBVIOUS
<1>6. z = [pc |-> p, file |-> x.file, at |-> i, src |-> x.src]
    BY <1>2, <1>5
<1>7. [z EXCEPT !.src = s] = [pc |-> p, file |-> x.file, at |-> i, src |-> s]
    BY <1>6
<1>8. Moved(x, p, i, s) = [z EXCEPT !.src = s]
    BY <1>1, <1>5 DEF Moved
<1> QED BY <1>3, <1>4, <1>7, <1>8

LEMMA HostStepIsOwn ==
    ASSUME RuleTypes, NEW h \in RuleHosts, HostStep(h)
    PROVE  OwnStep(h)
<1>0. PICK me \in HostStates : me = rg[h]
    BY DEF RuleTypes, HostStates
<1>1. /\ rg[h] = me
      /\ rg \in [RuleHosts -> HostStates] /\ me \in HostStates
      /\ me.pc \in Places /\ me.file \in Files /\ me.at \in Positions /\ me.src \in SUBSET Lines
      /\ me.pc = "add" => me.at # 0
    BY <1>0 DEF RuleTypes, HostStates
<1> USE DEF Places, Go
<1>2. CASE Look(h)
  <2>1. PICK p \in {"assign", "lookFailed"}, s \in SUBSET Lines :
          rg' = [rg EXCEPT ![h] = [pc |-> p, file |-> me.file, at |-> me.at, src |-> s]]
    BY <1>1, <1>2 DEF Look, HostStates
  <2> QED BY <1>1, <1>2, <2>1, OwnChange DEF Look
<1>3. CASE AssignResp(h)
  <2>1. PICK s \in SUBSET Lines : s = {}
    OBVIOUS
  <2>2. PICK p \in {"looked", "notLooked"} :
          rg' = [rg EXCEPT ![h] = [pc |-> p, file |-> me.file, at |-> me.at, src |-> s]]
    <3>1. rg' = [rg EXCEPT ![h].pc = IF rg[h].pc = "assign" THEN "looked" ELSE "notLooked",
                           ![h].src = {}]
      BY <1>3 DEF AssignResp
    <3>2. rg' = [rg EXCEPT ![h] = Turned(me, IF me.pc = "assign" THEN "looked" ELSE "notLooked", s)]
      BY <1>1, <2>1, <3>1 DEF Turned
    <3>3. PICK p \in {"looked", "notLooked"} :
            p = IF me.pc = "assign" THEN "looked" ELSE "notLooked"
      OBVIOUS
    <3>4. Turned(me, p, s) = [pc |-> p, file |-> me.file, at |-> me.at, src |-> s]
      BY <1>0, NewState
    <3> QED BY <3>2, <3>3, <3>4
  <2>3. me.pc \in {"assign", "lookFailed"} /\ UNCHANGED step
    BY <1>1, <1>3 DEF AssignResp
  <2> QED BY <1>1, <2>2, <2>3, OwnChange
<1>4. CASE AssignLookErr(h) \/ TestErr(h)
  <2>1. PICK p \in {"test", "done", "take"} :
          rg' = [rg EXCEPT ![h] = [pc |-> p, file |-> me.file, at |-> me.at, src |-> me.src]]
    BY <1>1, <1>4 DEF AssignLookErr, TestErr, HostStates
  <2> QED BY <1>1, <1>4, <2>1, OwnChange DEF AssignLookErr, TestErr
<1>5. CASE TakeResp(h)
  <2>1. resp[Mine(h)] \in SUBSET Lines /\ 1 \in Positions
    BY MineIsCopy, PositionsFacts DEF RuleTypes
  <2>2. PICK i \in Positions : i = 1
    BY <2>1
  <2>3. PICK s \in SUBSET Lines : s = resp[Mine(h)]
    BY <2>1
  <2>4. rg' = [rg EXCEPT ![h] = [pc |-> "add", file |-> me.file, at |-> i, src |-> s]]
    <3>1. rg' = [rg EXCEPT ![h] = [@ EXCEPT !.pc = "add", !.at = 1, !.src = resp[Mine(h)]]]
      BY <1>5 DEF TakeResp
    <3>2. rg' = [rg EXCEPT ![h] = Moved(me, "add", i, s)]
      BY <1>1, <2>2, <2>3, <3>1 DEF Moved
    <3>3. Moved(me, "add", i, s)
            = [pc |-> "add", file |-> me.file, at |-> i, src |-> s]
      BY <1>0, NewState
    <3> QED BY <3>2, <3>3
  <2>5. i # 0
    BY <2>2
  <2>6. me.pc = "take" /\ UNCHANGED step
    BY <1>1, <1>5 DEF TakeResp
  <2> QED BY <1>1, <2>4, <2>5, <2>6, OwnChange
<1>6. CASE SkipRule(h) \/ \E ran, ok \in BOOLEAN : AddRule(h, ran, ok)
  <2>1. me.at + 1 \in Positions /\ me.at + 1 # 0 /\ UNCHANGED step /\ me.pc = "add"
    BY <1>6, AddingFacts, <1>1 DEF SkipRule, AddRule, Adding
  <2>2. PICK i \in Positions : i = me.at + 1
    BY <2>1
  <2>3. i # 0
    BY <2>1, <2>2
  <2>4. PICK p \in {"add", "addFailed"} :
          rg' = [rg EXCEPT ![h] = [pc |-> p, file |-> me.file, at |-> i, src |-> me.src]]
    <3>1. CASE SkipRule(h)
      <4>1. rg' = [rg EXCEPT ![h].at = @ + 1]
        BY <3>1 DEF SkipRule
      <4>2. rg' = [rg EXCEPT ![h] = [me EXCEPT !.at = i]]
        BY <1>1, <2>2, <4>1
      <4>3. [me EXCEPT !.at = i] = [pc |-> "add", file |-> me.file, at |-> i, src |-> me.src]
        BY <1>0, <2>1 DEF HostStates
      <4> QED BY <4>2, <4>3
    <3>2. ASSUME NEW ran \in BOOLEAN, NEW ok \in BOOLEAN, AddRule(h, ran, ok)
          PROVE  \E p \in {"add", "addFailed"} :
                    rg' = [rg EXCEPT ![h] = [pc |-> p, file |-> me.file, at |-> i, src |-> me.src]]
      <4>1. PICK p \in {"add", "addFailed"} : p = IF ok THEN "add" ELSE "addFailed"
        OBVIOUS
      <4>2. rg' = [rg EXCEPT ![h] = [@ EXCEPT !.pc = p, !.at = rg[h].at + 1]]
        BY <3>2, <4>1 DEF AddRule
      <4>3. rg' = [rg EXCEPT ![h] = Moved(me, p, i, me.src)]
        BY <1>0, <1>1, <2>2, <4>2 DEF Moved, HostStates
      <4>4. Moved(me, p, i, me.src) = [pc |-> p, file |-> me.file, at |-> i, src |-> me.src]
        BY <1>0, NewState
      <4> QED BY <4>3, <4>4
    <3> QED BY <1>6, <3>1, <3>2
  <2> QED BY <1>1, <2>1, <2>3, <2>4, OwnChange
<1>7. CASE AssignErr(h)
  <2>1. PICK s \in SUBSET Lines : s = {}
    OBVIOUS
  <2>2. PICK i \in Positions : i = 0
    BY PositionsFacts
  <2>3. rg' = [rg EXCEPT ![h] = [pc |-> "added", file |-> me.file, at |-> i, src |-> s]]
    <3>1. rg' = [rg EXCEPT ![h] = [@ EXCEPT !.pc = "added", !.at = 0, !.src = {}]]
      BY <1>7 DEF AssignErr
    <3>2. rg' = [rg EXCEPT ![h] = Moved(me, "added", i, s)]
      BY <1>1, <2>1, <2>2, <3>1 DEF Moved
    <3>3. Moved(me, "added", i, s)
            = [pc |-> "added", file |-> me.file, at |-> i, src |-> s]
      BY <1>0, NewState
    <3> QED BY <3>2, <3>3
  <2>4. me.pc \in {"add", "addFailed"} /\ UNCHANGED step
    BY <1>1, <1>7 DEF AssignErr
  <2>5. PICK p \in Places \ {"off"} : p = "added" /\ p # "add"
    OBVIOUS
  <2>6. rg[h].pc \notin {"off", "done"} /\ UNCHANGED step
    BY <1>1, <2>4
  <2>7. rg' = [rg EXCEPT ![h] = [pc |-> p, file |-> me.file, at |-> i, src |-> s]]
    BY <2>3, <2>5
  <2> QED BY <1>1, <2>5, <2>6, <2>7, OwnChange
<1>8. CASE Added(h)
  <2>1. CASE failed[Mine(h)] \/ step.mode = "serial" \/ rg[h].file = "profile"
    <3>1. rg' = [rg EXCEPT ![h] = [pc |-> "done", file |-> me.file, at |-> me.at, src |-> me.src]]
      BY <1>1, <1>8, <2>1 DEF Added, HostStates
    <3> QED BY <1>1, <1>8, <3>1, OwnChange DEF Added
  <2>2. CASE ~(failed[Mine(h)] \/ step.mode = "serial" \/ rg[h].file = "profile")
    <3>1. rg' = [rg EXCEPT ![h] = [pc |-> "look", file |-> "profile", at |-> me.at, src |-> me.src]]
      BY <1>1, <1>8, <2>2 DEF Added, HostStates
    <3>2. step.mode # "serial"
      BY <2>2
    <3> QED BY <1>1, <1>8, <3>1, <3>2, OwnChange DEF Added, Files
  <2> QED BY <2>1, <2>2
<1> QED BY <1>2, <1>3, <1>4, <1>5, <1>6, <1>7, <1>8 DEF HostStep

LEMMA HostStepTypes ==
    ASSUME RuleTypes, NEW h \in RuleHosts, HostStep(h)
    PROVE  RuleTypes'
<1>1. OwnStep(h)
    BY HostStepIsOwn
<1>2. Mine(h) \in Copies /\ All \in Copies
    BY MineIsCopy
<1>3. lines' \in [RuleHosts -> [Files -> [Lines -> Nat]]]
  <2>1. ASSUME NEW ran \in BOOLEAN, NEW ok \in BOOLEAN, AddRule(h, ran, ok)
        PROVE  lines' \in [RuleHosts -> [Files -> [Lines -> Nat]]]
    BY <2>1, AddRuleLines
  <2>2. (~\E ran, ok \in BOOLEAN : AddRule(h, ran, ok)) => UNCHANGED lines
    BY DEF HostStep, Look, AssignResp, AssignLookErr, TestErr, TakeResp, SkipRule, AssignErr,
           Added
  <2> QED BY <2>1, <2>2 DEF RuleTypes
<1>4. /\ checkFile' \in [Copies -> Files]
      /\ resp' \in [Copies -> SUBSET Lines]
      /\ failed' \in [Copies -> BOOLEAN]
    BY <1>2, ZenonT(60) DEF HostStep, Look, AssignResp, AssignLookErr, TestErr, TakeResp, SkipRule,
                AddRule, AssignErr, Added, RuleTypes, Files
<1>5. \A k \in RuleHosts : rg'[k].pc = "add" => rg'[k].at # 0
    BY <1>1 DEF OwnStep, RuleTypes
<1> QED BY <1>1, <1>3, <1>4, <1>5 DEF OwnStep, RuleTypes

LEMMA RulesTypesStep == RuleTypes /\ [RulesNext]_ruleVars => RuleTypes'
<1> SUFFICES ASSUME RuleTypes, [RulesNext]_ruleVars PROVE RuleTypes'
    OBVIOUS
<1>1. ASSUME NEW mode \in {"shared", "serial"}, NEW H \in (SUBSET RuleHosts) \ {{}},
             Begin(mode, H)
      PROVE  RuleTypes'
  <2>1. step.round + 1 \in 0..MaxRounds
    <3>1. step.round \in 0..MaxRounds /\ step.round < MaxRounds
        BY <1>1 DEF Begin, RuleTypes
    <3> QED BY <3>1, RoundsAssumption
  <2>2. Resting \in [pc : Places, file : Files, at : Positions, src : SUBSET Lines]
        /\ Resting.pc = "off"
    BY PositionsFacts DEF Resting, Places, Files
  <2>3. /\ step' = [mode |-> mode, hosts |-> H, todo |-> H, pc |-> "loop", bad |-> FALSE,
                    round |-> step.round + 1]
        /\ checkFile' = [c \in Copies |-> "sysctl.conf"]
        /\ resp' = [c \in Copies |-> {}]
        /\ failed' = [c \in Copies |-> FALSE]
        /\ rg' = [h \in RuleHosts |-> Resting]
        /\ UNCHANGED lines
    BY <1>1 DEF Begin
  <2> HIDE DEF Resting
  <2>4. step' \in [mode : {"", "shared", "serial"}, hosts : SUBSET RuleHosts,
                 todo : SUBSET RuleHosts, pc : {"idle", "loop", "readErr", "result"},
                 bad : BOOLEAN, round : 0..MaxRounds]
    BY <2>1, <2>3
  <2>5. checkFile' \in [Copies -> Files] /\ resp' \in [Copies -> SUBSET Lines]
        /\ failed' \in [Copies -> BOOLEAN]
    BY <2>3 DEF Files
  <2>6. rg' \in [RuleHosts -> [pc : Places, file : Files, at : Positions, src : SUBSET Lines]]
        /\ \A h \in RuleHosts : rg'[h].pc = "off"
    BY <2>2, <2>3
  <2> QED BY <2>3, <2>4, <2>5, <2>6 DEF RuleTypes
<1>2. ASSUME NEW h \in RuleHosts, Spawn(h) PROVE RuleTypes'
    BY <1>2, ZenonT(60) DEF Spawn, RuleTypes, Places
<1>3. CASE ReadErrVar \/ Return
    BY <1>3, MineIsCopy DEF ReadErrVar, Return, RuleTypes
<1>4. CASE Result
  <2> DEFINE bad == \E h \in step.hosts \ step.todo : failed[h]
  <2>1. /\ step' = [step EXCEPT !.pc = "loop", !.bad = bad,
                                !.todo = IF bad THEN {} ELSE step.todo]
        /\ UNCHANGED <<lines, rg, checkFile, resp, failed>>
    BY <1>4 DEF Result, RuleTypes
  <2>2. bad \in BOOLEAN
    OBVIOUS
  <2> HIDE DEF bad
  <2> QED BY <2>1, <2>2 DEF RuleTypes
<1>5. ASSUME NEW h \in RuleHosts, HostStep(h) PROVE RuleTypes'
    BY <1>5, HostStepTypes
<1>6. CASE UNCHANGED ruleVars
    BY <1>6 DEF ruleVars, RuleTypes
<1> QED BY <1>1, <1>2, <1>3, <1>4, <1>5, <1>6 DEF RulesNext

LEMMA RoundIsNat == RuleTypes => step.round \in Nat
<1> SUFFICES ASSUME RuleTypes PROVE step.round \in Nat
    OBVIOUS
<1>1. step.round \in 0..MaxRounds
    BY DEF RuleTypes
<1> QED BY <1>1, RoundsAssumption

LEMMA HostsStep == RuleTypes /\ HostsOK /\ [RulesNext]_ruleVars => HostsOK'
<1> SUFFICES ASSUME RuleTypes, HostsOK, [RulesNext]_ruleVars PROVE HostsOK'
    OBVIOUS
<1>1. ASSUME NEW mode \in {"shared", "serial"}, NEW H \in (SUBSET RuleHosts) \ {{}},
             Begin(mode, H)
      PROVE  HostsOK'
  <2>1. step'.round # 0
    BY <1>1, RoundIsNat DEF Begin
  <2> QED BY <1>1, <2>1 DEF Begin, HostsOK, Resting
<1>2. ASSUME NEW h \in RuleHosts, Spawn(h) PROVE HostsOK'
    BY <1>2 DEF Spawn, HostsOK, RuleTypes
<1>3. CASE ReadErrVar \/ Return
    BY <1>3 DEF ReadErrVar, Return, HostsOK, RuleTypes
<1>4. CASE Result
  <2>1. /\ step'.hosts = step.hosts /\ step'.mode = step.mode /\ step'.round = step.round
        /\ step'.todo \subseteq step.todo /\ UNCHANGED rg
    BY <1>4 DEF Result, RuleTypes
  <2> QED BY <2>1 DEF HostsOK
<1>5. ASSUME NEW h \in RuleHosts, HostStep(h) PROVE HostsOK'
    BY <1>5, HostStepIsOwn DEF OwnStep, HostsOK
<1>6. CASE UNCHANGED ruleVars
    BY <1>6 DEF ruleVars, HostsOK
<1> QED BY <1>1, <1>2, <1>3, <1>4, <1>5, <1>6 DEF RulesNext

-----------------------------------------------------------------------------
(* How a host moves on.                                                    *)
Movement(h) ==
    \/ /\ rg[h].pc \in Before /\ rg'[h].pc \in Before \cup {"add", "done"}
       /\ rg'[h].file = rg[h].file
    \/ /\ Adding(h) /\ rg'[h].pc \in {"add", "addFailed"}
       /\ rg'[h].at = rg[h].at + 1 /\ rg'[h].file = rg[h].file
    \/ rg'[h].pc \in {"added", "done"} /\ rg'[h].file = rg[h].file
    \/ rg'[h].pc = "look" /\ rg[h].file = "sysctl.conf" /\ rg'[h].file = "profile"

LEMMA HostMoves ==
    ASSUME RuleTypes, NEW h \in RuleHosts, HostStep(h)
    PROVE  Movement(h)
<1>0. rg \in [RuleHosts -> HostStates]
    BY DEF RuleTypes, HostStates
<1> USE DEF Movement, Before, Go, HostStates
<1>1. CASE Look(h) \/ AssignLookErr(h) \/ TestErr(h)
    BY <1>0, <1>1 DEF Look, AssignLookErr, TestErr
<1>2. CASE AssignResp(h)
    BY <1>0, <1>2 DEF AssignResp
<1>3. CASE TakeResp(h)
  <2>1. /\ rg[h].pc = "take"
        /\ rg' = [rg EXCEPT ![h] = [@ EXCEPT !.pc = "add", !.at = 1, !.src = resp[Mine(h)]]]
    BY <1>3 DEF TakeResp
  <2>2. rg'[h].pc = "add" /\ rg'[h].file = rg[h].file
    BY <1>0, <2>1
  <2> QED BY <2>1, <2>2
<1>4. CASE SkipRule(h)
  <2>1. Adding(h) /\ rg' = [rg EXCEPT ![h].at = rg[h].at + 1] /\ rg[h].pc = "add"
    BY <1>4 DEF SkipRule, Adding
  <2> QED BY <1>0, <2>1
<1>5. ASSUME NEW ran \in BOOLEAN, NEW ok \in BOOLEAN, AddRule(h, ran, ok) PROVE Movement(h)
  <2>1. /\ Adding(h)
        /\ rg' = [rg EXCEPT ![h] = [@ EXCEPT !.pc = IF ok THEN "add" ELSE "addFailed",
                                             !.at = rg[h].at + 1]]
    BY <1>5 DEF AddRule
  <2> QED BY <1>0, <2>1
<1>6. CASE AssignErr(h)
  <2>1. rg' = [rg EXCEPT ![h] = [@ EXCEPT !.pc = "added", !.at = 0, !.src = {}]]
    BY <1>6 DEF AssignErr
  <2> QED BY <1>0, <2>1
<1>7. CASE Added(h)
  <2>1. rg[h].file \in {"sysctl.conf", "profile"}
    BY <1>0 DEF Files
  <2> QED BY <1>0, <1>7, <2>1 DEF Added
<1> QED BY <1>1, <1>2, <1>3, <1>4, <1>5, <1>6, <1>7 DEF HostStep

(* Once a host is past a rule, it does not come back to it in this run.    *)
LEMMA PendingShrinks ==
    ASSUME RuleTypes, NEW h \in RuleHosts, HostStep(h), NEW k \in RuleHosts,
           NEW f \in Files, NEW l \in Lines, Pending(k, f, l)'
    PROVE  /\ Pending(k, f, l)
           /\ ~(k = h /\ f = rg[h].file /\ Adding(h) /\ l = Rule(h))
<1>1. OwnStep(h) /\ Movement(h)
    BY HostStepIsOwn, HostMoves
<1>2. CASE k # h
    BY <1>1, <1>2 DEF Pending, OwnStep
<1>3. CASE k = h /\ ~Adding(h)
    BY <1>1, <1>3 DEF Pending, Before, Movement
<1>4. CASE k = h /\ Adding(h) /\ rg'[h].pc \in {"added", "done", "look"}
  <2>1. \/ rg'[h].pc \in {"added", "done"} /\ rg'[h].file = rg[h].file
        \/ rg'[h].pc = "look" /\ rg[h].file = "sysctl.conf" /\ rg'[h].file = "profile"
    BY <1>1, <1>4 DEF Movement, Before, Adding
  <2> QED BY <1>4, <2>1 DEF Pending, Before
<1>5. CASE k = h /\ Adding(h) /\ rg'[h].pc \notin {"added", "done", "look"}
  <2> DEFINE F == rg[h].file
             a == rg[h].at
  <2>1. rg[h].pc = "add" /\ rg'[h].pc \in {"add", "addFailed"} /\ rg'[h].at = a + 1 /\ rg'[h].file = F
    BY <1>1, <1>5 DEF Movement, Before, Adding
  <2>2. F \in Files /\ a \in 1..Len(FileRules(F)) /\ Rule(h) = FileRules(F)[a]
    BY <1>5, AddingFacts DEF RuleTypes, Rule
  <2>3. CASE F = "sysctl.conf" /\ f = "profile"
    BY <1>5, <2>3 DEF Pending
  <2>4. CASE ~(F = "sysctl.conf" /\ f = "profile")
    <3>1. f = F /\ \E i \in (a + 1)..Len(FileRules(F)) : FileRules(F)[i] = l
      BY <1>5, <2>1, <2>4 DEF Pending, Before
    <3>2. PICK i \in (a + 1)..Len(FileRules(F)) : FileRules(F)[i] = l
      BY <3>1
    <3>3. Len(FileRules(F)) \in Nat
      BY <2>2, FileRulesFacts
    <3>4. i \in a..Len(FileRules(F)) /\ i \in 1..Len(FileRules(F)) /\ i # a
      BY <2>2, <3>3
    <3>5. l # Rule(h)
      BY <2>2, <3>2, <3>4, FileRulesFacts
    <3>6. Pending(h, f, l)
      BY <2>1, <3>1, <3>2, <3>4 DEF Pending
    <3> QED BY <1>5, <3>5, <3>6
  <2> QED BY <2>3, <2>4
<1> QED BY <1>2, <1>3, <1>4, <1>5

LEMMA AddsPending ==
    ASSUME RuleTypes, NEW h \in RuleHosts, Adding(h)
    PROVE  Pending(h, rg[h].file, Rule(h))
<1> DEFINE F == rg[h].file
           a == rg[h].at
<1>1. /\ F \in Files /\ a \in 1..Len(FileRules(F)) /\ Rule(h) = FileRules(F)[a]
      /\ rg[h].pc = "add"
    BY AddingFacts DEF RuleTypes, Rule, Adding
<1>2. Len(FileRules(F)) \in Nat
    BY <1>1, FileRulesFacts
<1>3. a \in a..Len(FileRules(F))
    BY <1>1, <1>2
<1> QED BY <1>1, <1>3 DEF Pending

LEMMA RoundsStep == RuleTypes /\ HostsOK /\ RoundsOK /\ [RulesNext]_ruleVars => RoundsOK'
<1> SUFFICES ASSUME RuleTypes, HostsOK, RoundsOK, [RulesNext]_ruleVars PROVE RoundsOK'
    OBVIOUS
<1>0. /\ step.round \in Nat
      /\ \A h \in RuleHosts, f \in Files, l \in Lines : lines[h][f][l] \in Nat
  <2>1. step.round \in Nat
    BY RoundIsNat
  <2>2. lines \in [RuleHosts -> [Files -> [Lines -> Nat]]]
    BY DEF RuleTypes
  <2> QED BY <2>1, <2>2
<1>1. ASSUME NEW mode \in {"shared", "serial"}, NEW H \in (SUBSET RuleHosts) \ {{}},
             Begin(mode, H)
      PROVE  RoundsOK'
  <2>1. step'.round = step.round + 1 /\ UNCHANGED lines
    BY <1>1 DEF Begin
  <2> QED BY <1>0, <2>1 DEF RoundsOK
<1>2. ASSUME NEW h \in RuleHosts, Spawn(h) PROVE RoundsOK'
  <2>1. /\ step'.round = step.round /\ UNCHANGED lines
        /\ rg' = [rg EXCEPT ![h].pc = "look"]
        /\ rg[h].pc = "off"
    BY <1>2 DEF Spawn, RuleTypes, HostsOK
  <2>2. \A k \in RuleHosts, f \in Files, l \in Lines : Pending(k, f, l)' => Pending(k, f, l)
    <3>1. \A k \in RuleHosts : /\ k # h => rg'[k] = rg[k]
                               /\ rg'[h].file = rg[h].file /\ rg'[h].pc = "look"
      BY <2>1 DEF RuleTypes
    <3> QED BY <2>1, <3>1 DEF Pending, Before
  <2> QED BY <2>1, <2>2 DEF RoundsOK
<1>3. CASE ReadErrVar \/ Result \/ Return
  <2>1. step'.round = step.round /\ UNCHANGED <<lines, rg>>
    BY <1>3 DEF ReadErrVar, Result, Return, RuleTypes
  <2> QED BY <2>1 DEF RoundsOK, Pending
<1>4. ASSUME NEW h \in RuleHosts, HostStep(h) PROVE RoundsOK'
  <2>0. UNCHANGED step
    BY <1>4, HostStepIsOwn DEF OwnStep
  <2>1. \A k \in RuleHosts, f \in Files, l \in Lines : Pending(k, f, l)' =>
           Pending(k, f, l) /\ ~(k = h /\ f = rg[h].file /\ Adding(h) /\ l = Rule(h))
    BY <1>4, PendingShrinks
  <2>2. CASE UNCHANGED lines
    BY <2>0, <2>1, <2>2 DEF RoundsOK
  <2>3. ASSUME NEW ran \in BOOLEAN, NEW ok \in BOOLEAN, AddRule(h, ran, ok) PROVE RoundsOK'
    <3>1. Adding(h) /\ Pending(h, rg[h].file, Rule(h)) /\ rg[h].file \in Files /\ Rule(h) \in Lines
      BY <2>3, AddsPending, AddingFacts DEF AddRule, RuleTypes
    <3>2. step.round > 0
      <4>1. rg[h].pc = "add"
        BY <3>1 DEF Adding
      <4>2. step.hosts # {}
        BY <4>1 DEF HostsOK
      <4> QED BY <1>0, <4>2 DEF HostsOK
    <3>3. lines[h][rg[h].file][Rule(h)] + 1 <= step.round
      BY <1>0, <3>1, <3>2 DEF RoundsOK
    <3>4. \A k \in RuleHosts, f \in Files, l \in Lines :
            lines'[k][f][l] = IF ran /\ k = h /\ f = rg[h].file /\ l = Rule(h)
                              THEN lines[k][f][l] + 1 ELSE lines[k][f][l]
      BY <2>3, AddRuleLines
    <3> QED BY <2>0, <2>1, <3>1, <3>2, <3>3, <3>4 DEF RoundsOK
  <2>4. (~\E ran, ok \in BOOLEAN : AddRule(h, ran, ok)) => UNCHANGED lines
    BY <1>4 DEF HostStep, Look, AssignResp, AssignLookErr, TestErr, TakeResp, SkipRule,
                AssignErr, Added
  <2> QED BY <2>2, <2>3, <2>4
<1>5. CASE UNCHANGED ruleVars
    BY <1>5 DEF ruleVars, RoundsOK, Pending
<1> QED BY <1>1, <1>2, <1>3, <1>4, <1>5 DEF RulesNext

-----------------------------------------------------------------------------
(* What a host leaves alone: the variables and the files of the others.    *)
LEMMA HostFrame ==
    ASSUME RuleTypes, NEW h \in RuleHosts, HostStep(h)
    PROVE  /\ \A c \in Copies \ {Mine(h)} : /\ checkFile'[c] = checkFile[c]
                                            /\ resp'[c] = resp[c] /\ failed'[c] = failed[c]
           /\ \A k \in RuleHosts \ {h}, f \in Files, l \in Lines :
                lines'[k][f][l] = lines[k][f][l]
<1>1. \A c \in Copies \ {Mine(h)} : /\ checkFile'[c] = checkFile[c]
                                    /\ resp'[c] = resp[c] /\ failed'[c] = failed[c]
  <2>1. PICK m \in Copies : m = Mine(h)
    BY MineIsCopy
  <2>2. /\ checkFile \in [Copies -> Files] /\ resp \in [Copies -> SUBSET Lines]
        /\ failed \in [Copies -> BOOLEAN]
    BY DEF RuleTypes
  <2> QED BY <2>1, <2>2 DEF HostStep, Look, AssignResp, AssignLookErr, TestErr, TakeResp,
                            SkipRule, AddRule, AssignErr, Added
<1>2. ASSUME NEW ran \in BOOLEAN, NEW ok \in BOOLEAN, AddRule(h, ran, ok)
      PROVE  \A k \in RuleHosts \ {h}, f \in Files, l \in Lines :
                lines'[k][f][l] = lines[k][f][l]
    BY <1>2, AddRuleLines
<1>3. (~\E ran, ok \in BOOLEAN : AddRule(h, ran, ok)) => UNCHANGED lines
    BY DEF HostStep, Look, AssignResp, AssignLookErr, TestErr, TakeResp, SkipRule, AssignErr,
           Added
<1> QED BY <1>1, <1>2, <1>3

(* Two hosts share no variable where only one is at work or each has a     *)
(* copy of its own.                                                        *)
LEMMA SoleApart ==
    ASSUME RuleTypes, HostsOK, Sole, NEW h \in RuleHosts, rg[h].pc # "off",
           NEW k \in step.hosts, k # h
    PROVE  Mine(k) # Mine(h)
<1>1. h \in step.hosts
    BY DEF HostsOK
<1>2. step.mode = "serial"
    BY <1>1 DEF Sole
<1> QED BY <1>2 DEF Mine

LEMMA OthersKnow ==
    ASSUME RuleTypes, HostsOK, Sole, NEW h \in RuleHosts, HostStep(h),
           NEW k \in step.hosts, k # h, Knows(k)
    PROVE  Knows(k)'
<1>1. OwnStep(h)
    BY HostStepIsOwn
<1>2. k \in RuleHosts /\ rg'[k] = rg[k] /\ UNCHANGED step
    BY <1>1 DEF OwnStep, RuleTypes
<1>3. Mine(k) # Mine(h) /\ Mine(k) \in Copies /\ Mine(k)' = Mine(k)
    BY <1>1, <1>2, SoleApart, MineIsCopy DEF OwnStep, Mine
<1>4. /\ checkFile'[Mine(k)] = checkFile[Mine(k)] /\ resp'[Mine(k)] = resp[Mine(k)]
      /\ failed'[Mine(k)] = failed[Mine(k)]
    BY <1>3, HostFrame
<1>5. Found(k)' = Found(k)
  <2>1. rg[k].file \in Files
    BY <1>2 DEF RuleTypes
  <2>2. \A l \in Lines : lines'[k][rg[k].file][l] = lines[k][rg[k].file][l]
    BY <1>2, <2>1, HostFrame
  <2> QED BY <1>2, <2>2 DEF Found
<1>6. PICK m : m = Mine(k)
    OBVIOUS
<1>7. /\ m' = m /\ checkFile'[m] = checkFile[m] /\ resp'[m] = resp[m]
      /\ failed'[m] = failed[m] /\ Mine(k)' = m
    BY <1>3, <1>4, <1>6
<1> QED BY <1>2, <1>5, <1>6, <1>7 DEF Knows

LEMMA HostKnows ==
    ASSUME RuleTypes, HostsOK, NEW h \in RuleHosts, HostStep(h), Knows(h)
    PROVE  Knows(h)'
<1>1. PICK m \in Copies : m = Mine(h)
    BY MineIsCopy
<1>2. /\ rg \in [RuleHosts -> HostStates] /\ checkFile \in [Copies -> Files]
      /\ resp \in [Copies -> SUBSET Lines] /\ failed \in [Copies -> BOOLEAN]
    BY DEF RuleTypes, HostStates
<1>3. OwnStep(h) /\ UNCHANGED step /\ Mine(h)' = m
    BY <1>1, HostStepIsOwn DEF OwnStep, Mine
<1>4. ASSUME UNCHANGED lines, rg'[h].file = rg[h].file PROVE Found(h)' = Found(h)
    BY <1>4 DEF Found
<1> USE DEF Go, HostStates
<1>5. CASE Look(h)
  <2>1. /\ rg[h].pc = "look" /\ checkFile[m] = rg[h].file
    BY <1>1, <1>5 DEF Look, Knows
  <2>2. CASE rg' = [rg EXCEPT ![h].pc = "assign",
                              ![h].src = {l \in Lines : lines[h][checkFile[m]][l] > 0}]
    <3>1. /\ rg'[h].pc = "assign" /\ rg'[h].file = rg[h].file
          /\ rg'[h].src = {l \in Lines : lines[h][checkFile[m]][l] > 0}
      BY <1>2, <2>2
    <3>2. rg'[h].src = Found(h)'
      BY <1>4, <1>5, <2>1, <3>1 DEF Look, Found
    <3> QED BY <3>1, <3>2 DEF Knows
  <2>3. CASE rg' = [rg EXCEPT ![h].pc = "lookFailed"]
    <3>1. rg'[h].pc = "lookFailed"
      BY <1>2, <2>3
    <3> QED BY <3>1 DEF Knows
  <2> QED BY <1>1, <1>5, <2>2, <2>3 DEF Look
<1>6. CASE AssignResp(h)
  <2>1. /\ rg'[h].pc = IF rg[h].pc = "assign" THEN "looked" ELSE "notLooked"
        /\ rg'[h].file = rg[h].file /\ resp'[m] = rg[h].src /\ UNCHANGED lines
    BY <1>1, <1>2, <1>6 DEF AssignResp
  <2>2. CASE rg[h].pc = "assign"
    BY <1>3, <1>4, <2>1, <2>2 DEF Knows
  <2>3. CASE rg[h].pc # "assign"
    BY <2>1, <2>3 DEF Knows
  <2> QED BY <2>2, <2>3
<1>7. CASE AssignLookErr(h)
  <2>1. /\ rg[h].pc \in {"looked", "notLooked"} /\ rg'[h].pc = "test"
        /\ rg'[h].file = rg[h].file
        /\ failed'[m] = (rg[h].pc = "notLooked") /\ UNCHANGED <<lines, resp>>
    BY <1>1, <1>2, <1>7 DEF AssignLookErr
  <2>2. rg[h].pc = "looked" => resp'[m] = Found(h)'
    BY <1>1, <1>4, <2>1 DEF Knows
  <2> QED BY <1>3, <2>1, <2>2 DEF Knows
<1>8. CASE TestErr(h)
  <2>1. /\ rg[h].pc = "test" /\ rg'[h].pc = IF failed[m] THEN "done" ELSE "take"
        /\ rg'[h].file = rg[h].file /\ UNCHANGED <<lines, resp>>
    BY <1>1, <1>2, <1>8 DEF TestErr
  <2>2. ~failed[m] => resp'[m] = Found(h)'
    BY <1>1, <1>4, <2>1 DEF Knows
  <2> QED BY <1>3, <2>1, <2>2 DEF Knows
<1>9. CASE TakeResp(h)
  <2>1. /\ rg[h].pc = "take" /\ UNCHANGED lines
        /\ rg' = [rg EXCEPT ![h] = [rg[h] EXCEPT !.pc = "add", !.at = 1, !.src = resp[m]]]
    BY <1>1, <1>9 DEF TakeResp
  <2>2. /\ rg'[h].pc = "add" /\ rg'[h].file = rg[h].file /\ rg'[h].src = resp[m]
    BY <1>2, <2>1
  <2>3. rg'[h].src = Found(h)'
    BY <1>1, <1>4, <2>1, <2>2 DEF Knows
  <2> QED BY <2>2, <2>3 DEF Knows
<1>10. CASE SkipRule(h)
  <2>1. /\ rg[h].pc = "add" /\ rg'[h].pc = "add" /\ rg'[h].file = rg[h].file
        /\ rg'[h].at = rg[h].at + 1 /\ rg'[h].src = rg[h].src /\ UNCHANGED lines
    BY <1>2, <1>10 DEF SkipRule, Adding
  <2>2. rg[h].at \in 1..Len(FileRules(rg[h].file)) /\ Len(FileRules(rg[h].file)) \in Nat
    BY <1>10, AddingFacts DEF SkipRule
  <2>3. \A i \in (rg[h].at + 1)..Len(FileRules(rg[h].file)) :
           i \in rg[h].at..Len(FileRules(rg[h].file))
    BY <2>2
  <2>4. Found(h)' = Found(h)
    BY <1>4, <2>1
  <2> QED BY <2>1, <2>3, <2>4 DEF Knows
<1>11. ASSUME NEW ran \in BOOLEAN, NEW ok \in BOOLEAN, AddRule(h, ran, ok) PROVE Knows(h)'
  <2>1. /\ Adding(h) /\ rg[h].pc = "add"
        /\ rg' = [rg EXCEPT ![h] = [rg[h] EXCEPT !.pc = IF ok THEN "add" ELSE "addFailed",
                                                 !.at = rg[h].at + 1]]
    BY <1>11 DEF AddRule, Adding
  <2>2. /\ rg'[h].pc = IF ok THEN "add" ELSE "addFailed"
        /\ rg'[h].file = rg[h].file /\ rg'[h].at = rg[h].at + 1 /\ rg'[h].src = rg[h].src
    BY <1>2, <2>1
  <2> DEFINE F == rg[h].file
             a == rg[h].at
             R == FileRules(F)
  <2>3. F \in Files /\ a \in 1..Len(R) /\ Len(R) \in Nat /\ Rule(h) = R[a]
    <3>1. F \in Files
      BY <1>2
    <3>2. a \in 1..Len(R)
      BY <2>1, AddingFacts
    <3>3. Len(R) \in Nat
      BY <3>1, FileRulesFacts
    <3> QED BY <3>1, <3>2, <3>3 DEF Rule
  <2>4. \A i \in (a + 1)..Len(R) : /\ i \in a..Len(R) /\ R[i] # Rule(h)
                                   /\ R[i] \in Lines
    <3>1. \A i \in (a + 1)..Len(R) : i \in a..Len(R) /\ i \in 1..Len(R) /\ i # a
      BY <2>3
    <3> QED BY <2>3, <3>1, FileRulesFacts
  <2>5. \A l \in Lines : l # Rule(h) => (l \in Found(h)' <=> l \in Found(h))
    BY <1>11, <2>2, <2>3, AddRuleLines DEF Found
  <2> HIDE DEF R
  <2>6. \A i \in a..Len(R) : R[i] \in rg[h].src <=> R[i] \in Found(h)
    BY <2>1 DEF Knows, R
  <2>7. \A i \in (a + 1)..Len(R) : R[i] \in rg[h].src <=> R[i] \in Found(h)'
    BY <2>4, <2>5, <2>6
  <2> QED BY <2>2, <2>7 DEF Knows, R
<1>12. CASE AssignErr(h)
  <2>1. rg' = [rg EXCEPT ![h] = [rg[h] EXCEPT !.pc = "added", !.at = 0, !.src = {}]]
    BY <1>12 DEF AssignErr
  <2>2. rg'[h].pc = "added"
    BY <1>2, <2>1
  <2> QED BY <2>2 DEF Knows
<1>13. CASE Added(h)
  <2>1. CASE failed[Mine(h)] \/ step.mode = "serial" \/ rg[h].file = "profile"
    <3>1. rg'[h].pc = "done"
      BY <1>2, <1>13, <2>1 DEF Added
    <3> QED BY <3>1 DEF Knows
  <2>2. CASE ~(failed[Mine(h)] \/ step.mode = "serial" \/ rg[h].file = "profile")
    <3>1. rg'[h].pc = "look" /\ rg'[h].file = "profile" /\ checkFile'[m] = "profile"
      BY <1>1, <1>2, <1>13, <2>2 DEF Added
    <3> QED BY <1>3, <3>1 DEF Knows
  <2> QED BY <2>1, <2>2
<1> QED BY <1>5, <1>6, <1>7, <1>8, <1>9, <1>10, <1>11, <1>12, <1>13 DEF HostStep

(* The look at the file is heeded: a line is added once.                   *)
LEMMA AddsMissing ==
    ASSUME RuleTypes, NEW h \in RuleHosts, Knows(h), Adding(h)
    PROVE  Rule(h) \in rg[h].src <=> lines[h][rg[h].file][Rule(h)] > 0
<1> DEFINE R == FileRules(rg[h].file)
<1>1. rg[h].at \in 1..Len(R) /\ Rule(h) = R[rg[h].at] /\ Rule(h) \in Lines /\ rg[h].pc = "add"
    BY AddingFacts DEF Rule, Adding
<1>2. Len(R) \in Nat
  <2>1. rg[h].file \in Files
    BY DEF RuleTypes
  <2> QED BY <2>1, FileRulesFacts
<1>3. rg[h].at \in rg[h].at..Len(R)
    BY <1>1, <1>2
<1>4. Rule(h) \in rg[h].src <=> Rule(h) \in Found(h)
    BY <1>1, <1>3 DEF Knows
<1> QED BY <1>1, <1>4 DEF Found

LEMMA SoleStep == RuleTypes /\ HostsOK /\ RoundsOK /\ SoleOK /\ [RulesNext]_ruleVars => SoleOK'
<1> SUFFICES ASSUME RuleTypes, HostsOK, RoundsOK, SoleOK, [RulesNext]_ruleVars, Sole'
             PROVE  /\ \A h \in step.hosts' : Knows(h)'
                    /\ \A h \in RuleHosts, f \in Files, l \in Lines : lines'[h][f][l] <= 1
    BY DEF SoleOK
<1>0. lines \in [RuleHosts -> [Files -> [Lines -> Nat]]] /\ step.hosts \subseteq RuleHosts
    BY DEF RuleTypes
<1>1. ASSUME NEW mode \in {"shared", "serial"}, NEW H \in (SUBSET RuleHosts) \ {{}},
             Begin(mode, H)
      PROVE  /\ \A h \in step.hosts' : Knows(h)'
             /\ \A h \in RuleHosts, f \in Files, l \in Lines : lines'[h][f][l] <= 1
  <2>1. ASSUME NEW h \in RuleHosts PROVE Knows(h)'
    <3>1. rg'[h] = Resting /\ checkFile' = [c \in Copies |-> "sysctl.conf"]
      BY <1>1 DEF Begin
    <3>2. Mine(h)' \in Copies
      BY DEF Mine, Copies
    <3> QED BY <3>1, <3>2 DEF Resting, Knows
  <2>2. UNCHANGED lines /\ step'.hosts = H
    BY <1>1 DEF Begin
  <2>3. \A h \in RuleHosts, f \in Files, l \in Lines : lines[h][f][l] <= 1
    <3>1. CASE step.round = 0
      <4>1. \A h \in RuleHosts, f \in Files, l \in Lines : lines[h][f][l] <= 0
        BY <3>1 DEF RoundsOK
      <4>2. \A h \in RuleHosts, f \in Files, l \in Lines : lines[h][f][l] \in Nat
        BY <1>0
      <4> QED BY <4>1, <4>2
    <3>2. CASE step.round # 0
      <4>1. step.round > 0
        BY <3>2, RoundIsNat
      <4>2. step'.mode = step.mode /\ step'.hosts = step.hosts
        BY <1>1, <4>1 DEF Begin
      <4> QED BY <4>2 DEF SoleOK, Sole
    <3> QED BY <3>1, <3>2
  <2>4. \A h \in step.hosts' : Knows(h)'
    BY <2>1, <2>2
  <2> QED BY <2>2, <2>3, <2>4
<1>2. ASSUME NEW h \in RuleHosts, Spawn(h)
      PROVE  /\ \A k \in step.hosts' : Knows(k)'
             /\ \A k \in RuleHosts, f \in Files, l \in Lines : lines'[k][f][l] <= 1
  <2>1. /\ step'.mode = step.mode /\ step'.hosts = step.hosts
        /\ UNCHANGED <<lines, checkFile, resp, failed>>
        /\ h \in step.todo /\ rg' = [rg EXCEPT ![h].pc = "look"]
    BY <1>2 DEF Spawn, RuleTypes
  <2>2. Sole /\ \A k \in RuleHosts : Mine(k)' = Mine(k)
    BY <2>1 DEF Sole, Mine
  <2>3. rg[h].pc = "off"
    BY <2>1 DEF HostsOK
  <2>4. \A k \in RuleHosts : /\ k # h => rg'[k] = rg[k]
                             /\ rg'[h].pc = "look" /\ rg'[h].file = rg[h].file
    BY <2>1 DEF RuleTypes
  <2>5. ASSUME NEW k \in step.hosts PROVE Knows(k)'
    <3>1. k \in RuleHosts /\ Knows(k)
      BY <1>0, <2>2 DEF SoleOK
    <3>2. CASE k = h
      BY <2>1, <2>2, <2>3, <2>4, <3>1, <3>2 DEF Knows
    <3>3. CASE k # h
      <4>1. rg'[k] = rg[k] /\ Found(k)' = Found(k) /\ Mine(k)' = Mine(k)
        BY <2>1, <2>2, <2>4, <3>1, <3>3 DEF Found
      <4> QED BY <2>1, <3>1, <4>1 DEF Knows
    <3> QED BY <3>2, <3>3
  <2> QED BY <2>1, <2>2, <2>5 DEF SoleOK
<1>3. CASE UNCHANGED <<lines, rg, checkFile, resp, failed>> /\ step'.mode = step.mode
           /\ step'.hosts = step.hosts
  <2>1. Sole
    BY <1>3 DEF Sole
  <2>2. ASSUME NEW h \in step.hosts PROVE Knows(h)'
    <3>1. Knows(h) /\ Mine(h)' = Mine(h) /\ Found(h)' = Found(h)
      BY <1>3, <2>1 DEF SoleOK, Mine, Found
    <3> QED BY <1>3, <3>1 DEF Knows
  <2> QED BY <1>3, <2>1, <2>2 DEF SoleOK
<1>4. ASSUME NEW h \in RuleHosts, HostStep(h)
      PROVE  /\ \A k \in step.hosts' : Knows(k)'
             /\ \A k \in RuleHosts, f \in Files, l \in Lines : lines'[k][f][l] <= 1
  <2>1. UNCHANGED step /\ h \in step.hosts
    BY <1>4, HostStepIsOwn DEF OwnStep, HostsOK
  <2>2. Sole /\ \A k \in step.hosts : Knows(k)
    BY <2>1 DEF Sole, SoleOK
  <2>3. \A k \in step.hosts : Knows(k)'
    <3>1. ASSUME NEW k \in step.hosts, k # h PROVE Knows(k)'
      BY <1>4, <2>2, <3>1, OthersKnow
    <3>2. Knows(h)'
      BY <1>4, <2>1, <2>2, HostKnows
    <3> QED BY <3>1, <3>2
  <2>4. ASSUME NEW ran \in BOOLEAN, NEW ok \in BOOLEAN, AddRule(h, ran, ok)
        PROVE  \A k \in RuleHosts, f \in Files, l \in Lines : lines'[k][f][l] <= 1
    <3>1. Adding(h) /\ Rule(h) \notin rg[h].src /\ rg[h].file \in Files /\ Rule(h) \in Lines
      BY <2>4, AddingFacts DEF AddRule, RuleTypes
    <3>2. ~(lines[h][rg[h].file][Rule(h)] > 0)
      BY <2>1, <2>2, <3>1, AddsMissing
    <3>3. lines[h][rg[h].file][Rule(h)] + 1 <= 1
      <4>1. lines[h][rg[h].file][Rule(h)] \in Nat
        BY <1>0, <3>1
      <4> QED BY <3>2, <4>1
    <3>4. \A k \in RuleHosts, f \in Files, l \in Lines :
            lines'[k][f][l] = IF ran /\ k = h /\ f = rg[h].file /\ l = Rule(h)
                              THEN lines[k][f][l] + 1 ELSE lines[k][f][l]
      BY <2>4, AddRuleLines
    <3> QED BY <2>2, <3>3, <3>4 DEF SoleOK
  <2>5. (~\E ran, ok \in BOOLEAN : AddRule(h, ran, ok)) => UNCHANGED lines
    BY <1>4 DEF HostStep, Look, AssignResp, AssignLookErr, TestErr, TakeResp, SkipRule,
                AssignErr, Added
  <2>6. \A k \in RuleHosts, f \in Files, l \in Lines : lines'[k][f][l] <= 1
    BY <2>2, <2>4, <2>5 DEF SoleOK
  <2> QED BY <2>1, <2>3, <2>6
<1>5. ReadErrVar \/ Result \/ Return \/ UNCHANGED ruleVars =>
        /\ UNCHANGED <<lines, rg, checkFile, resp, failed>>
        /\ step'.mode = step.mode /\ step'.hosts = step.hosts
    BY DEF ReadErrVar, Result, Return, ruleVars, RuleTypes
<1> QED BY <1>1, <1>2, <1>3, <1>4, <1>5 DEF RulesNext

-----------------------------------------------------------------------------
(* The extensions: one host after the other.                               *)
LEMMA OwnCopy ==
    ASSUME RuleTypes, HostsOK, step.mode = "serial", NEW h \in RuleHosts
    PROVE  /\ Mine(h) = h /\ h \in Copies
           /\ rg[h].file = "sysctl.conf" /\ FileRules(rg[h].file) = Rules
BY DEF Mine, Copies, HostsOK, FileRules

LEMMA RulesGrow ==
    ASSUME RuleTypes, NEW h \in RuleHosts, HostStep(h), NEW k \in RuleHosts,
           NEW i \in DOMAIN Rules, HasRule(k, i)
    PROVE  HasRule(k, i)'
<1>1. "sysctl.conf" \in Files /\ Rules[i] \in Lines
    BY DEF Files, Lines
<1>2. lines[k]["sysctl.conf"][Rules[i]] \in Nat
  <2>1. lines \in [RuleHosts -> [Files -> [Lines -> Nat]]]
    BY DEF RuleTypes
  <2> QED BY <1>1, <2>1
<1>3. ASSUME NEW ran \in BOOLEAN, NEW ok \in BOOLEAN, AddRule(h, ran, ok) PROVE HasRule(k, i)'
  <2>1. \/ lines'[k]["sysctl.conf"][Rules[i]] = lines[k]["sysctl.conf"][Rules[i]] + 1
        \/ lines'[k]["sysctl.conf"][Rules[i]] = lines[k]["sysctl.conf"][Rules[i]]
    BY <1>1, <1>3, AddRuleLines
  <2> QED BY <1>2, <2>1 DEF HasRule
<1>4. (~\E ran, ok \in BOOLEAN : AddRule(h, ran, ok)) => UNCHANGED lines
    BY DEF HostStep, Look, AssignResp, AssignLookErr, TestErr, TakeResp, SkipRule, AssignErr,
           Added
<1> QED BY <1>3, <1>4 DEF HasRule

LEMMA OthersCome ==
    ASSUME RuleTypes, HostsOK, step.mode = "serial", NEW h \in RuleHosts, HostStep(h),
           NEW k \in RuleHosts, k # h, ComesTo(k)
    PROVE  ComesTo(k)' /\ rg'[k] = rg[k] /\ failed'[k] = failed[k]
<1>1. rg'[k] = rg[k]
    BY HostStepIsOwn DEF OwnStep
<1>2. failed'[k] = failed[k]
  <2>1. Mine(h) = h /\ k \in Copies
    BY OwnCopy
  <2> QED BY <2>1, HostFrame
<1>3. \A i \in DOMAIN Rules : HasRule(k, i) => HasRule(k, i)'
    BY RulesGrow
<1> QED BY <1>1, <1>2, <1>3 DEF ComesTo

LEMMA HostComes ==
    ASSUME RuleTypes, HostsOK, step.mode = "serial", NEW h \in RuleHosts, HostStep(h),
           Knows(h), ComesTo(h)
    PROVE  ComesTo(h)'
<1>1. /\ rg \in [RuleHosts -> HostStates] /\ failed \in [Copies -> BOOLEAN]
    BY DEF RuleTypes, HostStates
<1>2. Mine(h) = h /\ h \in Copies /\ rg[h].file = "sysctl.conf" /\ FileRules("sysctl.conf") = Rules
    BY OwnCopy
<1>3. \A i \in DOMAIN Rules : HasRule(h, i) => HasRule(h, i)'
    BY RulesGrow
<1>4. Len(Rules) \in Nat /\ DOMAIN Rules = 1..Len(Rules)
    BY FileRulesFacts
<1> USE DEF Go, HostStates
<1>5. CASE Look(h) \/ AssignResp(h) \/ AssignLookErr(h)
  <2>1. rg'[h].pc \notin {"add", "added", "done"}
    BY <1>1, <1>5 DEF Look, AssignResp, AssignLookErr
  <2> QED BY <2>1 DEF ComesTo
<1>6. CASE TestErr(h)
  <2>1. rg'[h].pc = IF failed[h] THEN "done" ELSE "take"
    BY <1>1, <1>2, <1>6 DEF TestErr
  <2>2. UNCHANGED failed
    BY <1>6 DEF TestErr
  <2> QED BY <2>1, <2>2 DEF ComesTo
<1>7. CASE TakeResp(h)
  <2>1. rg' = [rg EXCEPT ![h] = [rg[h] EXCEPT !.pc = "add", !.at = 1, !.src = resp[h]]]
    BY <1>2, <1>7 DEF TakeResp
  <2>2. rg'[h].pc = "add" /\ rg'[h].at = 1
    BY <1>1, <2>1
  <2>3. \A i \in DOMAIN Rules : ~(i < 1)
    BY <1>4
  <2> QED BY <2>2, <2>3 DEF ComesTo
<1>8. CASE Adding(h) /\ rg'[h].at = rg[h].at + 1 /\ rg'[h].pc \in {"add", "addFailed"}
           /\ (rg'[h].pc = "add" => lines'[h]["sysctl.conf"][Rule(h)] > 0)
  <2>1. PICK a : a = rg[h].at
    OBVIOUS
  <2>2. a \in 1..Len(Rules) /\ Rule(h) = Rules[a]
    BY <1>2, <1>8, <2>1, AddingFacts DEF Rule
  <2>3. \A i \in DOMAIN Rules : i < a + 1 => i < a \/ i = a
    BY <1>4, <2>2
  <2>4. \A i \in DOMAIN Rules : i < a => HasRule(h, i)'
    BY <1>3, <1>8, <2>1 DEF ComesTo, Adding
  <2>5. rg'[h].pc = "add" => HasRule(h, a)'
    BY <1>8, <2>2 DEF HasRule
  <2>6. rg'[h].at = a + 1
    BY <1>8, <2>1
  <2> QED BY <1>8, <2>3, <2>4, <2>5, <2>6 DEF ComesTo
<1>9. SkipRule(h) => /\ Adding(h) /\ rg'[h].at = rg[h].at + 1 /\ rg'[h].pc = "add"
                     /\ lines'[h]["sysctl.conf"][Rule(h)] > 0
  <2> SUFFICES ASSUME SkipRule(h)
               PROVE  /\ Adding(h) /\ rg'[h].at = rg[h].at + 1 /\ rg'[h].pc = "add"
                      /\ lines'[h]["sysctl.conf"][Rule(h)] > 0
    OBVIOUS
  <2>1. Adding(h) /\ rg'[h].at = rg[h].at + 1 /\ rg'[h].pc = "add" /\ UNCHANGED lines
    BY <1>1 DEF SkipRule, Adding
  <2>2. lines[h]["sysctl.conf"][Rule(h)] > 0
    BY <1>2, <2>1, AddsMissing DEF SkipRule
  <2> QED BY <2>1, <2>2
<1>10. ASSUME NEW ran \in BOOLEAN, NEW ok \in BOOLEAN, AddRule(h, ran, ok)
       PROVE  /\ Adding(h) /\ rg'[h].at = rg[h].at + 1 /\ rg'[h].pc \in {"add", "addFailed"}
              /\ (rg'[h].pc = "add" => lines'[h]["sysctl.conf"][Rule(h)] > 0)
  <2>1. /\ Adding(h) /\ (ok => ran)
        /\ rg' = [rg EXCEPT ![h] = [rg[h] EXCEPT !.pc = IF ok THEN "add" ELSE "addFailed",
                                                 !.at = rg[h].at + 1]]
    BY <1>10 DEF AddRule
  <2>2. rg'[h].at = rg[h].at + 1 /\ rg'[h].pc = IF ok THEN "add" ELSE "addFailed"
    BY <1>1, <2>1
  <2>3. Rule(h) \in Lines /\ "sysctl.conf" \in Files
    BY <2>1, AddingFacts DEF Files
  <2>4. ok => lines'[h]["sysctl.conf"][Rule(h)] = lines[h]["sysctl.conf"][Rule(h)] + 1
    BY <1>2, <1>10, <2>1, <2>3, AddRuleLines
  <2>5. lines[h]["sysctl.conf"][Rule(h)] \in Nat
    <3>1. lines \in [RuleHosts -> [Files -> [Lines -> Nat]]]
      BY DEF RuleTypes
    <3> QED BY <2>3, <3>1
  <2>6. ok => lines'[h]["sysctl.conf"][Rule(h)] > 0
    BY <2>4, <2>5
  <2> QED BY <2>1, <2>2, <2>6
<1>11. CASE AssignErr(h)
  <2>1. /\ failed' = [failed EXCEPT ![h] = (rg[h].pc = "addFailed")]
        /\ rg' = [rg EXCEPT ![h] = [rg[h] EXCEPT !.pc = "added", !.at = 0, !.src = {}]]
        /\ rg[h].pc = "addFailed" \/ (rg[h].pc = "add" /\ ~Adding(h))
    BY <1>2, <1>11 DEF AssignErr
  <2>2. rg'[h].pc = "added" /\ failed'[h] = (rg[h].pc = "addFailed")
    BY <1>1, <1>2, <2>1
  <2>3. ASSUME rg[h].pc = "add", ~Adding(h) PROVE \A i \in DOMAIN Rules : HasRule(h, i)
    <3>1. ~(rg[h].at <= Len(Rules)) /\ rg[h].at \in Nat
      BY <1>2, <2>3, PositionsFacts DEF Adding, RuleTypes
    <3>2. \A i \in DOMAIN Rules : i < rg[h].at
      BY <1>4, <3>1
    <3> QED BY <2>3, <3>2 DEF ComesTo
  <2> QED BY <1>3, <2>1, <2>2, <2>3 DEF ComesTo
<1>12. CASE Added(h)
  <2>1. rg[h].pc = "added" /\ rg'[h].pc = "done" /\ UNCHANGED failed
    BY <1>1, <1>12 DEF Added
  <2> QED BY <1>3, <2>1 DEF ComesTo
<1> QED BY <1>5, <1>6, <1>7, <1>8, <1>9, <1>10, <1>11, <1>12 DEF HostStep

LEMMA CompleteStep ==
    RuleTypes /\ HostsOK /\ SoleOK /\ CompleteOK /\ [RulesNext]_ruleVars => CompleteOK'
<1> SUFFICES ASSUME RuleTypes, HostsOK, SoleOK, CompleteOK, [RulesNext]_ruleVars,
                    step'.mode = "serial"
             PROVE  CompleteOK'
    BY DEF CompleteOK
<1>0. step.hosts \subseteq RuleHosts
    BY DEF RuleTypes
<1>1. ASSUME NEW mode \in {"shared", "serial"}, NEW H \in (SUBSET RuleHosts) \ {{}},
             Begin(mode, H)
      PROVE  CompleteOK'
    BY <1>1 DEF Begin, CompleteOK, ComesTo, Resting
<1>2. ASSUME NEW h \in RuleHosts, Spawn(h) PROVE CompleteOK'
  <2>1. /\ step.mode = "serial" /\ step'.hosts = step.hosts /\ step'.pc = "result"
        /\ UNCHANGED <<lines, failed>>
        /\ rg' = [rg EXCEPT ![h].pc = "look"]
    BY <1>2 DEF Spawn, RuleTypes
  <2>2. \A k \in RuleHosts : /\ k # h => rg'[k] = rg[k]
                             /\ rg'[h].pc = "look"
    BY <2>1 DEF RuleTypes
  <2>3. ASSUME NEW k \in step.hosts PROVE ComesTo(k)'
    <3>1. k \in RuleHosts /\ ComesTo(k)
      BY <1>0, <2>1 DEF CompleteOK
    <3> QED BY <2>1, <2>2, <3>1 DEF ComesTo, HasRule
  <2> QED BY <2>1, <2>3 DEF CompleteOK
<1>3. CASE ReadErrVar
  <2>1. step.pc = "readErr" /\ step.mode = "serial"
    BY <1>3 DEF ReadErrVar, RuleTypes
  <2> QED BY <2>1 DEF CompleteOK
<1>4. CASE Result
  <2> DEFINE bad == \E h \in step.hosts \ step.todo : failed[h]
  <2>1. /\ step' = [step EXCEPT !.pc = "loop", !.bad = bad,
                                !.todo = IF bad THEN {} ELSE step.todo]
        /\ \A h \in step.hosts \ step.todo : Done(h)
        /\ UNCHANGED <<lines, rg, failed>>
    BY <1>4 DEF Result
  <2>2. bad \in BOOLEAN
    OBVIOUS
  <2> HIDE DEF bad
  <2>3. /\ step'.pc = "loop" /\ step'.hosts = step.hosts /\ step.mode = "serial"
        /\ step'.bad = bad /\ (~bad => step'.todo = step.todo)
    BY <2>1, <2>2 DEF RuleTypes
  <2>4. \A h \in step.hosts : ComesTo(h)'
    BY <2>1, <2>3 DEF CompleteOK, ComesTo, HasRule
  <2>5. ~bad => \A h \in step.hosts \ step.todo : rg[h].pc = "done" /\ ~failed[h]
    BY <2>1 DEF Done, bad
  <2> QED BY <2>1, <2>3, <2>4, <2>5 DEF CompleteOK
<1>5. CASE Return
  <2>1. /\ step.pc = "loop" /\ step.todo = {} /\ step'.pc = "idle" /\ step'.todo = step.todo
        /\ step'.hosts = step.hosts /\ step.mode = "serial" /\ step'.bad = step.bad
        /\ UNCHANGED <<lines, rg, failed>>
    BY <1>5 DEF Return, RuleTypes
  <2>2. \A h \in step.hosts : ComesTo(h)'
    BY <2>1 DEF CompleteOK, ComesTo, HasRule
  <2> QED BY <2>1, <2>2 DEF CompleteOK
<1>6. ASSUME NEW h \in RuleHosts, HostStep(h) PROVE CompleteOK'
  <2>1. /\ UNCHANGED step /\ h \in step.hosts \ step.todo /\ rg[h].pc # "done"
        /\ step.mode = "serial"
    BY <1>6, HostStepIsOwn DEF OwnStep, HostsOK
  <2>2. \A k \in step.hosts : Knows(k) /\ ComesTo(k)
    BY <2>1 DEF SoleOK, Sole, CompleteOK
  <2>3. ASSUME NEW k \in step.hosts PROVE ComesTo(k)'
    <3>1. CASE k = h
      BY <1>6, <2>1, <2>2, <3>1, HostComes
    <3>2. CASE k # h
      BY <1>0, <1>6, <2>1, <2>2, <3>2, OthersCome
    <3> QED BY <3>1, <3>2
  <2> QED BY <2>1, <2>3 DEF CompleteOK
<1>7. CASE UNCHANGED ruleVars
    BY <1>7 DEF ruleVars, CompleteOK, ComesTo, HasRule
<1> QED BY <1>1, <1>2, <1>3, <1>4, <1>5, <1>6, <1>7 DEF RulesNext

-----------------------------------------------------------------------------
LEMMA RulesInitHolds == RulesInit => RulesInv
<1> SUFFICES ASSUME RulesInit PROVE RulesInv
    OBVIOUS
<1>1. RuleTypes
    BY RulesInitTypes
<1>2. /\ step.hosts = {} /\ step.todo = {} /\ step.round = 0
      /\ \A h \in RuleHosts : rg[h].pc = "off" /\ rg[h].file = "sysctl.conf"
      /\ \A h \in RuleHosts, f \in Files, l \in Lines : lines[h][f][l] = 0
    BY DEF RulesInit, Resting
<1>3. HostsOK
    BY <1>2 DEF HostsOK
<1>4. step.mode # "serial"
    BY DEF RulesInit
<1>5. RoundsOK
  <2>1. ~(step.round > 0)
    BY <1>1, <1>2, RoundIsNat
  <2>2. \A h \in RuleHosts, f \in Files, l \in Lines : lines[h][f][l] <= step.round
    BY <1>1, <1>2, RoundIsNat
  <2> QED BY <2>1, <2>2 DEF RoundsOK
<1>6. SoleOK
  <2>1. \A h \in RuleHosts, f \in Files, l \in Lines : lines[h][f][l] <= 1
    BY <1>2, <1>5, RoundIsNat DEF RoundsOK
  <2> QED BY <2>1, <1>2 DEF SoleOK
<1> QED BY <1>1, <1>3, <1>5, <1>6, <1>4 DEF RulesInv, CompleteOK

LEMMA RulesInvariant == RulesSpec => []RulesInv
<1>1. RulesInv /\ [RulesNext]_ruleVars => RulesInv'
    BY RulesTypesStep, HostsStep, RoundsStep, SoleStep, CompleteStep DEF RulesInv
<1> QED BY RulesInitHolds, <1>1, PTL DEF RulesSpec

(* The variables keep their types whatever the hosts, the lines and the    *)
(* number of runs: a host does not come further than past its last line,   *)
(* and no file has a line more often than the step was run.                *)
THEOREM RulesTypeCorrect == RulesSpec => []RulesTypeOK
<1>1. RulesInv => RulesTypeOK
  <2> SUFFICES ASSUME RulesInv PROVE RulesTypeOK
    OBVIOUS
  <2>1. RuleTypes /\ HostsOK /\ RoundsOK
    BY DEF RulesInv
  <2>2. \A h \in RuleHosts : rg[h].at \in 0..(Len(Rules) + 1)
    BY <2>1 DEF RuleTypes, Positions
  <2>3. \A h \in RuleHosts : rg[h].pc \in Places /\ rg[h].src \subseteq Lines
    BY <2>1 DEF RuleTypes
  <2>4. step.round \in 0..MaxRounds /\ step.todo \subseteq step.hosts
    BY <2>1 DEF RuleTypes, HostsOK
  <2>5. \A h \in RuleHosts, f \in Files, l \in Lines : lines[h][f][l] \in 0..MaxRounds
    <3>1. lines \in [RuleHosts -> [Files -> [Lines -> Nat]]]
      BY <2>1 DEF RuleTypes
    <3>2. \A h \in RuleHosts, f \in Files, l \in Lines :
             lines[h][f][l] \in Nat /\ lines[h][f][l] <= step.round
      BY <2>1, <3>1 DEF RoundsOK
    <3> QED BY <2>4, <3>2, RoundsAssumption
  <2> QED BY <2>2, <2>3, <2>4, <2>5 DEF RulesTypeOK, Places
<1> QED BY RulesInvariant, <1>1, PTL

(* modifySysctlConf and addRules: "already added, no need to add it". On   *)
(* hosts that share the command, the response and err with no other, a     *)
(* line is in a file once at most however often the step is run, fails     *)
(* half way or loses an answer; where they share them, in the first run.   *)
THEOREM RulesAreAddedOnce == RulesSpec => []RulesAddedOnce
<1>1. RulesInv => RulesAddedOnce
  <2> SUFFICES ASSUME RulesInv, Alone \/ step.round = 1
               PROVE  \A h \in RuleHosts, f \in Files, l \in Lines : lines[h][f][l] <= 1
    BY DEF RulesAddedOnce
  <2>1. RuleTypes /\ RoundsOK /\ SoleOK
    BY DEF RulesInv
  <2>2. CASE step.round = 1
    BY <2>1, <2>2 DEF RoundsOK
  <2>3. CASE Alone
    <3>1. step.hosts \subseteq RuleHosts /\ IsFiniteSet(step.hosts)
      BY <2>1, HostsAssumption, FS_Subset DEF RuleTypes
    <3>2. Cardinality(step.hosts) = 1 => \E x \in RuleHosts : step.hosts = {x}
      BY <3>1, FS_Singleton
    <3> QED BY <2>1, <2>3, <3>2 DEF Alone, SoleOK, Sole
  <2> QED BY <2>2, <2>3
<1> QED BY RulesInvariant, <1>1, PTL

(* modifySysctlConf of the extensions: the loop stops at the first error,  *)
(* and a run that returns without one has seen to every line of every      *)
(* host, because a line is skipped only when the file has it.              *)
THEOREM SerialRunsAreComplete == RulesSpec => []RulesComplete
<1>1. RulesInv => RulesComplete
  <2> SUFFICES ASSUME RulesInv, step.mode = "serial", step.pc = "idle", ~step.bad,
                      NEW h \in step.hosts, NEW i \in DOMAIN Rules
               PROVE  lines[h]["sysctl.conf"][Rules[i]] > 0
    BY DEF RulesComplete
  <2>1. h \in step.hosts \ step.todo /\ ComesTo(h)
    BY DEF RulesInv, CompleteOK
  <2>2. rg[h].pc = "done" /\ ~failed[h]
    BY <2>1 DEF RulesInv, CompleteOK
  <2> QED BY <2>1, <2>2 DEF ComesTo, HasRule
<1> QED BY RulesInvariant, <1>1, PTL
============================================================================
