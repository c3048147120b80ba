--------------------------- MODULE CommandProofs ----------------------------
(***************************************************************************)
(* How a command's output reaches the verdict on it, through the two pipes *)
(* of Exec and through the one output file of all SSH sessions; and when   *)
(* Exec gets there at all.                                                 *)
(***************************************************************************)
EXTENDS ExecPipe, SshOutput, FiniteSetTheorems, TLAPS

(***************************************************************************)
(* Exec. For every set of commands and every size of a pipe: the verdict   *)
(* is on the whole output of the command, and Exec hangs in one case only. *)
(***************************************************************************)
(* What a sequence of output holds. *)
Held(s) == {s[i] : i \in DOMAIN s}

(* What the command has written to one of the pipes so far. *)
Written(to) == {cmd[i].tag : i \in {k \in 1..child.at : cmd[k].to = to}}

(* Nothing that was written gets lost: it has been read or is in the pipe. *)
NothingLost ==
    /\ Written("out") = Held(stdOutput) \cup Held(out)
    /\ Written("err") = Held(errOutput) \cup Held(err)

(* How far the process and its pipes are, at each point of Exec.           *)
Progress ==
    /\ exec.pc \in {"idle", "failed"} =>
         child.pc = "none" /\ cmd = <<>> /\ stdOutput = <<>> /\ errOutput = <<>>
    /\ exec.pc \in {"stdout", "stderr", "wait", "returned"} => child.pc # "none"
    /\ exec.pc \in {"stderr", "wait", "returned"} => child.pc = "exited" /\ out = <<>>
    /\ exec.pc \in {"wait", "returned"} => err = <<>>
    /\ child.pc = "exited" => child.at = Len(cmd)

Verdict ==
    exec.pc = "returned" => exec.ok = checkOutputContent(stdOutput \o errOutput)

ExecInv == ExecTypeOK /\ NothingLost /\ Progress /\ Verdict

-----------------------------------------------------------------------------
(* What the operations of a pipe do to what it holds. *)
LEMMA HeldAppend ==
    ASSUME NEW S, NEW s \in Seq(S), NEW x \in S
    PROVE  Append(s, x) \in Seq(S) /\ Held(Append(s, x)) = Held(s) \cup {x}
<1>1. Len(Append(s, x)) = Len(s) + 1 /\ Append(s, x) \in Seq(S)
  OBVIOUS
<1>2. \A i \in 1..Len(s) : Append(s, x)[i] = s[i]
  OBVIOUS
<1>3. Append(s, x)[Len(s) + 1] = x
  OBVIOUS
<1>4. DOMAIN s = 1..Len(s) /\ DOMAIN Append(s, x) = 1..(Len(s) + 1) /\ Len(s) \in Nat
  OBVIOUS
<1>5. 1..(Len(s) + 1) = (1..Len(s)) \cup {Len(s) + 1}
  BY <1>4
<1> QED
  BY <1>1, <1>2, <1>3, <1>4, <1>5 DEF Held

LEMMA HeldSplit ==
    ASSUME NEW S, NEW s \in Seq(S), s # <<>>
    PROVE  /\ Head(s) \in S /\ Tail(s) \in Seq(S) /\ Len(Tail(s)) = Len(s) - 1
           /\ Held(s) = {Head(s)} \cup Held(Tail(s))
<1>1. Len(s) \in Nat \ {0} /\ DOMAIN s = 1..Len(s) /\ Head(s) = s[1] /\ Head(s) \in S
  OBVIOUS
<1>2. Tail(s) \in Seq(S) /\ Len(Tail(s)) = Len(s) - 1 /\ DOMAIN Tail(s) = 1..(Len(s) - 1)
  BY <1>1
<1>3. \A i \in 1..(Len(s) - 1) : Tail(s)[i] = s[i + 1]
  BY <1>1
<1>6. ASSUME NEW i \in 1..Len(s) PROVE s[i] \in {Head(s)} \cup Held(Tail(s))
  <2>1. CASE i = 1
    BY <2>1, <1>1
  <2>2. CASE i # 1
    <3>1. i - 1 \in 1..(Len(s) - 1) /\ (i - 1) + 1 = i
      BY <1>1, <2>2
    <3>2. Tail(s)[i - 1] = s[i]
      BY <1>3, <3>1
    <3>3. i - 1 \in DOMAIN Tail(s)
      BY <1>2, <3>1
    <3> QED
      BY <3>2, <3>3 DEF Held
  <2> QED
    BY <2>1, <2>2
<1>7. {Head(s)} \cup Held(Tail(s)) \subseteq Held(s)
  BY <1>1, <1>2, <1>3 DEF Held
<1> QED
  BY <1>1, <1>2, <1>6, <1>7 DEF Held

(* A tag is found in two outputs after each other if it is in either.      *)
LEMMA HasConcat ==
    ASSUME NEW s \in Seq(PieceTags), NEW t \in Seq(PieceTags), NEW tag
    PROVE  Has(s \o t, tag) <=> tag \in Held(s) \cup Held(t)
<1>1. Len(s) \in Nat /\ Len(t) \in Nat /\ Len(s \o t) = Len(s) + Len(t)
  OBVIOUS
<1>2. DOMAIN s = 1..Len(s) /\ DOMAIN t = 1..Len(t) /\ DOMAIN (s \o t) = 1..(Len(s) + Len(t))
  OBVIOUS
<1>3. \A i \in 1..Len(s) : (s \o t)[i] = s[i]
  OBVIOUS
<1>4. \A i \in 1..Len(t) : (s \o t)[Len(s) + i] = t[i]
  OBVIOUS
<1>5. \A i \in 1..(Len(s) + Len(t)) :
        i \in 1..Len(s) \/ (i - Len(s) \in 1..Len(t) /\ i = Len(s) + (i - Len(s)))
  BY <1>1
<1>6. ASSUME NEW i \in 1..(Len(s) + Len(t)), (s \o t)[i] = tag
      PROVE  tag \in Held(s) \cup Held(t)
  <2>1. CASE i \in 1..Len(s)
    BY <2>1, <1>2, <1>3, <1>6 DEF Held
  <2>2. CASE i - Len(s) \in 1..Len(t)
    <3>1. PICK k \in 1..Len(t) : i = Len(s) + k
      BY <2>2, <1>1, SMTT(30)
    <3>2. t[k] = tag
      BY <3>1, <1>4, <1>6
    <3> QED
      BY <3>2, <1>2 DEF Held
  <2> QED
    BY <2>1, <2>2, <1>5
<1>7. ASSUME NEW i \in 1..Len(s), s[i] = tag PROVE Has(s \o t, tag)
  BY <1>7, <1>1, <1>2, <1>3 DEF Has
<1>8. ASSUME NEW i \in 1..Len(t), t[i] = tag PROVE Has(s \o t, tag)
  <2>1. Len(s) + i \in DOMAIN (s \o t) /\ (s \o t)[Len(s) + i] = tag
    BY <1>8, <1>1, <1>2, <1>4
  <2> QED
    BY <2>1 DEF Has
<1> QED
  BY <1>2, <1>6, <1>7, <1>8 DEF Has, Held

-----------------------------------------------------------------------------
LEMMA CommandIsSeq ==
    ASSUME ExecTypeOK
    PROVE  /\ cmd \in Seq([to : {"out", "err"}, tag : PieceTags])
           /\ DOMAIN cmd = 1..Len(cmd) /\ Len(cmd) \in Nat
           /\ \A i \in 1..Len(cmd) : cmd[i].to \in {"out", "err"} /\ cmd[i].tag \in PieceTags
<1> DEFINE S == [to : {"out", "err"}, tag : PieceTags]
<1>1. cmd \in Seq(S)
  <2>1. CASE cmd \in Commands
    BY <2>1, PipeAssumption
  <2>2. CASE cmd = <<>>
    BY <2>2
  <2> QED
    BY <2>1, <2>2 DEF ExecTypeOK
<1> HIDE DEF S
<1>2. DOMAIN cmd = 1..Len(cmd) /\ Len(cmd) \in Nat
  BY <1>1
<1>3. \A i \in 1..Len(cmd) : cmd[i] \in S
  BY <1>1, <1>2
<1> QED
  BY <1>1, <1>2, <1>3 DEF S

(* A step that neither writes nor reads loses nothing. *)
LEMMA WrittenStays ==
    ASSUME UNCHANGED cmd, child'.at = child.at
    PROVE  \A to : Written(to)' = Written(to)
BY DEF Written

LEMMA NothingMoves ==
    ASSUME NothingLost, UNCHANGED <<cmd, out, err, stdOutput, errOutput>>, child'.at = child.at
    PROVE  NothingLost'
<1>1. Written("out")' = Written("out") /\ Written("err")' = Written("err")
  BY WrittenStays
<1> QED
  BY <1>1 DEF NothingLost, Held

LEMMA ExecInitInv == ExecInit => ExecInv
<1> SUFFICES ASSUME ExecInit PROVE ExecInv
  OBVIOUS
<1> USE PipeAssumption DEF ExecInit
<1>1. ExecTypeOK
  <2>1. <<>> \in Seq(PieceTags) /\ Len(<<>>) = 0
    OBVIOUS
  <2>2. child \in [pc : {"none", "runs", "exited"}, at : 0..Len(cmd)]
    BY <2>1
  <2>3. out \in Seq(PieceTags) /\ err \in Seq(PieceTags) /\ Len(out) <= PipeSize /\ Len(err) <= PipeSize
    BY <2>1
  <2>4. stdOutput \in Seq(PieceTags) /\ errOutput \in Seq(PieceTags)
    BY <2>1
  <2>5. exec \in [pc : {"idle", "failed", "stdout", "stderr", "wait", "returned"}, ok : BOOLEAN]
    OBVIOUS
  <2>6. cmd \in Commands \cup {<<>>} /\ wants \in BOOLEAN
    OBVIOUS
  <2> QED
    BY <2>2, <2>3, <2>4, <2>5, <2>6, Zenon DEF ExecTypeOK
<1>2. NothingLost
  <2>1. Written("out") = {} /\ Written("err") = {}
    BY DEF Written
  <2> QED
    BY <2>1 DEF NothingLost, Held
<1>3. Progress /\ Verdict
  BY DEF Progress, Verdict
<1> QED
  BY <1>1, <1>2, <1>3 DEF ExecInv

(* Every action of Exec and of the command preserves the invariant. *)
LEMMA ExecStepInv == ExecInv /\ [ExecNext]_execVars => ExecInv'
<1> SUFFICES ASSUME ExecInv, [ExecNext]_execVars PROVE ExecInv'
  OBVIOUS
<1> USE PipeAssumption DEF ExecInv
<1>0. /\ cmd \in Seq([to : {"out", "err"}, tag : PieceTags])
      /\ DOMAIN cmd = 1..Len(cmd) /\ Len(cmd) \in Nat
      /\ \A i \in 1..Len(cmd) : cmd[i].to \in {"out", "err"} /\ cmd[i].tag \in PieceTags
  BY CommandIsSeq
<1>1. CASE StartFails
  BY <1>1, NothingMoves DEF StartFails, ExecTypeOK, Progress, Verdict
<1>2. ASSUME NEW c \in Commands, NEW w \in BOOLEAN, StartCommand(c, w) PROVE ExecInv'
  <2>1. child' = [pc |-> "runs", at |-> 0] /\ cmd' = c /\ Len(c) \in Nat /\ wants' = w
    BY <1>2 DEF StartCommand
  <2>2. exec.ok \in BOOLEAN /\ exec' = [exec EXCEPT !.pc = "stdout"] /\ exec.pc = "idle"
    BY <1>2 DEF StartCommand, ExecTypeOK
  <2>3. ExecTypeOK'
    <3>1. child' \in [pc : {"none", "runs", "exited"}, at : 0..Len(cmd')]
      BY <2>1
    <3> QED
      BY <1>2, <2>1, <2>2, <3>1 DEF StartCommand, ExecTypeOK
  <2>4. Written("out") = {} /\ Written("err") = {}
    BY <1>0, <2>2 DEF Progress, Written, ExecTypeOK
  <2>5. Written("out")' = {} /\ Written("err")' = {}
    BY <2>1 DEF Written
  <2>6. NothingLost'
    BY <1>2, <2>4, <2>5 DEF StartCommand, NothingLost
  <2>7. Progress' /\ Verdict'
    BY <1>2, <2>1, <2>2, <2>3 DEF StartCommand, Progress, Verdict, ExecTypeOK
  <2> QED
    BY <2>3, <2>6, <2>7
<1>3. CASE ChildWrites
  <2> DEFINE n == child.at + 1
  <2>1. n \in 1..Len(cmd) /\ child.at \in Nat /\ child.pc = "runs"
    BY <1>0, <1>3 DEF ChildWrites, Writing, ExecTypeOK
  <2>2. Piece = cmd[n] /\ cmd[n].tag \in PieceTags /\ cmd[n].to \in {"out", "err"}
    <3>1. Piece = cmd[n]
      BY DEF Piece
    <3> QED
      BY <1>0, <2>1, <3>1
  <2>3. child' = [child EXCEPT !.at = n] /\ child'.at = n /\ child'.pc = "runs"
    BY <1>3, <2>1 DEF ChildWrites, ExecTypeOK
  <2>4. UNCHANGED <<cmd, wants, exec, stdOutput, errOutput>>
    BY <1>3 DEF ChildWrites
  <2>5. 1..n = (1..child.at) \cup {n}
    BY <2>1
  <2>6. \A to : Written(to)' = IF cmd[n].to = to THEN Written(to) \cup {cmd[n].tag} ELSE Written(to)
    BY <2>3, <2>4, <2>5 DEF Written
  <2>7. exec.pc = "stdout"
    BY <2>1, <1>0 DEF Progress, ExecTypeOK
  <2>8. CASE cmd[n].to = "out" /\ Len(out) < PipeSize /\ out' = Append(out, cmd[n].tag) /\ UNCHANGED err
    <3>1. out' \in Seq(PieceTags) /\ Held(out') = Held(out) \cup {cmd[n].tag} /\ Len(out') <= PipeSize
      BY <2>2, <2>8, HeldAppend DEF ExecTypeOK
    <3>2. Held(out)' = Held(out) \cup {cmd[n].tag} /\ Held(err)' = Held(err)
          /\ Held(stdOutput)' = Held(stdOutput) /\ Held(errOutput)' = Held(errOutput)
      BY <3>1, <2>4, <2>8 DEF Held
    <3>3. NothingLost'
      BY <3>2, <2>6, <2>8 DEF NothingLost
    <3>4. child' \in [pc : {"none", "runs", "exited"}, at : 0..Len(cmd')]
      BY <1>0, <2>1, <2>3, <2>4 DEF ExecTypeOK
    <3>5. ExecTypeOK'
      BY <3>1, <3>4, <2>4, <2>8 DEF ExecTypeOK
    <3>6. Progress' /\ Verdict'
      BY <2>1, <2>3, <2>4, <2>7 DEF Progress, Verdict
    <3> QED
      BY <3>3, <3>5, <3>6
  <2>9. CASE cmd[n].to = "err" /\ Len(err) < PipeSize /\ err' = Append(err, cmd[n].tag) /\ UNCHANGED out
    <3>1. err' \in Seq(PieceTags) /\ Held(err') = Held(err) \cup {cmd[n].tag} /\ Len(err') <= PipeSize
      BY <2>2, <2>9, HeldAppend DEF ExecTypeOK
    <3>2. Held(err)' = Held(err) \cup {cmd[n].tag} /\ Held(out)' = Held(out)
          /\ Held(stdOutput)' = Held(stdOutput) /\ Held(errOutput)' = Held(errOutput)
      BY <3>1, <2>4, <2>9 DEF Held
    <3>3. NothingLost'
      BY <3>2, <2>6, <2>9 DEF NothingLost
    <3>4. child' \in [pc : {"none", "runs", "exited"}, at : 0..Len(cmd')]
      BY <1>0, <2>1, <2>3, <2>4 DEF ExecTypeOK
    <3>5. ExecTypeOK'
      BY <3>1, <3>4, <2>4, <2>9 DEF ExecTypeOK
    <3>6. Progress' /\ Verdict'
      BY <2>1, <2>3, <2>4, <2>7 DEF Progress, Verdict
    <3> QED
      BY <3>3, <3>5, <3>6
  <2> QED
    BY <1>3, <2>2, <2>8, <2>9 DEF ChildWrites
<1>4. CASE ChildExits
  <2>1. NothingLost'
    BY <1>4, NothingMoves DEF ChildExits, ExecTypeOK
  <2> QED
    BY <1>4, <2>1 DEF ChildExits, ExecTypeOK, Progress, Verdict
<1>5. CASE ReadOut
  <2>0. exec.pc = "stdout" /\ UNCHANGED <<cmd, wants, child, err, errOutput>>
    BY <1>5 DEF ReadOut
  <2>1. CASE out # <<>> /\ stdOutput' = Append(stdOutput, Head(out)) /\ out' = Tail(out) /\ UNCHANGED exec
    <3>1. /\ Head(out) \in PieceTags /\ out' \in Seq(PieceTags) /\ Len(out') <= PipeSize
          /\ Held(out) = {Head(out)} \cup Held(out')
      BY <2>1, HeldSplit DEF ExecTypeOK
    <3>2. stdOutput' \in Seq(PieceTags) /\ Held(stdOutput') = Held(stdOutput) \cup {Head(out)}
      BY <2>1, <3>1, HeldAppend DEF ExecTypeOK
    <3>3. Written("out")' = Written("out") /\ Written("err")' = Written("err")
      BY <2>0, WrittenStays
    <3>4. Held(stdOutput)' \cup Held(out)' = Held(stdOutput) \cup Held(out)
      BY <3>1, <3>2 DEF Held
    <3>5. Held(errOutput)' \cup Held(err)' = Held(errOutput) \cup Held(err)
      BY <2>0 DEF Held
    <3>6. NothingLost'
      BY <3>3, <3>4, <3>5 DEF ExecInv, NothingLost
    <3> QED
      BY <2>0, <2>1, <3>1, <3>2, <3>6 DEF ExecTypeOK, Progress, Verdict
  <2>2. CASE out = <<>> /\ ~Open /\ exec' = [exec EXCEPT !.pc = "stderr"] /\ UNCHANGED <<stdOutput, out>>
    <3>1. NothingLost'
      BY <2>0, <2>2, NothingMoves
    <3> QED
      BY <2>0, <2>2, <3>1 DEF ExecTypeOK, Progress, Verdict, Open
  <2> QED
    BY <1>5, <2>1, <2>2 DEF ReadOut
<1>6. CASE ReadErr
  <2>0. exec.pc = "stderr" /\ UNCHANGED <<cmd, wants, child, out, stdOutput>>
    BY <1>6 DEF ReadErr
  <2>1. CASE err # <<>> /\ errOutput' = Append(errOutput, Head(err)) /\ err' = Tail(err) /\ UNCHANGED exec
    <3>1. /\ Head(err) \in PieceTags /\ err' \in Seq(PieceTags) /\ Len(err') <= PipeSize
          /\ Held(err) = {Head(err)} \cup Held(err')
      BY <2>1, HeldSplit DEF ExecTypeOK
    <3>2. errOutput' \in Seq(PieceTags) /\ Held(errOutput') = Held(errOutput) \cup {Head(err)}
      BY <2>1, <3>1, HeldAppend DEF ExecTypeOK
    <3>3. Written("out")' = Written("out") /\ Written("err")' = Written("err")
      BY <2>0, WrittenStays
    <3>4. Held(errOutput)' \cup Held(err)' = Held(errOutput) \cup Held(err)
      BY <3>1, <3>2 DEF Held
    <3>5. Held(stdOutput)' \cup Held(out)' = Held(stdOutput) \cup Held(out)
      BY <2>0 DEF Held
    <3>6. NothingLost'
      BY <3>3, <3>4, <3>5 DEF ExecInv, NothingLost
    <3> QED
      BY <2>0, <2>1, <3>1, <3>2, <3>6 DEF ExecTypeOK, Progress, Verdict
  <2>2. CASE err = <<>> /\ ~Open /\ exec' = [exec EXCEPT !.pc = "wait"] /\ UNCHANGED <<errOutput, err>>
    <3>1. NothingLost'
      BY <2>0, <2>2, NothingMoves
    <3> QED
      BY <2>0, <2>2, <3>1 DEF ExecTypeOK, Progress, Verdict, Open
  <2> QED
    BY <1>6, <2>1, <2>2 DEF ReadErr
<1>7. CASE Finish
  <2>1. UNCHANGED <<cmd, wants, child, out, err, stdOutput, errOutput>> /\ exec.pc = "wait"
    BY <1>7 DEF Finish
  <2>2. exec' = [pc |-> "returned", ok |-> checkOutputContent(stdOutput \o errOutput)]
    BY <1>7 DEF Finish
  <2>3. checkOutputContent(stdOutput \o errOutput) \in BOOLEAN
    BY DEF checkOutputContent
  <2>4. NothingLost'
    BY <2>1, NothingMoves
  <2>5. Verdict'
    BY <2>1, <2>2 DEF Verdict, checkOutputContent, Has
  <2> QED
    BY <2>1, <2>2, <2>3, <2>4, <2>5 DEF ExecTypeOK, Progress
<1>8. CASE UNCHANGED execVars
  <2>1. NothingLost'
    BY <1>8, NothingMoves DEF execVars
  <2>2. checkOutputContent(stdOutput \o errOutput)' = checkOutputContent(stdOutput \o errOutput)
    BY <1>8 DEF execVars, checkOutputContent, Has
  <2> QED
    BY <1>8, <2>1, <2>2 DEF execVars, ExecTypeOK, Progress, Verdict
<1> QED
  BY <1>1, <1>2, <1>3, <1>4, <1>5, <1>6, <1>7, <1>8 DEF ExecNext

(* The invariant holds of every run of Exec. *)
THEOREM ExecInvariant == ExecSpec => []ExecInv
BY ExecInitInv, ExecStepInv, PTL DEF ExecSpec

-----------------------------------------------------------------------------
LEMMA VerdictFollows == ExecInv => VerdictOnWholeOutput
<1> SUFFICES ASSUME ExecInv, exec.pc = "returned" PROVE VerdictOnWholeOutput
  BY DEF VerdictOnWholeOutput
<1>1. DOMAIN cmd = 1..Len(cmd) /\ child.at = Len(cmd)
      /\ cmd \in Seq([to : {"out", "err"}, tag : PieceTags])
  BY CommandIsSeq DEF ExecInv, Progress
<1>2. out = <<>> /\ err = <<>>
  BY DEF ExecInv, Progress
<1>3. Held(out) = {} /\ Held(err) = {}
  BY <1>2 DEF Held
<1>4. \A i \in 1..Len(cmd) : cmd[i].to \in {"out", "err"}
  BY CommandIsSeq DEF ExecInv
<1>5. \A tag : tag \in Held(stdOutput) \cup Held(errOutput) <=> \E i \in DOMAIN cmd : cmd[i].tag = tag
  BY <1>1, <1>3, <1>4 DEF ExecInv, NothingLost, Written
<1>6. \A tag : Has(stdOutput \o errOutput, tag) <=> \E i \in DOMAIN cmd : cmd[i].tag = tag
  BY <1>5, HasConcat DEF ExecInv, ExecTypeOK
<1>7. exec.ok = checkOutputContent(stdOutput \o errOutput)
  BY DEF ExecInv, Verdict
<1> QED
  BY <1>6, <1>7 DEF VerdictOnWholeOutput, checkOutputContent

(* The verdict that Exec returns is on everything the command has written *)
(* to both of its pipes, whatever it writes and however small they are.    *)
THEOREM VerdictIsOnWholeOutput == ExecSpec => []VerdictOnWholeOutput
BY ExecInvariant, VerdictFollows, PTL

LEMMA StuckFollows == ExecInv => StuckOnlyOnFullPipe
<1> SUFFICES ASSUME ExecInv, exec.pc \in {"stdout", "stderr", "wait"}, ~ExecCanMove
             PROVE  exec.pc = "stdout" /\ Blocked /\ Piece.to = "err"
  BY DEF StuckOnlyOnFullPipe
<1>1. child.pc \in {"runs", "exited"}
  BY DEF ExecInv, ExecTypeOK, Progress
<1>2. child.pc = "runs"
  BY <1>1 DEF ExecCanMove, Open
<1>3. exec.pc = "stdout" /\ out = <<>>
  BY <1>2 DEF ExecInv, Progress, ExecCanMove
<1>4. Blocked
  BY <1>2 DEF ExecCanMove, Open
<1>5. child.at + 1 \in DOMAIN cmd
  BY <1>4, CommandIsSeq DEF ExecInv, ExecTypeOK, Blocked, Writing
<1>6. Piece.to \in {"out", "err"}
  BY <1>5, CommandIsSeq, Zenon DEF ExecInv, Piece
<1>7. Piece.to # "out"
  BY <1>3, <1>4, PipeAssumption DEF Blocked, PipeOf
<1> QED
  BY <1>3, <1>4, <1>6, <1>7

(* Exec can hang on a command only while it waits for the end of standard *)
(* output and the command waits for room in the pipe of its error output.  *)
THEOREM ExecStuckOnlyOnFullPipe == ExecSpec => []StuckOnlyOnFullPipe
BY ExecInvariant, StuckFollows, PTL

(* The two halves of ExecReturns that are not about fairness. Each step    *)
(* brings the end nearer, by this measure: a piece to be written counts    *)
(* for two, one in a pipe for one, then the exit and the phases of Exec.   *)
Phase == CASE exec.pc = "stdout" -> 3
           [] exec.pc = "stderr" -> 2
           [] exec.pc = "wait"   -> 1
           [] OTHER              -> 0
Left == IF child.pc = "exited" THEN 0 ELSE 1
Ahead == 2 * (Len(cmd) - child.at)
InPipes == Len(out) + Len(err)
ExecRank == Ahead + InPipes + Left + Phase

(* And the error output a command has written is read, or is in the pipe. *)
ErrPieces(n) == {i \in 1..n : cmd[i].to = "err"}
ErrCounted == Cardinality(ErrPieces(child.at)) = Len(errOutput) + Len(err)

LEMMA ExecSizes ==
    ASSUME ExecInv
    PROVE  /\ Len(cmd) \in Nat /\ child.at \in 0..Len(cmd)
           /\ Len(out) \in Nat /\ Len(err) \in Nat /\ Len(errOutput) \in Nat
           /\ Ahead \in Nat /\ InPipes \in Nat /\ Left \in 0..1 /\ Phase \in 0..3
<1>1. /\ Len(cmd) \in Nat /\ child.at \in 0..Len(cmd) /\ Len(out) \in Nat /\ Len(err) \in Nat
      /\ Len(errOutput) \in Nat
  BY CommandIsSeq DEF ExecInv, ExecTypeOK
<1>2. Ahead \in Nat /\ InPipes \in Nat
  BY <1>1 DEF Ahead, InPipes
<1>3. Left \in 0..1 /\ Phase \in 0..3
  BY DEF Left, Phase
<1> QED
  BY <1>1, <1>2, <1>3

LEMMA ExecRankFalls ==
    ASSUME ExecInv, exec.pc # "idle", ExecNext
    PROVE  ExecRank' \in Nat /\ ExecRank' < ExecRank
<1>1. Ahead \in Nat /\ InPipes \in Nat /\ Left \in 0..1 /\ Phase \in 0..3
  BY ExecSizes
<1>2. /\ exec \in [pc : {"idle", "failed", "stdout", "stderr", "wait", "returned"}, ok : BOOLEAN]
      /\ child \in [pc : {"none", "runs", "exited"}, at : 0..Len(cmd)]
      /\ out \in Seq(PieceTags) /\ err \in Seq(PieceTags) /\ Len(cmd) \in Nat
      /\ Len(out) \in Nat /\ Len(err) \in Nat
  BY ExecSizes DEF ExecInv, ExecTypeOK
<1>3. CASE ChildWrites
  <2>1. /\ cmd' = cmd /\ child'.at = child.at + 1 /\ Phase' = Phase /\ Left' = Left
        /\ child.at + 1 \in 1..Len(cmd)
    BY <1>2, <1>3 DEF ChildWrites, Writing, Phase, Left
  <2>2. Ahead' = Ahead - 2 /\ Ahead' \in Nat
    <3>1. PICK n \in Nat, m \in Nat : n = child.at /\ m = Len(cmd)
      BY <1>2
    <3>2. Ahead = 2 * (m - n) /\ n + 1 <= m
      BY <2>1, <3>1 DEF Ahead
    <3>3. Ahead' = 2 * (m - (n + 1))
      BY <2>1, <3>1 DEF Ahead
    <3> QED
      BY <3>2, <3>3
  <2>3. InPipes' = InPipes + 1
    <3>1. Piece.tag \in PieceTags
      BY <2>1, CommandIsSeq, Zenon DEF ExecInv, Piece
    <3>2. CASE out' = Append(out, Piece.tag) /\ UNCHANGED err
      BY <1>2, <3>1, <3>2 DEF InPipes
    <3>3. CASE err' = Append(err, Piece.tag) /\ UNCHANGED out
      BY <1>2, <3>1, <3>3 DEF InPipes
    <3> QED
      BY <1>3, <3>2, <3>3 DEF ChildWrites
  <2> QED
    BY <1>1, <2>1, <2>2, <2>3 DEF ExecRank
<1>4. CASE ChildExits
  <2>1. Ahead' = Ahead /\ InPipes' = InPipes /\ Phase' = Phase
    BY <1>2, <1>4 DEF ChildExits, Phase, Ahead, InPipes
  <2>2. Left = 1 /\ Left' = 0
    BY <1>2, <1>4 DEF ChildExits, Left
  <2> QED
    BY <1>1, <2>1, <2>2 DEF ExecRank
<1>5. CASE ReadOut
  <2>1. Ahead' = Ahead /\ Left' = Left /\ exec.pc = "stdout" /\ err' = err
    BY <1>5 DEF ReadOut, Left, Ahead
  <2>2. CASE out # <<>> /\ out' = Tail(out) /\ UNCHANGED exec
    <3>1. Len(out') = Len(out) - 1 /\ Phase' = Phase
      BY <1>2, <2>2, HeldSplit DEF Phase
    <3>2. InPipes' = InPipes - 1 /\ InPipes' \in Nat
      BY <1>2, <2>1, <2>2, <3>1 DEF InPipes
    <3> QED
      BY <1>1, <2>1, <3>1, <3>2 DEF ExecRank
  <2>3. CASE exec' = [exec EXCEPT !.pc = "stderr"] /\ UNCHANGED out
    <3>1. Phase = 3 /\ Phase' = 2 /\ InPipes' = InPipes
      BY <1>2, <2>1, <2>3 DEF Phase, InPipes
    <3> QED
      BY <1>1, <2>1, <3>1 DEF ExecRank
  <2> QED
    BY <1>5, <2>2, <2>3 DEF ReadOut
<1>6. CASE ReadErr
  <2>1. Ahead' = Ahead /\ Left' = Left /\ exec.pc = "stderr" /\ out' = out
    BY <1>6 DEF ReadErr, Left, Ahead
  <2>2. CASE err # <<>> /\ err' = Tail(err) /\ UNCHANGED exec
    <3>1. Len(err') = Len(err) - 1 /\ Phase' = Phase
      BY <1>2, <2>2, HeldSplit DEF Phase
    <3>2. InPipes' = InPipes - 1 /\ InPipes' \in Nat
      BY <1>2, <2>1, <2>2, <3>1 DEF InPipes
    <3> QED
      BY <1>1, <2>1, <3>1, <3>2 DEF ExecRank
  <2>3. CASE exec' = [exec EXCEPT !.pc = "wait"] /\ UNCHANGED err
    <3>1. Phase = 2 /\ Phase' = 1 /\ InPipes' = InPipes
      BY <1>2, <2>1, <2>3 DEF Phase, InPipes
    <3> QED
      BY <1>1, <2>1, <3>1 DEF ExecRank
  <2> QED
    BY <1>6, <2>2, <2>3 DEF ReadErr
<1>7. CASE Finish
  <2>1. Ahead' = Ahead /\ InPipes' = InPipes /\ Left' = Left /\ Phase = 1 /\ Phase' = 0
    BY <1>7 DEF Finish, Left, Phase, Ahead, InPipes
  <2> QED
    BY <1>1, <2>1 DEF ExecRank
<1> QED
  BY <1>3, <1>4, <1>5, <1>6, <1>7 DEF ExecNext, StartFails, StartCommand

(* No behaviour of Exec goes on for ever: once started, every step of the  *)
(* command and of its reader lowers the measure, whatever is written.      *)
THEOREM ExecGoesForward ==
    ExecSpec => [][exec.pc # "idle" => ExecRank' \in Nat /\ ExecRank' < ExecRank]_execVars
<1>1. ExecInv /\ [ExecNext]_execVars
        => [exec.pc # "idle" => ExecRank' \in Nat /\ ExecRank' < ExecRank]_execVars
  BY ExecRankFalls
<1> QED
  BY <1>1, ExecInvariant, PTL DEF ExecSpec

LEMMA ErrPiecesFinite ==
    ASSUME NEW n \in Nat
    PROVE  /\ IsFiniteSet(ErrPieces(n)) /\ Cardinality(ErrPieces(n)) \in Nat
           /\ n + 1 \notin ErrPieces(n)
           /\ ErrPieces(n + 1) = IF cmd[n + 1].to = "err" THEN ErrPieces(n) \cup {n + 1}
                                 ELSE ErrPieces(n)
<1>1. IsFiniteSet(1..n)
  BY FS_Interval
<1>2. IsFiniteSet(ErrPieces(n))
  BY <1>1, FS_Subset DEF ErrPieces
<1>3. 1..(n + 1) = (1..n) \cup {n + 1} /\ n + 1 \notin 1..n
  OBVIOUS
<1> QED
  BY <1>2, <1>3, FS_CardinalityType DEF ErrPieces

LEMMA ErrCountedStep == ExecInv /\ ErrCounted /\ [ExecNext]_execVars => ErrCounted'
<1> SUFFICES ASSUME ExecInv, ErrCounted, [ExecNext]_execVars PROVE ErrCounted'
  OBVIOUS
<1>1. /\ child.at \in Nat /\ Len(err) \in Nat /\ Len(errOutput) \in Nat /\ Len(cmd) \in Nat
      /\ child.at <= Len(cmd)
  BY ExecSizes
<1>2. /\ err \in Seq(PieceTags) /\ errOutput \in Seq(PieceTags)
      /\ child \in [pc : {"none", "runs", "exited"}, at : 0..Len(cmd)]
  BY DEF ExecInv, ExecTypeOK
<1>3. ASSUME UNCHANGED <<cmd, err, errOutput>>, child'.at = child.at PROVE ErrCounted'
  BY <1>3 DEF ErrCounted, ErrPieces
<1>4. ASSUME NEW c \in Commands, NEW w \in BOOLEAN, StartCommand(c, w) PROVE ErrCounted'
  <2>1. child.at = 0 /\ child'.at = 0 /\ UNCHANGED <<err, errOutput>>
    <3>1. cmd = <<>>
      BY <1>4 DEF StartCommand, ExecInv, Progress
    <3> QED
      BY <1>2, <1>4, <3>1 DEF StartCommand
  <2>2. ErrPieces(0) = {} /\ ErrPieces(0)' = {}
    BY DEF ErrPieces
  <2> QED
    BY <2>1, <2>2 DEF ErrCounted
<1>5. CASE ChildWrites
  <2> DEFINE n == child.at
  <2>1. /\ child'.at = n + 1 /\ UNCHANGED <<cmd, errOutput>> /\ n + 1 \in 1..Len(cmd)
        /\ Piece = cmd[n + 1]
    BY <1>1, <1>2, <1>5 DEF ChildWrites, Writing, Piece
  <2>2. ErrCounted' <=> Cardinality(ErrPieces(n + 1)) = Len(errOutput) + Len(err')
    BY <2>1 DEF ErrCounted, ErrPieces
  <2>3. Piece.tag \in PieceTags
    BY <2>1, CommandIsSeq DEF ExecInv
  <2>4. CASE Piece.to = "out" /\ UNCHANGED err
    BY <1>1, <2>1, <2>2, <2>4, ErrPiecesFinite DEF ErrCounted
  <2>5. CASE Piece.to = "err" /\ err' = Append(err, Piece.tag)
    <3>1. Len(err') = Len(err) + 1
      BY <1>2, <2>3, <2>5
    <3>2. ErrPieces(n + 1) = ErrPieces(n) \cup {n + 1} /\ n + 1 \notin ErrPieces(n)
          /\ IsFiniteSet(ErrPieces(n)) /\ Cardinality(ErrPieces(n)) \in Nat
      BY <1>1, <2>1, <2>5, ErrPiecesFinite
    <3>3. Cardinality(ErrPieces(n + 1)) = Cardinality(ErrPieces(n)) + 1
      BY <3>2, FS_AddElement
    <3> QED
      BY <1>1, <2>2, <3>1, <3>2, <3>3 DEF ErrCounted
  <2> QED
    BY <1>5, <2>4, <2>5 DEF ChildWrites
<1>6. CASE ReadErr
  <2>1. UNCHANGED <<cmd, child>>
    BY <1>6 DEF ReadErr
  <2>2. CASE err # <<>> /\ errOutput' = Append(errOutput, Head(err)) /\ err' = Tail(err)
    <3>1. Head(err) \in PieceTags /\ Len(Tail(err)) = Len(err) - 1
      BY <1>2, <2>2, HeldSplit
    <3>2. Len(errOutput') = Len(errOutput) + 1
      BY <1>2, <2>2, <3>1
    <3> QED
      BY <1>1, <2>1, <2>2, <3>1, <3>2 DEF ErrCounted, ErrPieces
  <2>3. CASE UNCHANGED <<errOutput, err>>
    BY <1>3, <2>1, <2>3
  <2> QED
    BY <1>6, <2>2, <2>3 DEF ReadErr
<1>7. CASE StartFails \/ ChildExits \/ ReadOut \/ Finish \/ UNCHANGED execVars
  BY <1>2, <1>3, <1>7 DEF StartFails, ChildExits, ReadOut, Finish, execVars
<1> QED
  BY <1>4, <1>5, <1>6, <1>7 DEF ExecNext

SmallErrorsGoOn == exec.pc \in {"stdout", "stderr", "wait"} /\ SmallErrors => ExecCanMove

LEMMA SmallErrorsFollow == ExecInv /\ ErrCounted => SmallErrorsGoOn
<1> SUFFICES ASSUME ExecInv, ErrCounted, exec.pc \in {"stdout", "stderr", "wait"}, SmallErrors,
                    ~ExecCanMove
             PROVE  FALSE
  BY DEF SmallErrorsGoOn
<1> DEFINE n == child.at
<1>1. exec.pc = "stdout" /\ Blocked /\ Piece.to = "err"
  BY StuckFollows DEF StuckOnlyOnFullPipe
<1>2. /\ n \in Nat /\ n + 1 \in 1..Len(cmd) /\ Len(cmd) \in Nat /\ DOMAIN cmd = 1..Len(cmd)
      /\ Piece = cmd[n + 1] /\ Len(err) = PipeSize
  BY <1>1, ExecSizes, CommandIsSeq DEF Blocked, Writing, Piece, PipeOf, ExecInv
<1>3. Cardinality(ErrPieces(n)) >= PipeSize
  BY <1>2, ExecSizes, PipeAssumption DEF ErrCounted
<1>4. Cardinality(ErrPieces(n + 1)) = Cardinality(ErrPieces(n)) + 1
  <2>1. ErrPieces(n + 1) = ErrPieces(n) \cup {n + 1} /\ n + 1 \notin ErrPieces(n)
        /\ IsFiniteSet(ErrPieces(n))
    BY <1>1, <1>2, ErrPiecesFinite
  <2> QED
    BY <2>1, FS_AddElement
<1>5. Cardinality(ErrPieces(n + 1)) <= Cardinality(ErrPieces(Len(cmd)))
  <2>1. ErrPieces(n + 1) \subseteq ErrPieces(Len(cmd))
    BY <1>2 DEF ErrPieces
  <2>2. IsFiniteSet(ErrPieces(Len(cmd)))
    BY <1>2, ErrPiecesFinite
  <2> QED
    BY <2>1, <2>2, FS_Subset
<1>6. Cardinality(ErrPieces(Len(cmd))) <= PipeSize
  BY <1>2 DEF SmallErrors, ErrPieces
<1>7. Cardinality(ErrPieces(n)) \in Nat /\ Cardinality(ErrPieces(Len(cmd))) \in Nat
  BY <1>2, ErrPiecesFinite
<1> QED
  BY <1>3, <1>4, <1>5, <1>6, <1>7, PipeAssumption

(* Until Exec returns there is a next step, of the command or of its       *)
(* reader, if the error output of the command fits a pipe, for pipes and   *)
(* outputs of every size.                                                  *)
THEOREM SmallErrorsNeverStuck == ExecSpec => []SmallErrorsGoOn
<1>1. ExecInit => ErrCounted
  <2> SUFFICES ASSUME ExecInit PROVE ErrCounted
    OBVIOUS
  <2>1. child.at = 0 /\ Len(err) = 0 /\ Len(errOutput) = 0
    BY DEF ExecInit
  <2>2. ErrPieces(0) = {}
    BY DEF ErrPieces
  <2> QED
    BY <2>1, <2>2, FS_EmptySet DEF ErrCounted
<1>2. ExecSpec => []ErrCounted
  BY <1>1, ErrCountedStep, ExecInvariant, PTL DEF ExecSpec
<1> QED
  BY <1>2, ExecInvariant, SmallErrorsFollow, PTL

-----------------------------------------------------------------------------
(***************************************************************************)
(* SSH. For every number of sessions: what a session can find in the one   *)
(* output file that all of them use.                                       *)
(***************************************************************************)
(* Sessions that run at the same time know of each other, *)
Met == \A s, t \in Running : s # t => t \in near[s]

(* each finds in the file only its own output and that of those it knows,  *)
OnlyNear == \A s \in Running : \A i \in DOMAIN outFile :
                outFile[i].by \in {s, Nobody} \cup near[s]

(* and one that knows of no other finds what it has written.               *)
OwnWhenAlone ==
    \A s \in Running : near[s] = {} => outFile = Arrived(s)

(* and one that is about to open it has sent nothing, and has none open.   *)
Fresh == \A s \in Sessions :
            ssh[s].pc = "create" => ssh[s].sent = 0 /\ ssh[s].file = "none"

SshInv ==
    /\ SshTypeOK /\ Met /\ OnlyNear /\ OwnWhenAlone /\ Fresh
    /\ NoStaleOutput /\ AloneJudgedRight

-----------------------------------------------------------------------------
(* The output of a command. *)
LEMMA OutputType ==
    ASSUME SshTypeOK, NEW s \in Sessions
    PROVE  /\ ssh[s].cmd.output \in Seq(OutputTags)
           /\ Len(ssh[s].cmd.output) \in Nat
           /\ \A i \in 1..Len(ssh[s].cmd.output) : ssh[s].cmd.output[i] \in OutputTags
<1>1. ssh[s].cmd \in RemoteCmds \cup {NoCommand}
  BY DEF SshTypeOK
<1>2. NoCommand.output \in Seq(OutputTags)
  BY DEF NoCommand
<1>3. ssh[s].cmd.output \in Seq(OutputTags)
  BY <1>1, <1>2, RunsAssumption
<1> HIDE DEF OutputTags
<1> QED
  BY <1>3

(* A piece written at a place: it is there, and the others are what they   *)
(* were, or a hole.                                                        *)
LEMMA WrittenAtType ==
    ASSUME SshTypeOK, NEW n \in Nat \ {0}, NEW piece \in Pieces
    PROVE  /\ WrittenAt(n, piece) \in Seq(Pieces)
           /\ DOMAIN WrittenAt(n, piece) = 1..(IF n > Len(outFile) THEN n ELSE Len(outFile))
           /\ \A i \in DOMAIN WrittenAt(n, piece) :
                \/ WrittenAt(n, piece)[i] = piece
                \/ i \in DOMAIN outFile /\ WrittenAt(n, piece)[i] = outFile[i]
                \/ WrittenAt(n, piece)[i].by = Nobody
<1> DEFINE m == IF n > Len(outFile) THEN n ELSE Len(outFile)
           hole == [by |-> Nobody, tag |-> "none"]
<1>1. Len(outFile) \in Nat /\ DOMAIN outFile = 1..Len(outFile) /\ m \in Nat
  BY DEF SshTypeOK
<1>2. \A i \in 1..Len(outFile) : outFile[i] \in Pieces
  BY <1>1 DEF SshTypeOK
<1>3. hole \in Pieces /\ hole.by = Nobody
  BY DEF Pieces, OutputTags
<1>4. WrittenAt(n, piece) = [i \in 1..m |-> IF i = n THEN piece
                               ELSE IF i <= Len(outFile) THEN outFile[i] ELSE hole]
  BY DEF WrittenAt
<1> HIDE DEF m, hole
<1>5. \A i \in 1..m : i <= Len(outFile) => i \in 1..Len(outFile)
  BY <1>1
<1>6. WrittenAt(n, piece) \in [1..m -> Pieces]
  BY <1>2, <1>3, <1>4, <1>5
<1>7. WrittenAt(n, piece) \in Seq(Pieces)
  BY <1>1, <1>6
<1>8. DOMAIN WrittenAt(n, piece) = 1..m
  BY <1>4
<1>9. ASSUME NEW i \in 1..m
      PROVE  \/ WrittenAt(n, piece)[i] = piece
             \/ i \in DOMAIN outFile /\ WrittenAt(n, piece)[i] = outFile[i]
             \/ WrittenAt(n, piece)[i].by = Nobody
  BY <1>1, <1>3, <1>4, <1>5
<1> QED
  BY <1>7, <1>8, <1>9 DEF m

SshRecords ==
    [pc : {"idle", "create", "run", "check", "nosession"},
     cmd : RemoteCmds \cup {NoCommand}, sent : Nat,
     file : {"none", "opened", "unread"}, read : Seq(Pieces),
     ok : BOOLEAN, runs : 0..MaxRuns]

(* Each session is such a record.                                          *)
LEMMA SessionTyped ==
    ASSUME SshTypeOK, NEW s \in Sessions
    PROVE  ssh[s] \in SshRecords
<1>1. ssh \in [Sessions -> SshRecords]
  BY DEF SshTypeOK, SshRecords
<1> QED
  BY <1>1

(* A step that changes one session keeps the types if that session does.   *)
LEMMA OneSessionTyped ==
    ASSUME SshTypeOK, NEW s \in Sessions,
           ssh' = [t \in Sessions |-> IF t = s THEN ssh'[s] ELSE ssh[t]],
           ssh'[s] \in SshRecords, ssh'[s].sent <= Len(ssh'[s].cmd.output),
           outFile' \in Seq(Pieces), near' \in [Sessions -> SUBSET Sessions]
    PROVE  SshTypeOK'
<1>1. ssh \in [Sessions -> SshRecords]
  BY DEF SshTypeOK, SshRecords
<1>2. \A t \in Sessions : ssh'[t] = IF t = s THEN ssh'[s] ELSE ssh[t]
  OBVIOUS
<1>3. ssh' \in [Sessions -> SshRecords]
  BY <1>1
<1>4. \A t \in Sessions : ssh'[t].sent <= Len(ssh'[t].cmd.output)
  BY <1>2 DEF SshTypeOK
<1> QED
  BY <1>3, <1>4 DEF SshTypeOK, SshRecords

LEMMA RunningIs == \A s : s \in Running <=> /\ s \in Sessions /\ ssh[s].pc \in {"run", "check"}
                                           /\ ssh[s].file = "opened"
BY DEF Running

LEMMA SshInitInv == SshInit => SshInv
<1> SUFFICES ASSUME SshInit PROVE SshInv
  OBVIOUS
<1>1. Running = {}
  BY DEF SshInit, Running
<1>2. <<>> \in Seq(Pieces) /\ <<>> \in Seq(OutputTags) /\ NoCommand.output = <<>> /\ Len(<<>>) = 0
  BY DEF NoCommand
<1>3. SshTypeOK
  <2>1. ssh \in [Sessions ->
                  [pc : {"idle", "create", "run", "check", "nosession"},
                   cmd : RemoteCmds \cup {NoCommand}, sent : Nat,
                   file : {"none", "opened", "unread"}, read : Seq(Pieces),
                   ok : BOOLEAN, runs : 0..MaxRuns]]
    BY <1>2, RunsAssumption DEF SshInit
  <2>2. \A s \in Sessions : ssh[s].sent = 0 /\ ssh[s].cmd = NoCommand
    BY DEF SshInit
  <2> QED
    BY <1>2, <2>1, <2>2 DEF SshInit, SshTypeOK
<1>4. \A s \in Sessions : ssh[s].pc = "idle" /\ ssh[s].runs = 0
  BY DEF SshInit
<1>5. ASSUME NEW s \in Sessions PROVE ~Judged(s)
  <2>1. ssh[s].runs = 0 /\ ~(0 > 0)
    BY <1>4
  <2>2. ~(ssh[s].runs > 0)
    BY <2>1, Zenon
  <2> QED
    BY <2>2 DEF Judged
<1> QED
  BY <1>1, <1>3, <1>4, <1>5 DEF SshInv, Met, OnlyNear, OwnWhenAlone, Fresh, NoStaleOutput,
     AloneJudgedRight

-----------------------------------------------------------------------------
(* What has arrived changes with what is sent, and not otherwise. *)
LEMMA ArrivedStays ==
    ASSUME NEW s \in Sessions, ssh'[s].sent = ssh[s].sent, ssh'[s].cmd = ssh[s].cmd
    PROVE  Arrived(s)' = Arrived(s)
BY DEF Arrived

(* A step of a session that is not judged after it leaves the verdicts of  *)
(* the others as they were.                                                *)
LEMMA OthersStay ==
    ASSUME NoStaleOutput, AloneJudgedRight, NEW s \in Sessions, ~Judged(s)',
           \A t \in Sessions : t # s => ssh'[t] = ssh[t],
           \A t \in Sessions : t # s /\ Judged(t) => near'[t] = near[t]
    PROVE  NoStaleOutput' /\ AloneJudgedRight'
<1>1. ASSUME NEW t \in Sessions, Judged(t)'
      PROVE  t # s /\ Judged(t) /\ ssh'[t] = ssh[t] /\ near'[t] = near[t]
  BY <1>1 DEF Judged
<1>2. NoStaleOutput'
  BY <1>1 DEF NoStaleOutput
<1>3. ASSUME NEW t \in Sessions, Judged(t)', near'[t] = {}
      PROVE  /\ ssh'[t].read = Arrived(t)'
             /\ ssh'[t].ok = checkOutput(Arrived(t)', ssh'[t].cmd)
  <2>1. ssh[t].read = Arrived(t) /\ ssh[t].ok = checkOutput(Arrived(t), ssh[t].cmd)
    BY <1>1, <1>3 DEF AloneJudgedRight
  <2>2. Arrived(t)' = Arrived(t)
    BY <1>1, <1>3, ArrivedStays
  <2> QED
    BY <1>1, <1>3, <2>1, <2>2
<1>4. AloneJudgedRight'
  BY <1>3 DEF AloneJudgedRight, checkOutput, Found
<1> QED
  BY <1>2, <1>4

(* A step that leaves the sessions that run, and what they find, alone.    *)
LEMMA RunningStay ==
    ASSUME Met, OnlyNear, OwnWhenAlone, UNCHANGED <<outFile, near>>,
           Running' \subseteq Running,
           \A t \in Running' : ssh'[t].sent = ssh[t].sent /\ ssh'[t].cmd = ssh[t].cmd
    PROVE  Met' /\ OnlyNear' /\ OwnWhenAlone'
<1>1. Met' /\ OnlyNear'
  BY DEF Met, OnlyNear
<1>2. \A t \in Running' : t \in Sessions
  BY DEF Running
<1>3. \A t \in Running' : Arrived(t)' = Arrived(t)
  BY <1>2, ArrivedStays
<1>4. OwnWhenAlone'
  BY <1>3 DEF OwnWhenAlone
<1> QED
  BY <1>1, <1>4

-----------------------------------------------------------------------------
(* Every action preserves the invariant. *)
LEMMA NewSessionInv ==
    ASSUME SshInv, NEW s \in Sessions, NEW c \in RemoteCmds, NewSession(s, c)
    PROVE  SshInv'
<1> USE DEF SshInv
<1>1. /\ UNCHANGED <<outFile, near>> /\ ssh[s].pc = "idle"
      /\ \A t \in Sessions : t # s => ssh'[t] = ssh[t]
      /\ ssh'[s] = [pc |-> "create", cmd |-> c, sent |-> 0, file |-> "none", read |-> <<>>,
                    ok |-> TRUE, runs |-> ssh[s].runs + 1]
  BY DEF NewSession, SshTypeOK
<1>2. SshTypeOK'
  <2>1. ssh[s].runs + 1 \in 0..MaxRuns
    BY RunsAssumption DEF NewSession, SshTypeOK
  <2>2. Len(c.output) \in Nat /\ <<>> \in Seq(Pieces)
    BY RunsAssumption
  <2>7. ssh' = [t \in Sessions |-> IF t = s THEN ssh'[s] ELSE ssh[t]]
    BY DEF NewSession, SshTypeOK
  <2>8. ssh'[s] \in SshRecords
    BY <1>1, <2>1, <2>2 DEF SshRecords
  <2>9. ssh'[s].sent <= Len(ssh'[s].cmd.output)
    BY <1>1, <2>2
  <2> QED
    BY <1>1, <2>7, <2>8, <2>9, OneSessionTyped DEF SshTypeOK
<1>3. Running' = Running /\ s \notin Running
  BY <1>1 DEF Running
<1>4. Met' /\ OnlyNear' /\ OwnWhenAlone'
  <2>1. \A t \in Running' : ssh'[t].sent = ssh[t].sent /\ ssh'[t].cmd = ssh[t].cmd
    BY <1>1, <1>3, RunningIs
  <2> QED
    BY <1>1, <1>3, <2>1, RunningStay
<1>5. Fresh'
  BY <1>1 DEF Fresh
<1>6. NoStaleOutput' /\ AloneJudgedRight'
  <2>1. ~Judged(s)'
    BY <1>1 DEF Judged
  <2> QED
    BY <1>1, <2>1, OthersStay
<1> QED
  BY <1>2, <1>4, <1>5, <1>6

LEMMA NoSessionInv ==
    ASSUME SshInv, NEW s \in Sessions, NoSession(s)
    PROVE  SshInv'
<1> USE DEF SshInv
<1>1. /\ UNCHANGED <<outFile, near>> /\ ssh[s].pc = "idle"
      /\ \A t \in Sessions : t # s => ssh'[t] = ssh[t]
      /\ ssh'[s].pc = "nosession" /\ ssh'[s].sent = ssh[s].sent /\ ssh'[s].cmd = ssh[s].cmd
  BY DEF NoSession, SshTypeOK
<1>2. SshTypeOK'
  <2>1. ssh[s].runs + 1 \in 0..MaxRuns
    BY RunsAssumption DEF NoSession, SshTypeOK
  <2>2. ssh'[s] = [ssh[s] EXCEPT !.ok = FALSE, !.pc = "nosession", !.runs = @ + 1]
    BY DEF NoSession, SshTypeOK
  <2>7. ssh' = [t \in Sessions |-> IF t = s THEN ssh'[s] ELSE ssh[t]]
    BY DEF NoSession, SshTypeOK
  <2>8. ssh'[s] \in SshRecords
    BY <2>1, <2>2 DEF SshTypeOK, SshRecords
  <2>9. ssh'[s].sent <= Len(ssh'[s].cmd.output)
    BY <1>1 DEF SshTypeOK
  <2> QED
    BY <1>1, <2>7, <2>8, <2>9, OneSessionTyped DEF SshTypeOK
<1>3. Running' = Running /\ s \notin Running
  BY <1>1 DEF Running
<1>4. Met' /\ OnlyNear' /\ OwnWhenAlone'
  <2>1. \A t \in Running' : ssh'[t].sent = ssh[t].sent /\ ssh'[t].cmd = ssh[t].cmd
    BY <1>1, <1>3, RunningIs
  <2> QED
    BY <1>1, <1>3, <2>1, RunningStay
<1>5. Fresh'
  BY <1>1 DEF Fresh
<1>6. NoStaleOutput' /\ AloneJudgedRight'
  <2>1. ~Judged(s)'
    BY <1>1 DEF Judged
  <2> QED
    BY <1>1, <2>1, OthersStay
<1> QED
  BY <1>2, <1>4, <1>5, <1>6

LEMMA CreateInv ==
    ASSUME SshInv, NEW s \in Sessions, Create(s)
    PROVE  SshInv'
<1> USE DEF SshInv
<1>1. /\ outFile' = <<>> /\ ssh[s].pc = "create" /\ ssh[s].sent = 0
      /\ \A t \in Sessions : t # s => ssh'[t] = ssh[t]
      /\ ssh'[s] = [ssh[s] EXCEPT !.pc = "run", !.file = "opened"]
      /\ ssh'[s].sent = 0 /\ ssh'[s].pc = "run" /\ ssh'[s].file = "opened"
  BY DEF Create, SshTypeOK, Fresh
<1>2. /\ near'[s] = Running
      /\ \A t \in Sessions : t # s => near'[t] = IF t \in Running THEN near[t] \cup {s} ELSE near[t]
  BY DEF Create, Meet
<1>3. SshTypeOK'
  <2>1. outFile' \in Seq(Pieces)
    BY <1>1
  <2>2. near' \in [Sessions -> SUBSET Sessions]
    BY DEF Create, Meet, Running, SshTypeOK
  <2>7. ssh' = [t \in Sessions |-> IF t = s THEN ssh'[s] ELSE ssh[t]]
    BY DEF Create, SshTypeOK
  <2>8. ssh'[s] \in SshRecords
    BY <1>1 DEF SshTypeOK, SshRecords
  <2>9. ssh'[s].sent <= Len(ssh'[s].cmd.output)
    BY <1>1 DEF SshTypeOK
  <2> QED
    BY <2>1, <2>2, <2>7, <2>8, <2>9, OneSessionTyped
<1>4. Running' = Running \cup {s} /\ s \notin Running
  BY <1>1 DEF Running
<1>5. Met'
  <2>1. ASSUME NEW t \in Running', NEW u \in Running', t # u PROVE u \in near'[t]
    <3>1. t \in Sessions /\ u \in Sessions
      BY <1>4, <2>1, RunningIs
    <3>2. CASE t = s
      BY <1>2, <1>4, <2>1, <3>2
    <3>3. CASE t # s
      BY <1>2, <1>4, <2>1, <3>1, <3>3 DEF Met
    <3> QED
      BY <3>2, <3>3
  <2> QED
    BY <2>1 DEF Met
<1>6. OnlyNear'
  BY <1>1 DEF OnlyNear
<1>7. OwnWhenAlone'
  <2>1. ASSUME NEW t \in Running', near'[t] = {} PROVE outFile' = Arrived(t)'
    <3>1. t \in Sessions /\ t = s
      BY <1>2, <1>4, <2>1, RunningIs
    <3>2. Arrived(s)' = <<>>
      <4>1. Arrived(s)' = [i \in 1..0 |-> [by |-> s, tag |-> ssh'[s].cmd.output[i]]]
        BY <1>1 DEF Arrived
      <4>2. 1..0 = {}
        OBVIOUS
      <4> QED
        BY <4>1, <4>2
    <3> QED
      BY <1>1, <3>1, <3>2
  <2> QED
    BY <2>1 DEF OwnWhenAlone
<1>8. Fresh'
  BY <1>1 DEF Fresh
<1>9. NoStaleOutput' /\ AloneJudgedRight'
  <2>1. ~Judged(s)'
    BY <1>1 DEF Judged
  <2>2. \A t \in Sessions : t # s /\ Judged(t) => near'[t] = near[t]
    BY <1>2 DEF Judged, Running
  <2> QED
    BY <1>1, <2>1, <2>2, OthersStay
<1> QED
  BY <1>3, <1>5, <1>6, <1>7, <1>8, <1>9

LEMMA CreateFailsInv ==
    ASSUME SshInv, NEW s \in Sessions, CreateFails(s)
    PROVE  SshInv'
<1> USE DEF SshInv
<1>1. /\ UNCHANGED <<outFile, near>> /\ ssh[s].pc = "create"
      /\ \A t \in Sessions : t # s => ssh'[t] = ssh[t]
      /\ ssh'[s].pc = "run" /\ ssh'[s].sent = ssh[s].sent /\ ssh'[s].cmd = ssh[s].cmd
      /\ ssh'[s].file = ssh[s].file
  BY DEF CreateFails, SshTypeOK
<1>2. SshTypeOK'
  <2>1. ssh'[s] = [ssh[s] EXCEPT !.pc = "run"]
    BY DEF CreateFails, SshTypeOK
  <2>7. ssh' = [t \in Sessions |-> IF t = s THEN ssh'[s] ELSE ssh[t]]
    BY DEF CreateFails, SshTypeOK
  <2>8. ssh'[s] \in SshRecords
    BY <2>1 DEF SshTypeOK, SshRecords
  <2>9. ssh'[s].sent <= Len(ssh'[s].cmd.output)
    BY <1>1 DEF SshTypeOK
  <2> QED
    BY <1>1, <2>7, <2>8, <2>9, OneSessionTyped DEF SshTypeOK
<1>3. ssh[s].file # "opened"
  BY <1>1 DEF Fresh
<1>4. Running' = Running /\ s \notin Running
  BY <1>1, <1>3 DEF Running
<1>5. Met' /\ OnlyNear' /\ OwnWhenAlone'
  <2>1. \A t \in Running' : ssh'[t].sent = ssh[t].sent /\ ssh'[t].cmd = ssh[t].cmd
    BY <1>1, <1>4, RunningIs
  <2> QED
    BY <1>1, <1>4, <2>1, RunningStay
<1>6. Fresh'
  BY <1>1 DEF Fresh
<1>7. NoStaleOutput' /\ AloneJudgedRight'
  <2>1. ~Judged(s)'
    BY <1>1 DEF Judged
  <2> QED
    BY <1>1, <2>1, OthersStay
<1> QED
  BY <1>2, <1>5, <1>6, <1>7

LEMMA WriteInv ==
    ASSUME SshInv, NEW s \in Sessions, Write(s)
    PROVE  SshInv'
<1> USE DEF SshInv
<1> DEFINE n == ssh[s].sent + 1
           piece == [by |-> s, tag |-> ssh[s].cmd.output[n]]
<1>1. /\ near' = near /\ s \in Running
      /\ ssh[s].pc = "run" /\ ssh[s].sent < Len(ssh[s].cmd.output)
      /\ outFile' = WrittenAt(n, piece)
      /\ \A t \in Sessions : t # s => ssh'[t] = ssh[t]
      /\ ssh'[s] = [ssh[s] EXCEPT !.sent = n]
  BY DEF Write, SshTypeOK
<1>2. n \in 1..Len(ssh[s].cmd.output) /\ n \in Nat \ {0} /\ ssh[s].sent \in Nat
  BY <1>1, OutputType DEF SshTypeOK
<1>3. piece \in Pieces
  BY <1>2, OutputType DEF Pieces
<1>4. /\ ssh'[s].sent = n /\ ssh'[s].pc = "run" /\ ssh'[s].cmd = ssh[s].cmd
      /\ ssh'[s].file = ssh[s].file
  BY <1>1 DEF SshTypeOK
<1> HIDE DEF n, piece
<1>5. /\ outFile' \in Seq(Pieces)
      /\ DOMAIN outFile' = 1..(IF n > Len(outFile) THEN n ELSE Len(outFile))
      /\ \A i \in DOMAIN outFile' :
           outFile'[i] = piece \/ (i \in DOMAIN outFile /\ outFile'[i] = outFile[i]) \/ outFile'[i].by = Nobody
  BY <1>1, <1>2, <1>3, WrittenAtType
<1>6. SshTypeOK'
  <2>7. ssh' = [t \in Sessions |-> IF t = s THEN ssh'[s] ELSE ssh[t]]
    BY DEF Write, SshTypeOK
  <2>8. ssh'[s] \in SshRecords
    <3>1. ssh[s] \in SshRecords
      BY SessionTyped
    <3> QED
      BY <1>1, <1>2, <3>1 DEF SshRecords
  <2>9. ssh'[s].sent <= Len(ssh'[s].cmd.output)
    <3>1. n <= Len(ssh[s].cmd.output)
      BY <1>2, OutputType
    <3> QED
      BY <1>4, <3>1
  <2> QED
    BY <1>1, <1>5, <2>7, <2>8, <2>9, OneSessionTyped DEF SshTypeOK
<1>7. Running' = Running /\ s \in Running
  BY <1>1, <1>4 DEF Running
<1>8. Met'
  BY <1>1, <1>7 DEF Met
<1>9. OnlyNear'
  <2>1. ASSUME NEW t \in Running', NEW i \in DOMAIN outFile'
        PROVE  outFile'[i].by \in {t, Nobody} \cup near'[t]
    <3>1. piece.by = s /\ s \in {t} \cup near[t]
      BY <1>7 DEF piece, Met
    <3>2. t \in Running /\ near' = near
      BY <1>1, <1>7
    <3>3. CASE outFile'[i] = piece
      BY <3>1, <3>2, <3>3
    <3>4. CASE i \in DOMAIN outFile /\ outFile'[i] = outFile[i]
      <4>1. outFile[i].by \in {t, Nobody} \cup near[t]
        BY <3>2, <3>4 DEF OnlyNear
      <4> QED
        BY <3>2, <3>4, <4>1
    <3> QED
      BY <1>5, <3>3, <3>4
  <2> QED
    BY <2>1 DEF OnlyNear
<1>10. OwnWhenAlone'
  <2>1. ASSUME NEW t \in Running', near'[t] = {} PROVE t = s
    BY <1>1, <1>7, <2>1 DEF Met
  <2>2. ASSUME near[s] = {} PROVE outFile' = Arrived(s)'
    <3>1. outFile = Arrived(s)
      BY <1>7, <2>2 DEF OwnWhenAlone
    <3>2. outFile = [i \in 1..ssh[s].sent |-> [by |-> s, tag |-> ssh[s].cmd.output[i]]]
      BY <3>1 DEF Arrived
    <3>3. Len(outFile) = ssh[s].sent
      BY <1>2, <3>2
    <3>4. outFile' = [i \in 1..n |-> IF i = n THEN piece
                        ELSE IF i <= Len(outFile) THEN outFile[i]
                        ELSE [by |-> Nobody, tag |-> "none"]]
      BY <1>1, <1>2, <3>3 DEF WrittenAt, n
    <3>5. Arrived(s)' = [i \in 1..n |-> [by |-> s, tag |-> ssh[s].cmd.output[i]]]
      BY <1>4 DEF Arrived
    <3>6. ASSUME NEW i \in 1..n PROVE outFile'[i] = [by |-> s, tag |-> ssh[s].cmd.output[i]]
      <4>1. CASE i = n
        BY <3>4, <4>1 DEF piece
      <4>2. CASE i # n
        <5>1. i \in 1..ssh[s].sent /\ i <= Len(outFile)
          BY <1>2, <3>3, <4>2 DEF n
        <5>2. outFile'[i] = outFile[i]
          BY <3>4, <4>2, <5>1
        <5> QED
          BY <3>2, <5>1, <5>2
      <4> QED
        BY <4>1, <4>2
    <3> QED
      BY <3>4, <3>5, <3>6
  <2> QED
    BY <1>1, <2>1, <2>2 DEF OwnWhenAlone
<1>11. Fresh'
  BY <1>1, <1>4 DEF Fresh
<1>12. NoStaleOutput' /\ AloneJudgedRight'
  <2>1. ~Judged(s)'
    BY <1>4 DEF Judged
  <2> QED
    BY <1>1, <2>1, OthersStay
<1> QED
  BY <1>6, <1>8, <1>9, <1>10, <1>11, <1>12

LEMMA RunReturnsInv ==
    ASSUME SshInv, NEW s \in Sessions, RunReturns(s)
    PROVE  SshInv'
<1> USE DEF SshInv
<1>1. /\ UNCHANGED <<outFile, near>> /\ ssh[s].pc = "run"
      /\ \A t \in Sessions : t # s => ssh'[t] = ssh[t]
      /\ ssh'[s].pc = "check" /\ ssh'[s].sent = ssh[s].sent /\ ssh'[s].cmd = ssh[s].cmd
      /\ ssh'[s].file = ssh[s].file
  BY DEF RunReturns, SshTypeOK
<1>2. SshTypeOK'
  <2>1. ssh'[s] = [ssh[s] EXCEPT !.pc = "check"]
    BY DEF RunReturns, SshTypeOK
  <2>7. ssh' = [t \in Sessions |-> IF t = s THEN ssh'[s] ELSE ssh[t]]
    BY DEF RunReturns, SshTypeOK
  <2>8. ssh'[s] \in SshRecords
    BY <2>1 DEF SshTypeOK, SshRecords
  <2>9. ssh'[s].sent <= Len(ssh'[s].cmd.output)
    BY <1>1 DEF SshTypeOK
  <2> QED
    BY <1>1, <2>7, <2>8, <2>9, OneSessionTyped DEF SshTypeOK
<1>3. Running' = Running
  BY <1>1 DEF Running
<1>4. Met' /\ OnlyNear' /\ OwnWhenAlone'
  <2>1. \A t \in Running' : ssh'[t].sent = ssh[t].sent /\ ssh'[t].cmd = ssh[t].cmd
    BY <1>1, <1>3, RunningIs
  <2> QED
    BY <1>1, <1>3, <2>1, RunningStay
<1>5. Fresh'
  BY <1>1 DEF Fresh
<1>6. NoStaleOutput' /\ AloneJudgedRight'
  <2>1. ~Judged(s)'
    BY <1>1 DEF Judged
  <2> QED
    BY <1>1, <2>1, OthersStay
<1> QED
  BY <1>2, <1>4, <1>5, <1>6

LEMMA CheckOutputInv ==
    ASSUME SshInv, NEW s \in Sessions, CheckOutput(s)
    PROVE  SshInv'
<1> USE DEF SshInv
<1>1. /\ UNCHANGED <<outFile, near>> /\ ssh[s].pc = "check"
      /\ \A t \in Sessions : t # s => ssh'[t] = ssh[t]
      /\ ssh'[s].pc = "idle" /\ ssh'[s].sent = ssh[s].sent /\ ssh'[s].cmd = ssh[s].cmd
      /\ ssh'[s].read = outFile /\ ssh'[s].ok = checkOutput(outFile, ssh[s].cmd)
      /\ ssh'[s].file = ssh[s].file
  BY DEF CheckOutput, SshTypeOK
<1>2. checkOutput(outFile, ssh[s].cmd) \in BOOLEAN
  BY DEF checkOutput
<1>3. SshTypeOK'
  <2>1. ssh'[s] = [ssh[s] EXCEPT !.pc = "idle", !.read = outFile,
                                 !.ok = checkOutput(outFile, ssh[s].cmd)]
    BY DEF CheckOutput, SshTypeOK
  <2>7. ssh' = [t \in Sessions |-> IF t = s THEN ssh'[s] ELSE ssh[t]]
    BY DEF CheckOutput, SshTypeOK
  <2>8. ssh'[s] \in SshRecords
    BY <1>2, <2>1 DEF SshTypeOK, SshRecords
  <2>9. ssh'[s].sent <= Len(ssh'[s].cmd.output)
    BY <1>1 DEF SshTypeOK
  <2> QED
    BY <1>1, <2>7, <2>8, <2>9, OneSessionTyped DEF SshTypeOK
<1>4. /\ Running' \subseteq Running /\ s \notin Running'
      /\ Judged(s)' => s \in Running
  BY <1>1 DEF Running, Judged
<1>5. Met' /\ OnlyNear' /\ OwnWhenAlone'
  <2>1. \A t \in Running' : ssh'[t].sent = ssh[t].sent /\ ssh'[t].cmd = ssh[t].cmd
    BY <1>1, <1>4, RunningIs
  <2> QED
    BY <1>1, <1>4, <2>1, RunningStay
<1>6. Fresh'
  BY <1>1 DEF Fresh
<1>7. NoStaleOutput'
  <2>1. ASSUME NEW t \in Sessions, Judged(t)', NEW i \in DOMAIN ssh'[t].read
        PROVE  ssh'[t].read[i].by \in {t, Nobody} \cup near'[t]
    <3>1. CASE t = s
      BY <1>1, <1>4, <2>1, <3>1 DEF OnlyNear
    <3>2. CASE t # s
      BY <1>1, <2>1, <3>2 DEF NoStaleOutput, Judged
    <3> QED
      BY <3>1, <3>2
  <2> QED
    BY <2>1 DEF NoStaleOutput
<1>8. AloneJudgedRight'
  <2>1. ASSUME NEW t \in Sessions, Judged(t)', near'[t] = {}
        PROVE  /\ ssh'[t].read = Arrived(t)'
               /\ ssh'[t].ok = checkOutput(Arrived(t)', ssh'[t].cmd)
    <3>0. Arrived(t)' = Arrived(t)
      BY <1>1, ArrivedStays
    <3>1. CASE t = s
      <4>1. outFile = Arrived(s)
        BY <1>1, <1>4, <2>1, <3>1 DEF OwnWhenAlone
      <4> QED
        BY <1>1, <3>0, <3>1, <4>1
    <3>2. CASE t # s
      <4>1. Judged(t) /\ near[t] = {}
        BY <1>1, <2>1, <3>2 DEF Judged
      <4> QED
        BY <1>1, <3>0, <3>2, <4>1 DEF AloneJudgedRight
    <3> QED
      BY <3>1, <3>2
  <2> QED
    BY <2>1 DEF AloneJudgedRight, checkOutput, Found
<1> QED
  BY <1>3, <1>5, <1>6, <1>7, <1>8

LEMMA ReadFailsInv ==
    ASSUME SshInv, NEW s \in Sessions, ReadFails(s)
    PROVE  SshInv'
<1> USE DEF SshInv
<1>1. /\ UNCHANGED <<outFile, near>> /\ ssh[s].pc = "check"
      /\ \A t \in Sessions : t # s => ssh'[t] = ssh[t]
      /\ ssh'[s].pc = "idle" /\ ssh'[s].sent = ssh[s].sent /\ ssh'[s].cmd = ssh[s].cmd
      /\ ssh'[s].file = "unread"
  BY DEF ReadFails, SshTypeOK
<1>2. checkOutput(<<>>, ssh[s].cmd) \in BOOLEAN
  BY DEF checkOutput
<1>3. SshTypeOK'
  <2>1. ssh'[s] = [ssh[s] EXCEPT !.pc = "idle", !.file = "unread", !.read = <<>>,
                                 !.ok = checkOutput(<<>>, ssh[s].cmd)]
    BY DEF ReadFails, SshTypeOK
  <2>7. ssh' = [t \in Sessions |-> IF t = s THEN ssh'[s] ELSE ssh[t]]
    BY DEF ReadFails, SshTypeOK
  <2>8. ssh'[s] \in SshRecords
    <3>1. <<>> \in Seq(Pieces)
      OBVIOUS
    <3>2. ssh[s] \in SshRecords
      BY SessionTyped
    <3> QED
      BY <1>2, <2>1, <3>1, <3>2 DEF SshRecords
  <2>9. ssh'[s].sent <= Len(ssh'[s].cmd.output)
    BY <1>1 DEF SshTypeOK
  <2> QED
    BY <1>1, <2>7, <2>8, <2>9, OneSessionTyped DEF SshTypeOK
<1>4. Running' \subseteq Running /\ s \notin Running'
  BY <1>1 DEF Running
<1>5. Met' /\ OnlyNear' /\ OwnWhenAlone'
  <2>1. \A t \in Running' : ssh'[t].sent = ssh[t].sent /\ ssh'[t].cmd = ssh[t].cmd
    BY <1>1, <1>4, RunningIs
  <2> QED
    BY <1>1, <1>4, <2>1, RunningStay
<1>6. Fresh'
  BY <1>1 DEF Fresh
<1>7. NoStaleOutput' /\ AloneJudgedRight'
  <2>1. ~Judged(s)'
    BY <1>1 DEF Judged
  <2> QED
    BY <1>1, <2>1, OthersStay
<1> QED
  BY <1>3, <1>5, <1>6, <1>7

LEMMA SshStutterInv == SshInv /\ UNCHANGED sshVars => SshInv'
<1> SUFFICES ASSUME SshInv, UNCHANGED sshVars PROVE SshInv'
  OBVIOUS
<1>1. SshTypeOK' /\ Running' = Running
  BY DEF SshInv, SshTypeOK, sshVars, Running
<1>2. Met' /\ OnlyNear' /\ Fresh' /\ NoStaleOutput'
  BY <1>1 DEF SshInv, Met, OnlyNear, Fresh, NoStaleOutput, Judged, sshVars
<1>3. \A t \in Sessions : Arrived(t)' = Arrived(t)
  BY DEF Arrived, sshVars
<1>4. OwnWhenAlone'
  BY <1>1, <1>3, RunningIs DEF SshInv, OwnWhenAlone, sshVars
<1>5. AloneJudgedRight'
  <2>1. ASSUME NEW t \in Sessions, Judged(t)', near'[t] = {}
        PROVE  /\ ssh'[t].read = Arrived(t)'
               /\ ssh'[t].ok = checkOutput(Arrived(t)', ssh'[t].cmd)
    BY <1>3, <2>1 DEF SshInv, AloneJudgedRight, Judged, sshVars
  <2> QED
    BY <2>1 DEF AloneJudgedRight, checkOutput, Found
<1> QED
  BY <1>1, <1>2, <1>4, <1>5 DEF SshInv

LEMMA SshStepInv == SshInv /\ [SshNext]_sshVars => SshInv'
BY NewSessionInv, NoSessionInv, CreateInv, CreateFailsInv, WriteInv, RunReturnsInv,
   CheckOutputInv, ReadFailsInv, SshStutterInv DEF SshNext

-----------------------------------------------------------------------------
(* The variables keep their types; a position is never past the output of  *)
(* the command it belongs to.                                              *)
THEOREM SshTypeCorrect == SshSpec => []SshTypeOK
BY SshInitInv, SshStepInv, PTL DEF SshSpec, SshInv

(* The output a command is judged by holds nothing of a command that had   *)
(* ended before it began, on however many hosts, if its own os.Create has  *)
(* worked (ClientRunCMD drops the error): whoever else's has not.          *)
THEOREM NoOutputIsStale == SshSpec => []NoStaleOutput
BY SshInitInv, SshStepInv, PTL DEF SshSpec, SshInv

(* A command that has opened and read the file, and beside which none has  *)
(* run that wrote to it, is judged by its own output.                      *)
THEOREM AloneIsJudgedRight == SshSpec => []AloneJudgedRight
BY SshInitInv, SshStepInv, PTL DEF SshSpec, SshInv
=============================================================================
