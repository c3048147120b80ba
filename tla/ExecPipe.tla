------------------------------ MODULE ExecPipe ------------------------------
(***************************************************************************)
(* ExecInfo.Exec: how the server, for images and yaml files, and the       *)
(* worker, for every command it is sent, run a shell command. The command  *)
(* writes to two pipes of a fixed size; Exec reads the first to its end,   *)
(* then the second, waits for the process and looks for the tags of the    *)
(* command in what it has read.                                           *)
(***************************************************************************)
EXTENDS Naturals, Sequences, FiniteSets

CONSTANTS
    Commands,   \* what commands write: sequences of [to, tag]
    PipeSize    \* how many pieces of output a pipe holds

PieceTags == {"none", "success", "error"}

ASSUME PipeAssumption ==
    /\ PipeSize \in Nat \ {0}
    /\ Commands \subseteq Seq([to : {"out", "err"}, tag : PieceTags])

VARIABLES
    cmd,        \* what the command writes
    wants,      \* the command has a success tag
    child,      \* the process: "none", "runs" or "exited", and how much it wrote
    out, err,   \* what is in the pipes
    exec,       \* where Exec is, what it has read, and its verdict
    stdOutput, errOutput

execVars == <<cmd, wants, child, out, err, exec, stdOutput, errOutput>>

ExecInit ==
    /\ cmd = <<>> /\ wants = FALSE
    /\ child = [pc |-> "none", at |-> 0]
    /\ out = <<>> /\ err = <<>>
    /\ exec = [pc |-> "idle", ok |-> FALSE]
    /\ stdOutput = <<>> /\ errOutput = <<>>

(* c.Start: there may be no process to be had. *)
StartFails ==
    /\ exec.pc = "idle"
    /\ exec' = [pc |-> "failed", ok |-> FALSE]
    /\ UNCHANGED <<cmd, wants, child, out, err, stdOutput, errOutput>>

StartCommand(c, w) ==
    /\ exec.pc = "idle"
    /\ cmd' = c /\ wants' = w
    /\ child' = [pc |-> "runs", at |-> 0]
    /\ exec' = [exec EXCEPT !.pc = "stdout"]
    /\ UNCHANGED <<out, err, stdOutput, errOutput>>

-----------------------------------------------------------------------------
(* The command. A write to a full pipe blocks. *)
Piece == cmd[child.at + 1]
Writing == child.pc = "runs" /\ child.at < Len(cmd)

ChildWrites ==
    /\ Writing
    /\ \/ /\ Piece.to = "out" /\ Len(out) < PipeSize
          /\ out' = Append(out, Piece.tag)
          /\ UNCHANGED err
       \/ /\ Piece.to = "err" /\ Len(err) < PipeSize
          /\ err' = Append(err, Piece.tag)
          /\ UNCHANGED out
    /\ child' = [child EXCEPT !.at = @ + 1]
    /\ UNCHANGED <<cmd, wants, exec, stdOutput, errOutput>>

ChildExits ==
    /\ child.pc = "runs" /\ child.at = Len(cmd)
    /\ child' = [child EXCEPT !.pc = "exited"]
    /\ UNCHANGED <<cmd, wants, out, err, exec, stdOutput, errOutput>>

-----------------------------------------------------------------------------
(* Exec. *)
Open == child.pc = "runs"

(* Faulty: the output is read after c.Wait. *)
ReadOutAfterWait ==
    /\ exec.pc = "stdout" /\ child.pc = "exited"
    /\ \/ /\ out # <<>>
          /\ stdOutput' = Append(stdOutput, Head(out)) /\ out' = Tail(out)
          /\ UNCHANGED exec
       \/ /\ out = <<>>
          /\ exec' = [exec EXCEPT !.pc = "stderr"]
          /\ UNCHANGED <<stdOutput, out>>
    /\ UNCHANGED <<cmd, wants, child, err, errOutput>>

(* ioutil.ReadAll(stdoutReader) *)
ReadOut ==
    /\ exec.pc = "stdout"
    /\ \/ /\ out # <<>>
          /\ stdOutput' = Append(stdOutput, Head(out)) /\ out' = Tail(out)
          /\ UNCHANGED exec
       \/ /\ out = <<>> /\ ~Open
          /\ exec' = [exec EXCEPT !.pc = "stderr"]
          /\ UNCHANGED <<stdOutput, out>>
    /\ UNCHANGED <<cmd, wants, child, err, errOutput>>

(* Faulty: what is there is all there is. *)
ReadErrOnce ==
    /\ exec.pc = "stderr"
    /\ errOutput' = IF err = <<>> THEN <<>> ELSE <<Head(err)>>
    /\ err' = <<>>
    /\ exec' = [exec EXCEPT !.pc = "wait"]
    /\ UNCHANGED <<cmd, wants, child, out, stdOutput>>

(* ioutil.ReadAll(stderrReader) *)
ReadErr ==
    /\ exec.pc = "stderr"
    /\ \/ /\ err # <<>>
          /\ errOutput' = Append(errOutput, Head(err)) /\ err' = Tail(err)
          /\ UNCHANGED exec
       \/ /\ err = <<>> /\ ~Open
          /\ exec' = [exec EXCEPT !.pc = "wait"]
          /\ UNCHANGED <<errOutput, err>>
    /\ UNCHANGED <<cmd, wants, child, out, stdOutput>>

Has(output, tag) == \E i \in DOMAIN output : output[i] = tag

(* checkOutputContent: no error tag, and the success tag if there is one.  *)
checkOutputContent(output) ==
    ~Has(output, "error") /\ (wants => Has(output, "success"))

(* c.Wait, and the verdict on standard output followed by error output.    *)
Finish ==
    /\ exec.pc = "wait" /\ child.pc = "exited"
    /\ exec' = [pc |-> "returned", ok |-> checkOutputContent(stdOutput \o errOutput)]
    /\ UNCHANGED <<cmd, wants, child, out, err, stdOutput, errOutput>>

ExecNext ==
    \/ StartFails
    \/ \E c \in Commands, w \in BOOLEAN : StartCommand(c, w)
    \/ ChildWrites \/ ChildExits
    \/ ReadOut \/ ReadErr \/ Finish

ExecSpec == ExecInit /\ [][ExecNext]_execVars

(* The process runs on unless it is blocked, and so does its reader.       *)
ExecFairness ==
    /\ WF_execVars(ChildWrites \/ ChildExits)
    /\ WF_execVars(ReadOut \/ ReadErr \/ Finish)

-----------------------------------------------------------------------------
(* The types of the variables, and the capacity of the pipes. *)
ExecTypeOK ==
    /\ cmd \in Commands \cup {<<>>} /\ wants \in BOOLEAN
    /\ child \in [pc : {"none", "runs", "exited"}, at : 0..Len(cmd)]
    /\ exec \in [pc : {"idle", "failed", "stdout", "stderr", "wait", "returned"}, ok : BOOLEAN]
    /\ out \in Seq(PieceTags) /\ err \in Seq(PieceTags)
    /\ stdOutput \in Seq(PieceTags) /\ errOutput \in Seq(PieceTags)
    /\ Len(out) <= PipeSize /\ Len(err) <= PipeSize

(* The verdict is on all that the command wrote, on both pipes, although   *)
(* the second is read only when the first has ended.                       *)
VerdictOnWholeOutput ==
    exec.pc = "returned" =>
        exec.ok = (/\ \A i \in DOMAIN cmd : cmd[i].tag # "error"
                   /\ wants => \E i \in DOMAIN cmd : cmd[i].tag = "success")

(* Exec waits for ever in one case only: the command blocks on its error   *)
(* output, of which it writes more than a pipe holds before it has closed  *)
(* its standard output.                                                    *)
PipeOf(to) == IF to = "out" THEN out ELSE err
Blocked == Writing /\ Len(PipeOf(Piece.to)) = PipeSize

ExecCanMove ==
    \/ Open /\ ~Blocked
    \/ exec.pc = "stdout" /\ (out # <<>> \/ ~Open)
    \/ exec.pc = "stderr" /\ (err # <<>> \/ ~Open)
    \/ exec.pc = "wait" /\ child.pc = "exited"

StuckOnlyOnFullPipe ==
    exec.pc \in {"stdout", "stderr", "wait"} /\ ~ExecCanMove
        => exec.pc = "stdout" /\ Blocked /\ Piece.to = "err"

(* A command whose error output fits a pipe is answered, however much it   *)
(* writes to its standard output.                                          *)
SmallErrors == Cardinality({i \in DOMAIN cmd : cmd[i].to = "err"}) <= PipeSize
ExecReturns == (exec.pc = "stdout" /\ SmallErrors) ~> (exec.pc = "returned")
=============================================================================
