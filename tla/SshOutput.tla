------------------------------ MODULE SshOutput ------------------------------
(***************************************************************************)
(* kubessh.ClientRunCMD and the second half of ExecSendFileCMD: a command  *)
(* runs in an SSH session, with its output directed into the one file      *)
(* /tmp/sshcmd.output on the server, which is then read back and searched  *)
(* for the tags of the command. The goroutines of all hosts do this at the *)
(* same time, each with its own open file and its own position in it. The  *)
(* errors of opening and of reading it are dropped.                        *)
(***************************************************************************)
EXTENDS Naturals, Sequences

CONSTANTS
    Sessions,   \* the goroutines that run commands
    RemoteCmds, \* the commands: what they write, the tags they are judged by
    MaxRuns,    \* bound: the commands a goroutine runs
    Nobody      \* who wrote the zero bytes of a hole

OutputTags == {"none", "success", "error"}
Pieces == [by : Sessions \cup {Nobody}, tag : OutputTags]

ASSUME RunsAssumption ==
    /\ MaxRuns \in Nat
    /\ RemoteCmds \subseteq
         [output : Seq(OutputTags), errorTag : BOOLEAN, successTag : BOOLEAN]

VARIABLES
    outFile,    \* /tmp/sshcmd.output: pieces of output, and whose they are
    ssh,        \* each goroutine: where it is, its command, position, file and output
    near        \* history: the sessions that ran while this one ran its command

sshVars == <<outFile, ssh, near>>

NoCommand == [output |-> <<>>, errorTag |-> FALSE, successTag |-> FALSE]

SshInit ==
    /\ outFile = <<>>
    /\ ssh = [s \in Sessions |-> [pc |-> "idle", cmd |-> NoCommand, sent |-> 0,
                                  file |-> "none", read |-> <<>>, ok |-> TRUE, runs |-> 0]]
    /\ near = [s \in Sessions |-> {}]

(* The sessions that run and write to the file.                            *)
Running == {s \in Sessions : ssh[s].pc \in {"run", "check"} /\ ssh[s].file = "opened"}

(* A command is sent; remoteExecCMD sends none after one that has failed.  *)
NewSession(s, c) ==
    /\ ssh[s].pc = "idle" /\ ssh[s].ok /\ ssh[s].runs < MaxRuns
    /\ ssh' = [ssh EXCEPT ![s] = [pc |-> "create", cmd |-> c, sent |-> 0,
                                  file |-> "none", read |-> <<>>, ok |-> TRUE, runs |-> @.runs + 1]]
    /\ UNCHANGED <<outFile, near>>

(* client.NewSession fails: an error without a look at any output.         *)
NoSession(s) ==
    /\ ssh[s].pc = "idle" /\ ssh[s].ok /\ ssh[s].runs < MaxRuns
    /\ ssh' = [ssh EXCEPT ![s].ok = FALSE, ![s].pc = "nosession", ![s].runs = @ + 1]
    /\ UNCHANGED <<outFile, near>>

(* Now this session runs beside those that already do. *)
Meet(s) ==
    near' = [t \in Sessions |-> IF t = s THEN Running
                                ELSE IF t \in Running THEN near[t] \cup {s} ELSE near[t]]

(* Faulty: opened without truncation. *)
CreateKeeps(s) ==
    /\ ssh[s].pc = "create"
    /\ ssh' = [ssh EXCEPT ![s].pc = "run", ![s].file = "opened"]
    /\ Meet(s)
    /\ UNCHANGED outFile

(* os.Create truncates the file, whoever else has it open. *)
Create(s) ==
    /\ ssh[s].pc = "create"
    /\ outFile' = <<>>
    /\ ssh' = [ssh EXCEPT ![s].pc = "run", ![s].file = "opened"]
    /\ Meet(s)

(* os.Create fails: the file stays what it is and the output of the        *)
(* command goes nowhere, but the command is run, and the file read.        *)
CreateFails(s) ==
    /\ ssh[s].pc = "create"
    /\ ssh' = [ssh EXCEPT ![s].pc = "run"]
    /\ UNCHANGED <<outFile, near>>

(* A piece written at a position, with a hole before it if need be. *)
WrittenAt(n, piece) ==
    [i \in 1..(IF n > Len(outFile) THEN n ELSE Len(outFile)) |->
        IF i = n THEN piece
        ELSE IF i <= Len(outFile) THEN outFile[i]
        ELSE [by |-> Nobody, tag |-> "none"]]

(* Faulty: each piece is written at the start of the file. *)
WriteAtStart(s) ==
    /\ s \in Running /\ ssh[s].pc = "run" /\ ssh[s].sent < Len(ssh[s].cmd.output)
    /\ LET n == ssh[s].sent + 1
       IN  outFile' = WrittenAt(1, [by |-> s, tag |-> ssh[s].cmd.output[n]])
    /\ ssh' = [ssh EXCEPT ![s].sent = @ + 1]
    /\ UNCHANGED near

(* The next piece of the command's output arrives. *)
Write(s) ==
    /\ s \in Running /\ ssh[s].pc = "run" /\ ssh[s].sent < Len(ssh[s].cmd.output)
    /\ LET n == ssh[s].sent + 1
       IN  outFile' = WrittenAt(n, [by |-> s, tag |-> ssh[s].cmd.output[n]])
    /\ ssh' = [ssh EXCEPT ![s].sent = @ + 1]
    /\ UNCHANGED near

(* session.Run returns, when the command has ended or when the connection  *)
(* is lost: its error is not looked at.                                    *)
RunReturns(s) ==
    /\ ssh[s].pc = "run"
    /\ ssh' = [ssh EXCEPT ![s].pc = "check"]
    /\ UNCHANGED <<outFile, near>>

Found(output, tag) == \E i \in DOMAIN output : output[i].tag = tag

checkOutput(output, c) ==
    /\ c.errorTag => ~Found(output, "error")
    /\ c.successTag => Found(output, "success")

(* ioutil.ReadFile, and the verdict. *)
CheckOutput(s) ==
    /\ ssh[s].pc = "check"
    /\ ssh' = [ssh EXCEPT ![s].pc = "idle", ![s].read = outFile,
                          ![s].ok = checkOutput(outFile, ssh[s].cmd)]
    /\ UNCHANGED <<outFile, near>>

(* ioutil.ReadFile fails, and the verdict is on no output at all.          *)
ReadFails(s) ==
    /\ ssh[s].pc = "check"
    /\ ssh' = [ssh EXCEPT ![s].pc = "idle", ![s].file = "unread", ![s].read = <<>>,
                          ![s].ok = checkOutput(<<>>, ssh[s].cmd)]
    /\ UNCHANGED <<outFile, near>>

SshNext ==
    \E s \in Sessions :
        \/ \E c \in RemoteCmds : NewSession(s, c)
        \/ NoSession(s) \/ Create(s) \/ CreateFails(s) \/ Write(s)
        \/ RunReturns(s) \/ CheckOutput(s) \/ ReadFails(s)

SshSpec == SshInit /\ [][SshNext]_sshVars

-----------------------------------------------------------------------------
(* Judged by a file that it has opened, and read, itself. *)
Judged(s) == ssh[s].pc = "idle" /\ ssh[s].runs > 0 /\ ssh[s].file = "opened"

(* The types of the variables. *)
SshTypeOK ==
    /\ outFile \in Seq(Pieces)
    /\ ssh \in [Sessions ->
                  [pc : {"idle", "create", "run", "check", "nosession"},
                   cmd : RemoteCmds \cup {NoCommand}, sent : Nat,
                   file : {"none", "opened", "unread"}, read : Seq(Pieces),
                   ok : BOOLEAN, runs : 0..MaxRuns]]
    /\ \A s \in Sessions : ssh[s].sent <= Len(ssh[s].cmd.output)
    /\ near \in [Sessions -> SUBSET Sessions]

(* What a session reads was written by itself or by a command that ran at  *)
(* the same time: never by one that had ended before, on any host. Only a  *)
(* session whose own os.Create has failed is judged by what was left       *)
(* there; the failures of others, before it or beside it, do it no harm.   *)
NoStaleOutput ==
    \A s \in Sessions : Judged(s) =>
        \A i \in DOMAIN ssh[s].read : ssh[s].read[i].by \in {s, Nobody} \cup near[s]

(* A command that ran alone is judged by all of its own output that has    *)
(* arrived and nothing else, unless it could not open or read the file     *)
(* itself: another host's tags decide only where sessions overlap, and     *)
(* not where one beside it could not open the file.                        *)
Arrived(s) == [i \in 1..ssh[s].sent |-> [by |-> s, tag |-> ssh[s].cmd.output[i]]]

AloneJudgedRight ==
    \A s \in Sessions : Judged(s) /\ near[s] = {} =>
        ssh[s].read = Arrived(s) /\ ssh[s].ok = checkOutput(Arrived(s), ssh[s].cmd)
=============================================================================
