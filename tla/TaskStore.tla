----------------------------- MODULE TaskStore -----------------------------
(***************************************************************************)
(* What the task registry of kubeinstall promises to its clients, without  *)
(* its locks, its files or its request handlers: tickets are issued once   *)
(* per run of the server, every recorded outcome is kept under its ticket  *)
(* until a client deletes it, and a restart brings back either everything  *)
(* or nothing: never a stale copy and never a part of the tasks.           *)
(***************************************************************************)
CONSTANTS
    IDs,       \* the session ids the server can issue
    Writers,   \* who may write into a task context
    States     \* the values of Context.State

VARIABLES
    issued,    \* ids issued since the server started
    store      \* id |-> [state, by]: the contexts a query returns

vars == <<issued, store>>

Entries == [state : States, by : SUBSET Writers]

Init == /\ issued = {}
        /\ store = [i \in {} |-> {}]

(* A request obtains a ticket nobody else obtained since the start. *)
Issue == \E i \in IDs \ issued : /\ issued' = issued \cup {i}
                                 /\ UNCHANGED store

(* The task that holds ticket i reports a state and some output. *)
Record == \E i \in issued, w \in Writers, st \in States :
            /\ store' = [j \in DOMAIN store \cup {i} |->
                 IF j # i THEN store[j]
                 ELSE [state |-> st,
                       by |-> {w} \cup (IF i \in DOMAIN store
                                        THEN store[i].by ELSE {})]]
            /\ UNCHANGED issued

(* A client deletes some of the contexts. *)
Forget == \E gone \in SUBSET DOMAIN store :
            /\ store' = [j \in DOMAIN store \ gone |-> store[j]]
            /\ UNCHANGED issued

(* A crash and a restart: all of the contexts survive, or none. *)
Restart == /\ issued' = {}
           /\ store' \in {store, [i \in {} |-> {}]}

Next == Issue \/ Record \/ Forget \/ Restart

Spec == Init /\ [][Next]_vars
=============================================================================
