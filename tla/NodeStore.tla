----------------------------- MODULE NodeStore ------------------------------
(***************************************************************************)
(* What the node progress table promises to those who start tasks one      *)
(* after the other: without inner maps, handlers or a mutex, every request *)
(* does all it does at once. A POST opens the entry of its step, a PUT     *)
(* adds to the entry of the step opened last if the host shows any, and a  *)
(* DELETE takes the entry it is asked to clean away, nothing else, and has *)
(* done so when it answers.                                                *)
(***************************************************************************)
CONSTANTS
    Jobs,      \* the tasks
    Hosts,     \* the hosts; <<j, h>> is the worker of a task on a host
    Steps,     \* the step names
    States,    \* the states a worker may report
    NoState    \* the empty State of an update

VARIABLES
    shown,     \* host -> step |-> [state, by]: what a query returns
    last,      \* the step opened last
    asked      \* the host and step of each DELETE that is not answered yet

vars == <<shown, last, asked>>

Nothing == [s \in {} |-> {}]

Init == /\ shown = [h \in Hosts |-> Nothing]
        /\ last = ""
        /\ asked = {}

With(f, s, c) == [t \in DOMAIN f \cup {s} |-> IF t = s THEN c ELSE f[t]]
Without(f, s) == [t \in DOMAIN f \ {s} |-> f[t]]

(* A worker opens an entry, which has its own output only. *)
Open(j, h, s) ==
    /\ last' = s /\ UNCHANGED asked
    /\ shown' = [shown EXCEPT ![h] = With(@, s, [state |-> "running", by |-> {<<j, h>>}])]

(* A worker reports some output, with a state or without.                  *)
Before(h) == IF last \in DOMAIN shown[h] THEN shown[h][last]
             ELSE [state |-> NoState, by |-> {}]

Update(j, h, st) ==
    /\ DOMAIN shown[h] # {}
    /\ shown' = [shown EXCEPT ![h] =
                    With(@, last, [state |-> IF st = NoState THEN Before(h).state ELSE st,
                                   by |-> Before(h).by \cup {<<j, h>>}])]
    /\ UNCHANGED <<last, asked>>

(* One entry of one host is asked to be cleaned, is, and is gone when the  *)
(* answer comes.                                                           *)
Ask(h, s) ==
    /\ asked' = asked \cup {<<h, s>>}
    /\ UNCHANGED <<shown, last>>

Clean(h, s) ==
    /\ <<h, s>> \in asked /\ s \in DOMAIN shown[h]
    /\ shown' = [shown EXCEPT ![h] = Without(@, s)]
    /\ UNCHANGED <<last, asked>>

Answer(h, s) ==
    /\ <<h, s>> \in asked /\ s \notin DOMAIN shown[h]
    /\ asked' = asked \ {<<h, s>>}
    /\ UNCHANGED <<shown, last>>

Next ==
    \E h \in Hosts :
        \/ \E s \in Steps : \/ Ask(h, s) \/ Clean(h, s) \/ Answer(h, s)
                             \/ \E j \in Jobs : Open(j, h, s)
        \/ \E j \in Jobs, st \in States \cup {NoState} : Update(j, h, st)

Spec == Init /\ [][Next]_vars
=============================================================================
