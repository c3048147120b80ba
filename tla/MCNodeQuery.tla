---------------------------- MODULE MCNodeQuery -----------------------------
(* Instances of NodeQuery for TLC. *)
EXTENDS NodeQuery, TLC

CONSTANTS j1, j2, j3, h1, h2, m1, m2, m3, m4, m5, m6

MCJobs2 == {j1, j2}
MCJobs3 == {j1, j2, j3}
MCHosts1 == {h1}
MCHosts2 == {h1, h2}
MCSteps == {"step3", "step7"}
MCRefs == {m1, m2, m3, m4, m5, m6}

(* Create requests that clean and open what they work on, one that works   *)
(* on another host than it cleans, one that opens an entry on a single     *)
(* host, and a removal.                                                    *)
Ask(s, C, H, P) == [step |-> s, clean |-> C, work |-> H, post |-> P]
Removal(H) == Ask("step7", {}, H, {})
MCRequests1 == {Ask(s, {h1}, {h1}, {h1}) : s \in MCSteps} \cup {Removal({h1})}
MCRequests2 ==
    {Ask("step3", MCHosts2, MCHosts2, MCHosts2), Ask("step3", {h2}, {h1}, {h1}),
     Ask("step7", MCHosts2, MCHosts2, {h1}), Removal(MCHosts2)}
MCRequestsLive ==
    {Ask(s, MCHosts2, MCHosts2, MCHosts2) : s \in MCSteps} \cup {Removal({h1})}

Symmetry3 == Permutations(MCJobs3)
=============================================================================
