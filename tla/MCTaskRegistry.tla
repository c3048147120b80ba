--------------------------- MODULE MCTaskRegistry ---------------------------
(* Instances of TaskRegistry for TLC: two or three requests, two steps (one *)
(* of them, like stepXKill, missing from the initial map).                  *)
EXTENDS TaskRegistry, FiniteSets, TLC

CONSTANTS r1, r2, r3

MCRequests2 == {r1, r2}
MCRequests3 == {r1, r2, r3}
MCSteps == {"step3", "stepXKill"}
MCInitSteps == {"step3"}
MCOneStep == {"step3"}
MCQueryIDs == {0}
MCQueryIDsAll == {-1, 0, 1}
MCIDs2 == 0..1
MCIDs3 == 0..2
MCStates == {"running", "error"}
MCOneState == {"running"}

Symmetry3 == Permutations(MCRequests3)
=============================================================================
