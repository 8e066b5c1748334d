------------------------------ MODULE MCImpact ------------------------------
(***************************************************************************)
(* Two tests over two implementation sources and two resources.  t1        *)
(* executes A and then B, t2 executes B only.                              *)
(*   A: 1 makes t1 fail; 2 changes A's surface, which makes t2 fail        *)
(*   B: 1 makes t1 fail; 2 is as good as 0                                 *)
(*   R: absent at first, 1 makes t2 fail                                   *)
(*   N: a resource of a nested module, 1 makes t2 fail                     *)
(***************************************************************************)
EXTENDS Impact

CONSTANTS t1, t2,
    StopAtFailure   \* whether a test stops executing where it fails

MCTests == {t1, t2}
MCIncluded == {"A", "B", "R"}
MCFiles == MCIncluded \cup {"N"}
MCSources == {"A", "B"}
MCContents == [f \in MCFiles |->
    IF f \in MCSources THEN {0, 1, 2} ELSE {Absent, 1}]
MCSurface(f, c) == IF f = "A" /\ c = 2 THEN 1 ELSE 0
MCInitialTree == [f \in MCFiles |-> IF f \in MCSources THEN 0 ELSE Absent]
MCSilent == {t2}
MCCommits == {MCInitialTree}

MCPasses(t, R) ==
    IF t = t1 THEN R["A"] # 1 /\ R["B"] # 1 ELSE R["A"] # 2 /\ R["R"] # 1 /\ R["N"] # 1

\* A failing t1 that stops in A does not get to B.
MCExecutes(t, R) ==
    IF t = t2 \/ (StopAtFailure /\ R["A"] = 1)
    THEN IF t = t1 THEN {"A"} ELSE {"B"}
    ELSE {"A", "B"}
=============================================================================
