---------------------------- MODULE MCReleaseGate ----------------------------
(* Instances of ReleaseGate for TLC.                                       *)
EXTENDS ReleaseGate

CONSTANTS n1, n2, s1, s2

MCRuns == {n1, n2}
MCSheds == {s1, s2}

(* Bound: two runs meet one release, or a run meets two releases that      *)
(* overlap and a cache that holds what an earlier run has left.  A run and *)
(* a release that have not begun are not bound to, so fairness asks for    *)
(* none of the steps that the bound excludes.                              *)
Calm ==
    /\ pc[n1] = "idle" /\ pc[n2] = "ended" /\ shed[s1] = "idle" /\ cached # {}
    /\ exec[n2] = "over" /\ hold[n2] = None /\ toChild = <<>> /\ toParent = <<>>
Bounds == shed[s2] = "idle" /\ shed'[s2] # "idle" => Calm

BoundedSpec == Init /\ [][Next /\ Bounds]_vars /\ WF_vars(Progress)
=============================================================================
