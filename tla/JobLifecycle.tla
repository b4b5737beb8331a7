---------------------------- MODULE JobLifecycle ----------------------------
(***************************************************************************)
(* What the server promises about the durable record of an accepted run,   *)
(* as a reader of the history database sees it: a run is recorded before   *)
(* it is acknowledged, is never forgotten unless its history row is        *)
(* deleted on request, gets one verdict that is never rewritten, and is    *)
(* called "interrupted" only by a restart, which settles every run the     *)
(* dead process left open and re-executes none of them.                    *)
(* JobQueue implements this specification.                                 *)
(***************************************************************************)

CONSTANT Runs  \* the run ids the server may hand out

VARIABLE record  \* record[r]: what the database says about run r

Open == {"queued", "running"}
Verdicts == {"completed", "failed", "cancelled"}
Settled == Verdicts \cup {"interrupted"}
Records == {"none", "erased"} \cup Open \cup Settled

Init == record = [r \in Runs |-> "none"]

(* job_accepted: the run enters the database, before the client hears.     *)
Accept(r) ==
    /\ record[r] = "none"
    /\ record' = [record EXCEPT ![r] = "queued"]

(* job_started, for the jobs of one dispatch.                              *)
Start(S) ==
    /\ \A r \in S : record[r] = "queued"
    /\ record' = [r \in Runs |-> IF r \in S THEN "running" ELSE record[r]]

(* job_terminal: some open runs get the same verdict.                      *)
Settle(S, v) ==
    /\ \A r \in S : record[r] \in Open
    /\ record' = [r \in Runs |-> IF r \in S THEN v ELSE record[r]]

(* recover_interrupted: every open run at once, and nothing else.          *)
Sweep ==
    record' = [r \in Runs |->
                  IF record[r] \in Open THEN "interrupted" ELSE record[r]]

(* A reader deletes history rows.                                          *)
Erase(S) ==
    /\ \A r \in S : record[r] \in Settled
    /\ record' = [r \in Runs |-> IF r \in S THEN "erased" ELSE record[r]]

Next ==
    \/ \E r \in Runs : Accept(r)
    \/ \E S \in SUBSET Runs : Start(S)
    \/ \E S \in SUBSET Runs, v \in Verdicts : Settle(S, v)
    \/ Sweep
    \/ \E S \in SUBSET Runs : Erase(S)

Spec == Init /\ [][Next]_record
=============================================================================
