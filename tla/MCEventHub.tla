----------------------------- MODULE MCEventHub -----------------------------
(* EventHub on a small instance: one socket sees everything, another the   *)
(* runs of one client.                                                     *)
EXTENDS EventHub, TLC

CONSTANTS r1, r2, a, b

WatchesAB == (a :> {r1, r2}) @@ (b :> {r1})
=============================================================================
