--------------------------- MODULE MCSingleFlight ---------------------------
(* Three runs need k1; another node uses the same two lanes; a node with   *)
(* an execution context shares a lane with the node it waits for.          *)
EXTENDS SingleFlight, TLC

CONSTANTS a1, a2, a3, b, x, k1, k2, kx

MCCallers == {a1, a2, a3, b, x}
MCKey == a1 :> k1 @@ a2 :> k1 @@ a3 :> k1 @@ b :> k2 @@ x :> kx
MCOccupies == a1 :> <<1, 2>> @@ a2 :> <<1, 2>> @@ a3 :> <<1, 2>> @@ b :> <<2, 1>> @@ x :> <<1>>
MCWaitsFor == x :> b
=============================================================================
