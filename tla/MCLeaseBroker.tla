---------------------------- MODULE MCLeaseBroker ----------------------------
(* LeaseBroker on small instances.                                         *)
EXTENDS LeaseBroker
=============================================================================
