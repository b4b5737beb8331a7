---------------------------- MODULE MCEnvironment ----------------------------
(* Environment on a small instance.                                        *)
EXTENDS Environment
=============================================================================
