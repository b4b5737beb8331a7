------------------------- MODULE MCExecutionJournal -------------------------
(* ExecutionJournal on a small instance.                                   *)
EXTENDS ExecutionJournal
=============================================================================
