------------------------ MODULE MCExecutionJournal ------------------------
(* Small instances of ExecutionJournal for TLC. *)
EXTENDS ExecutionJournal, TLC

\* Request ids are only compared, so they are interchangeable.
RequestSymmetry == Permutations(Requests)
=============================================================================
