---------------------------- MODULE MCChildTasks ----------------------------
EXTENDS ChildReports

Symmetry == Permutations(Requests)
=============================================================================
