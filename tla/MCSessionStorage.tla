-------------------------- MODULE MCSessionStorage --------------------------
EXTENDS SessionStorage

CONSTANTS p1, p2, p3, main, fork1, fork2, child

MCPids == {p1, p2, p3}
MCSpare == <<fork1, fork2>>
\* The code treats pids alike.
Symmetry == Permutations(MCPids)
=============================================================================
