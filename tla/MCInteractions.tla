--------------------------- MODULE MCInteractions ---------------------------
EXTENDS Interactions
CONSTANT yes
MCTurns == 1 .. 2
MCExecutions == {<<"full-machine", "automatic">>}
=============================================================================
