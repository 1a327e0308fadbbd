-------------------------- MODULE MCSessionControl --------------------------
EXTENDS SessionControl

CONSTANTS main, side, fresh

MCThreadIds == {main, side, fresh}
MCFreshIds == <<fresh>>
=============================================================================
