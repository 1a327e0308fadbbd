--------------------------- MODULE MCEventDelivery ---------------------------
EXTENDS EventDelivery
CONSTANTS s1
=============================================================================
