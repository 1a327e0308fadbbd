---------------------- MODULE MCRuntimeSettings ----------------------
EXTENDS RuntimeSettings, TLC

Same == [model |-> "same", mode |-> "same", plan |-> "same", tools |-> "same"]

MCUpdates ==
    {[Same EXCEPT !.model = "other", !.mode = "continuous"],
     [Same EXCEPT !.model = "default", !.plan = "on"],
     [Same EXCEPT !.mode = "manual", !.plan = "off", !.tools = "few"]}

ClientSymmetry == Permutations(Clients)
======================================================================
