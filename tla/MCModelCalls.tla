---------------------------- MODULE MCModelCalls ----------------------------
(* Model checking of ModelCalls: sizes, times and durations are small        *)
(* numbers.                                                                  *)
EXTENDS ModelCalls

MCRetryDelays == <<1, 2, 4, 8>>
=============================================================================
