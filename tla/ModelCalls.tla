----------------------------- MODULE ModelCalls -----------------------------
(***************************************************************************)
(* What a run sends to the provider and what it makes of the answer: the    *)
(* history that becomes the request (CheckpointReplay), the images the      *)
(* request carries (ImageStore), and the request itself (ModelProvider).    *)
(*                                                                         *)
(* The run awaits complete, so the history stands still while a request is  *)
(* under way, and the request reads the images once, when it begins.  The   *)
(* three meet in nothing else, and a behaviour follows one of them.         *)
(***************************************************************************)
EXTENDS CheckpointReplay, ModelProvider, ImageStore

VARIABLE part  \* what the behaviour follows

vars == <<historyVars, requestVars, imageVars, part>>

Init ==
  /\ part \in {"history", "request", "images"}
  /\ HistoryInit /\ RequestInit /\ ImageInit

History == part = "history" /\ HistoryStep /\ UNCHANGED <<requestVars, imageVars, part>>
Request == part = "request" /\ RequestStep /\ UNCHANGED <<historyVars, imageVars, part>>
Images == part = "images" /\ ImageStep /\ UNCHANGED <<historyVars, requestVars, part>>

Next == History \/ Request \/ Images

Spec == Init /\ [][Next]_vars
=============================================================================
