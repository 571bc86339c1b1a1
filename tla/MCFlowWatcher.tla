---------------------------- MODULE MCFlowWatcher ----------------------------
(* The instances of FlowWatcher that TLC checks. *)
EXTENDS FlowWatcher

CONSTANTS c1, c2

================================================================================
