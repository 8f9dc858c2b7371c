--------------------------- MODULE MCMessagePort ---------------------------
(* Instances of MessagePort for TLC. *)
EXTENDS MessagePort
CONSTANTS l1, l2

TwoListeners == {l1, l2}
=============================================================================
