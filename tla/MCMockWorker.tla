---------------------------- MODULE MCMockWorker ----------------------------
(* Instances of MockWorker for TLC. *)
EXTENDS MockWorker
CONSTANTS i1, o1

OneInside == {i1}
OneOutside == {o1}
=============================================================================
