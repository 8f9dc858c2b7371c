---------------------------- MODULE MCRealWorker ----------------------------
(* Instances of RealWorker for TLC. *)
EXTENDS RealWorker
CONSTANTS l1, h1

OneListener == {l1}
OneHandler == {h1}
=============================================================================
