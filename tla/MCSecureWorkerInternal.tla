----------------------- MODULE MCSecureWorkerInternal -----------------------
(* Instances of SecureWorkerInternal for TLC. *)
EXTENDS SecureWorkerInternal
CONSTANTS w1, w2, w3

ThreeWorkers == {w1, w2, w3}
Symmetric == Permutations(ThreeWorkers)
=============================================================================
