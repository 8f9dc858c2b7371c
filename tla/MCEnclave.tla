----------------------------- MODULE MCEnclave -----------------------------
(* Instances of Enclave for TLC. *)
EXTENDS Enclave
CONSTANTS h1, h2

TwoHandlers == {h1, h2}
=============================================================================
