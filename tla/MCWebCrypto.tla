---------------------------- MODULE MCWebCrypto ----------------------------
(* Instances of WebCrypto for TLC: a pair of this enclave and a foreign one. *)
EXTENDS WebCrypto
CONSTANTS here, abroad, s1, s2, d1, d2, p1, p2

Pairs == {here, abroad}
ForeignPairs == {abroad}
Secrets == {s1, s2}
Texts == {d1, d2}
Params == {p1, p2}
=============================================================================
