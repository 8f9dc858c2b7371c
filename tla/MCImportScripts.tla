-------------------------- MODULE MCImportScripts --------------------------
(* Instances of ImportScripts for TLC: a main script, two that may import  *)
(* one another, and a key without a script.                                *)
EXTENDS ImportScripts
CONSTANTS main, a, b, none

AllKeys == {main, a, b, none}
StoredKeys == {main, a, b}
=============================================================================
