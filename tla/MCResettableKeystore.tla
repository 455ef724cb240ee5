------------------------ MODULE MCResettableKeystore ------------------------
(* ResettableKeystore on a few keys; its constants are all given in the     *)
(* configurations.                                                          *)
EXTENDS ResettableKeystore, TLC

CONSTANTS r1, r2

Symmetric == Permutations(Resetters)
=============================================================================
