--------------------------- MODULE MCTestingStore ---------------------------
(* Instances of TestingStore for TLC.                                      *)
EXTENDS TestingStore, TLC

(* Keys are interchangeable.                                               *)
Symmetry == Permutations(Key)
=============================================================================
