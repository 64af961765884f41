---------------------------- MODULE MCWasmBridge ----------------------------
(* Instances of WasmBridge for TLC.                                        *)
EXTENDS WasmBridge, TLC

CONSTANTS b1, b2, b3, b4, b5, s1, s2

(* Blocks are interchangeable, and so are the strings.                     *)
Symmetry == Permutations(Block) \cup Permutations(String)
=============================================================================
