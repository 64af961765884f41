------------------------------ MODULE MCHostApi ------------------------------
(* Instances of HostApi for TLC.                                           *)
EXTENDS HostApi, TLC

(* Sessions, pids and ports are interchangeable.                           *)
Symmetry == Permutations(Session) \cup Permutations(Pid) \cup Permutations(Port)
=============================================================================
