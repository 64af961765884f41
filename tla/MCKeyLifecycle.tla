--------------------------- MODULE MCKeyLifecycle ---------------------------
(* Two processes with one connection each, or one process with them all.   *)
EXTENDS KeyLifecycle, TLC, Sequences

CONSTANTS k1, k2, k3, a1, a2, a3, r1, r2, r3, p1, p2

MCAddressOf == [k \in Key |->
  CASE k = k1 -> a1 [] k = k2 -> a2 [] OTHER -> a3]

OneProcess == [r \in Request |-> p1]

TwoProcesses == [r \in Request |-> IF r = r2 THEN p2 ELSE p1]

(* Which key, process or connection is which makes no difference, as long  *)
(* as a key keeps its address and a connection its process.                *)
Renamings ==
  { s \in Permutations(Key \cup Address \cup Request \cup Replica) :
      /\ \A k \in Key : s[k] \in Key /\ s[AddressOf[k]] = AddressOf[s[k]]
      /\ \A r \in Request :
           s[r] \in Request /\ s[ReplicaOf[r]] = ReplicaOf[s[r]] }

=============================================================================
