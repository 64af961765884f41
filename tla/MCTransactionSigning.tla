------------------------ MODULE MCTransactionSigning ------------------------
(* Two keys, one of which a request may name in two ways.                  *)
EXTENDS TransactionSigning

CONSTANTS s1, s2, address1, publicKey1, address2

MCSignerOf == [n \in Name |-> IF n = address2 THEN s2 ELSE s1]

MCNumberOf == [s \in Signer |-> IF s = s1 THEN 7 ELSE 8]

=============================================================================
