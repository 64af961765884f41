----------------------------- MODULE KmsAccount -----------------------------
(***************************************************************************)
(* The keys and aliases of the KMS account, as all API processes together  *)
(* change them: KeyCustody, and the aliases that faults leave behind on    *)
(* keys that are retired.  KeyLifecycle implements it; KeyListing walks    *)
(* over the aliases while it happens.                                      *)
(***************************************************************************)
CONSTANTS
  Key,       \* keys made through the API, or to be made
  NoKey

VARIABLES
  custody,   \* custody[k], as in KeyCustody
  leftover   \* retired keys that still have an alias

account == <<custody, leftover>>

Keys == INSTANCE KeyCustody WITH Client <- {}, outcome <- <<>>

Named == { k \in Key : custody[k] = "named" }

(* The keys that ListAliases shows.                                        *)
Aliased == Named \cup leftover

AccountInit == Keys!Init /\ leftover = {}

(* A key retired with its alias in place leaves it behind...               *)
KeyMoves ==
  /\ \E k \in Key : Keys!Mint(k) \/ Keys!Name(k) \/ Keys!Unname(k) \/ Keys!Retire(k)
  /\ leftover' = leftover \cup { k \in Named : custody'[k] = "retired" }

(* ...for a later deleteKey of its address to remove.                      *)
LeftoverGoes ==
  /\ \E k \in leftover : leftover' = leftover \ {k}
  /\ UNCHANGED custody

AccountNext == KeyMoves \/ LeftoverGoes

AccountSpec == AccountInit /\ [][AccountNext]_account

=============================================================================
