----------------------------- MODULE KeyCustody -----------------------------
(***************************************************************************)
(* What the key-management endpoints promise their clients, with no lock,  *)
(* no KMS call sequence and no failure in sight.  A KMS key is made, may   *)
(* be named by its address, may lose that name, and may be retired for     *)
(* good.  A successful answer to a client coincides with one atomic change *)
(* of the custody of one key; a failing answer promises nothing, and       *)
(* custody may change without anybody being told.                          *)
(***************************************************************************)
CONSTANTS
  Key,      \* KMS key ids
  Client,   \* request slots: a client waiting for, or reading, one answer
  NoKey     \* not a key: the answer names none

VARIABLES
  custody,  \* custody[k]: where key k is in its life
  outcome   \* outcome[c]: the last success reported to client c, if any

vars == <<custody, outcome>>

Custody == {"unmade", "unnamed", "named", "retired"}

Outcome == [verdict : {"none"}, key : {NoKey}]
             \cup [verdict : {"created", "signed", "deleted"}, key : Key]

NoOutcome == [verdict |-> "none", key |-> NoKey]

Init ==
  /\ custody = [k \in Key |-> "unmade"]
  /\ outcome = [c \in Client |-> NoOutcome]

-----------------------------------------------------------------------------

(* Reporting "v on key k" to one client, or to nobody. *)
Tell(v, k) ==
  \/ UNCHANGED outcome
  \/ \E c \in Client :
       outcome' = [outcome EXCEPT ![c] = [verdict |-> v, key |-> k]]

Move(k, from, to) ==
  /\ custody[k] \in from
  /\ custody' = [custody EXCEPT ![k] = to]

(* A key comes into being; its maker is told nothing yet. *)
Mint(k) == Move(k, {"unmade"}, "unnamed") /\ UNCHANGED outcome

(* The address of the key is registered: this is what "created" means. *)
Name(k) == Move(k, {"unnamed"}, "named") /\ Tell("created", k)

Unname(k) == Move(k, {"named"}, "unnamed") /\ UNCHANGED outcome

(* The key is scheduled for deletion: this is what "deleted" means. *)
Retire(k) == Move(k, {"unnamed", "named"}, "retired") /\ Tell("deleted", k)

(* A signature is made: never by a key that is retired, or not made yet. *)
Use(k) ==
  /\ custody[k] \in {"unnamed", "named"}
  /\ UNCHANGED custody
  /\ Tell("signed", k)

(* Clients read their answers and send new requests. *)
Forget ==
  /\ \E C \in SUBSET Client :
       outcome' = [c \in Client |-> IF c \in C THEN NoOutcome ELSE outcome[c]]
  /\ UNCHANGED custody

Next ==
  \/ Forget
  \/ \E k \in Key :
       Mint(k) \/ Name(k) \/ Unname(k) \/ Retire(k) \/ Use(k)

Spec == Init /\ [][Next]_vars

=============================================================================
