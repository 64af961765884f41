---------------------------- MODULE KeyLifecycle ----------------------------
(***************************************************************************)
(* The requests of the HTTP API against one AWS KMS account: createKey,    *)
(* signing with one key, verifySignature and deleteKey, each a sequence of *)
(* separate KMS calls made while the handler holds the one mutex of its    *)
(* API process (lib.rs, routes.rs, services/).                             *)
(*                                                                         *)
(* Several API processes ("replicas") share the account.  A handler awaits *)
(* at most one KMS call; pc[r] names the call.  Executing a call in KMS    *)
(* and delivering its reply is one step, in which the handler runs up to   *)
(* its next call or to its answer; between two calls anything may happen.  *)
(* A reply may be lost, and the SDK may send the call again; a client may  *)
(* disconnect, which drops its handler and releases the mutex; a process   *)
(* may crash.  A call already sent then may still take effect ("stray").   *)
(***************************************************************************)
EXTENDS Naturals, FiniteSets

CONSTANTS
  Replica,           \* API processes
  Request,           \* connections, each carrying one request at a time
  ReplicaOf,         \* the process a connection is opened to
  Key,               \* KMS key ids; CreateKey is refused when all are used
  Address,           \* chain addresses, used as alias names
  AddressOf,         \* the address derived from the public key of a key
  NoKey, NoAddress, NoRequest,
  FetchesPublicKey,  \* TRUE: Ethereum and Cosmos, FALSE: Casper, whose keys
                     \* are named by their public key in every request
  Ops,               \* the operations clients ask for
  FlawFound,         \* the calls after which a handler may find that it
                     \* cannot sign what it was sent: GetPublicKey on
                     \* Cosmos, DescribeForSign and Sign on Ethereum
  MaxFaults          \* bound on lost replies, failed calls, drops, crashes

ASSUME TopologyAssumption ==
  /\ ReplicaOf \in [Request -> Replica]
  /\ NoRequest \notin Request

ASSUME KeyAssumption ==
  /\ AddressOf \in [Key -> Address]
  /\ \A k1, k2 \in Key : AddressOf[k1] = AddressOf[k2] => k1 = k2
  /\ NoKey \notin Key
  /\ NoAddress \notin Address

ASSUME OpsAssumption ==
  Ops \subseteq {"create", "sign", "verify", "verify_via_kms", "delete"}

ASSUME FlawAssumption ==
  /\ FlawFound \subseteq {"GetPublicKey", "DescribeForSign", "Sign"}
  /\ ~FetchesPublicKey => FlawFound = {}

ASSUME BoundAssumption == FetchesPublicKey \in BOOLEAN /\ MaxFaults \in Nat

VARIABLES
  keyState,  \* keyState[k]: "absent", "enabled" or "pending" deletion
  alias,     \* alias[a]: the key the alias named a points to, or NoKey
  holder,    \* holder[p]: the request holding the mutex of process p
  ahead,     \* ahead[r]: requests that queued for the mutex before r
  req,       \* req[r]: the parameters of the request on connection r
  pc,        \* pc[r]: "idle", "queued", "locked", or the KMS call awaited
  alive,     \* alive[r]: FALSE when only a stray call is left of r
  keyId,     \* keyId[r]: the key id the handler of r works with
  pub,       \* pub[r]: the public key it resolved, as its address
  answer,    \* answer[r]: the last HTTP answer on connection r
  faults     \* how many faults have happened

kms    == <<keyState, alias>>
lock   == <<holder, ahead>>
locals == <<pc, alive, keyId, pub>>
vars   == <<keyState, alias, holder, ahead, req, pc, alive, keyId, pub,
            answer, faults>>

Calls == {"CreateKey", "GetNewPublicKey", "CreateAlias",
          "DescribeForPublicKey", "GetPublicKey",
          "DescribeForSign", "Sign", "DescribeForVerify", "Verify",
          "DescribeForDelete", "DeleteAlias", "ScheduleKeyDeletion"}

(* Request parameters: the key named by its address; for verification,     *)
(* which key made the signature shown (NoKey: none of ours); for signing,  *)
(* the call after which what is sent proves unsignable: a TxBody or Fee    *)
(* that does not parse, an account that is not the key's (GetPublicKey), a *)
(* hash that is not hex behind its 0x (DescribeForSign), a recovery value  *)
(* of more than two hex digits, as chain ids from 110 on give (Sign).      *)
Body ==
  { b \in [op : Ops, addr : Address \cup {NoAddress}, sig : Key \cup {NoKey},
           flaw : FlawFound \cup {"none"}] :
      /\ b.op = "create" <=> b.addr = NoAddress
      /\ b.sig # NoKey => b.op \in {"verify", "verify_via_kms"}
      /\ b.flaw # "none" => b.op = "sign" }

NoBody == [op |-> "none", addr |-> NoAddress, sig |-> NoKey, flaw |-> "none"]

Answer == [verdict : {"none", "failed", "rejected", "valid", "invalid"},
           key : {NoKey}]
            \cup [verdict : {"created", "signed", "deleted"}, key : Key]

Say(v, k) == [verdict |-> v, key |-> k]

Init ==
  /\ keyState = [k \in Key |-> "absent"]
  /\ alias = [a \in Address |-> NoKey]
  /\ holder = [p \in Replica |-> NoRequest]
  /\ ahead = [r \in Request |-> {}]
  /\ req = [r \in Request |-> NoBody]
  /\ pc = [r \in Request |-> "idle"]
  /\ alive = [r \in Request |-> TRUE]
  /\ keyId = [r \in Request |-> NoKey]
  /\ pub = [r \in Request |-> NoAddress]
  /\ answer = [r \in Request |-> Say("none", NoKey)]
  /\ faults = 0

-----------------------------------------------------------------------------
(* The handler between two calls. *)

(* It awaits its next call, c, with the key id and public key it has.      *)
Await(r, c, k, a) ==
  /\ alive[r]
  /\ pc' = [pc EXCEPT ![r] = c]
  /\ keyId' = [keyId EXCEPT ![r] = k]
  /\ pub' = [pub EXCEPT ![r] = a]
  /\ UNCHANGED <<holder, ahead, req, alive, answer, faults>>

Reset(R) ==
  /\ pc' = [r \in Request |-> IF r \in R THEN "idle" ELSE pc[r]]
  /\ keyId' = [r \in Request |-> IF r \in R THEN NoKey ELSE keyId[r]]
  /\ pub' = [r \in Request |-> IF r \in R THEN NoAddress ELSE pub[r]]
  /\ alive' = [r \in Request |-> r \in R \/ alive[r]]

(* It returns: the answer is sent and the guard of the mutex is dropped.   *)
Return(r, ans) ==
  /\ alive[r]
  /\ answer' = [answer EXCEPT ![r] = ans]
  /\ holder' = [holder EXCEPT ![ReplicaOf[r]] = NoRequest]
  /\ Reset({r})
  /\ UNCHANGED <<ahead, req>>

(* Every error of a call becomes an error answer; nothing is undone.       *)
Fail(r) == Return(r, Say("failed", NoKey))

Fault == faults < MaxFaults /\ faults' = faults + 1

(* The reply to a call that took effect is lost: the SDK sends it again,   *)
(* or its attempts are used up and the handler sees an error.              *)
LoseReply(r) ==
  /\ alive[r]
  /\ Fault
  /\ \/ UNCHANGED <<lock, locals, req, answer>>
     \/ Fail(r)

(* The call took effect but its handler is gone.                           *)
Abandoned(r) ==
  /\ ~alive[r]
  /\ Reset({r})
  /\ UNCHANGED <<lock, req, answer, faults>>

NoReplyFor(r) == LoseReply(r) \/ Abandoned(r)

(* A verification that is decided locally, or goes on to ask KMS.          *)
SignatureMatches(r, a) == req[r].sig # NoKey /\ AddressOf[req[r].sig] = a

JudgeLocally(r, k, a) ==
  \/ /\ req[r].op = "verify" \/ ~SignatureMatches(r, a)
     /\ Return(r, Say(IF SignatureMatches(r, a) THEN "valid" ELSE "invalid",
                      NoKey))
     /\ UNCHANGED faults
  \/ /\ req[r].op = "verify_via_kms" /\ SignatureMatches(r, a)
     /\ Await(r, "DescribeForVerify", k, a)
  \/ /\ req[r].sig = NoKey  \* a signature that cannot even be parsed
     /\ Fail(r)
     /\ UNCHANGED faults

-----------------------------------------------------------------------------
(* Connections, the mutex, and what becomes of a handler.                  *)

SameProcess(r) == { s \in Request : ReplicaOf[s] = ReplicaOf[r] }

(* A client sends a request; its handler joins the queue for the mutex.    *)
Arrive(r) ==
  /\ pc[r] = "idle"
  /\ \E b \in Body : req' = [req EXCEPT ![r] = b]
  /\ pc' = [pc EXCEPT ![r] = "queued"]
  /\ ahead' = [ahead EXCEPT ![r] = { s \in SameProcess(r) : pc[s] = "queued" }]
  /\ answer' = [answer EXCEPT ![r] = Say("none", NoKey)]
  /\ UNCHANGED <<kms, holder, alive, keyId, pub, faults>>

(* Defect: a waiter that goes away while the mutex is held keeps its place. *)
LeaveUnnoticed(R) ==
  ahead' = [s \in Request |->
    IF s \in R THEN {}
    ELSE ahead[s] \ { r \in R : holder[ReplicaOf[r]] = NoRequest }]

Leave(R) == ahead' = [s \in Request |-> IF s \in R THEN {} ELSE ahead[s] \ R]

(* Defect: a request runs without waiting for the mutex to be free.        *)
AcquireShared(r) ==
  /\ pc[r] = "queued"
  /\ ahead[r] = {}
  /\ holder' = [holder EXCEPT ![ReplicaOf[r]] = r]
  /\ Leave({r})
  /\ pc' = [pc EXCEPT ![r] = "locked"]
  /\ UNCHANGED <<kms, req, alive, keyId, pub, answer, faults>>

(* Defect: any waiter takes the mutex, as with a spin lock.                *)
AcquireUnordered(r) ==
  /\ pc[r] = "queued"
  /\ holder[ReplicaOf[r]] = NoRequest
  /\ holder' = [holder EXCEPT ![ReplicaOf[r]] = r]
  /\ Leave({r})
  /\ pc' = [pc EXCEPT ![r] = "locked"]
  /\ UNCHANGED <<kms, req, alive, keyId, pub, answer, faults>>

(* keys_service.lock().await: the mutex is granted in order of arrival.    *)
Acquire(r) ==
  /\ pc[r] = "queued"
  /\ ahead[r] = {}
  /\ holder[ReplicaOf[r]] = NoRequest
  /\ holder' = [holder EXCEPT ![ReplicaOf[r]] = r]
  /\ Leave({r})
  /\ pc' = [pc EXCEPT ![r] = "locked"]
  /\ UNCHANGED <<kms, req, alive, keyId, pub, answer, faults>>

(* The handler with the mutex starts on its request: parameters that do    *)
(* not pass its checks (or a deletion by a process without the credentials *)
(* for it) are answered at once, without a call.  A verification whose key *)
(* is named by its public key has no need to fetch it.                     *)
Begin(r) ==
  /\ pc[r] = "locked"
  /\ UNCHANGED kms
  /\ \/ /\ req[r].op # "create"
        /\ Return(r, Say("rejected", NoKey))
        /\ UNCHANGED faults
     \/ /\ req[r].op = "create"
        /\ Await(r, "CreateKey", NoKey, NoAddress)
     \/ /\ req[r].op = "delete"
        /\ Await(r, "DescribeForDelete", NoKey, NoAddress)
     \/ /\ req[r].op \in {"sign", "verify", "verify_via_kms"}
        /\ FetchesPublicKey
        /\ Await(r, "DescribeForPublicKey", NoKey, NoAddress)
     \/ /\ req[r].op = "sign"
        /\ ~FetchesPublicKey
        /\ Await(r, "DescribeForSign", NoKey, req[r].addr)
     \/ /\ req[r].op \in {"verify", "verify_via_kms"}
        /\ JudgeLocally(r, NoKey, req[r].addr)

Mutating == {"CreateKey", "CreateAlias", "DeleteAlias", "ScheduleKeyDeletion"}

(* The handlers of R are dropped: the mutex is released, and of a mutating *)
(* call that was sent only the call is left.                               *)
Drop(R) ==
  LET stray == { r \in R : pc[r] \in Mutating }
  IN  /\ pc' = [r \in Request |-> IF r \in R \ stray THEN "idle" ELSE pc[r]]
      /\ alive' = [r \in Request |-> alive[r] /\ r \notin stray]
      /\ keyId' = [r \in Request |->
                     IF r \in R \ stray THEN NoKey ELSE keyId[r]]
      /\ pub' = [r \in Request |->
                   IF r \in R \ stray THEN NoAddress ELSE pub[r]]
      /\ holder' = [p \in Replica |->
                      IF holder[p] \in R THEN NoRequest ELSE holder[p]]
      /\ Leave(R)

(* A client stops waiting (its timeout, a lost connection): hyper drops    *)
(* the future of the handler.                                              *)
Disconnect(r) ==
  /\ pc[r] # "idle" /\ alive[r]
  /\ Drop({r})
  /\ IF pc[r] \in Calls THEN Fault ELSE UNCHANGED faults
  /\ UNCHANGED <<kms, req, answer>>

(* A process stops and is started again: every handler it ran is gone.     *)
Crash(p) ==
  LET R == { r \in Request : ReplicaOf[r] = p /\ alive[r] /\ pc[r] # "idle" }
  IN  /\ R # {}
      /\ Drop(R)
      /\ Fault
      /\ UNCHANGED <<kms, req, answer>>

(* A stray call that never reached KMS.                                    *)
Vanish(r) ==
  /\ ~alive[r]
  /\ Reset({r})
  /\ UNCHANGED <<kms, lock, req, answer, faults>>

-----------------------------------------------------------------------------
(* AWS KMS executing the call of r.                                        *)

(* Whether the state of the account lets the call succeed.                 *)
Accepts(r) ==
  CASE pc[r] = "CreateKey" -> \E k \in Key : keyState[k] = "absent"
    [] pc[r] = "CreateAlias" ->
         alias[pub[r]] = NoKey /\ keyState[keyId[r]] = "enabled"
    [] pc[r] \in {"DescribeForPublicKey", "DescribeForSign",
                  "DescribeForDelete", "DeleteAlias"} ->
         alias[req[r].addr] # NoKey
    [] pc[r] = "DescribeForVerify" -> alias[pub[r]] # NoKey
    [] OTHER -> keyState[keyId[r]] = "enabled"

Serves(r, c) == pc[r] = c /\ Accepts(r)

(* Defect: an alias that exists already is taken for success.              *)
AlreadyExistsIsSuccess(r) ==
  /\ pc[r] \in Calls
  /\ ~Accepts(r)
  /\ \/ /\ IF pc[r] = "CreateAlias"
             THEN Return(r, Say("created", keyId[r])) ELSE Fail(r)
        /\ UNCHANGED faults
     \/ Abandoned(r)
  /\ UNCHANGED kms

KmsRefuses(r) ==
  /\ pc[r] \in Calls
  /\ ~Accepts(r)
  /\ \/ Fail(r) /\ UNCHANGED faults
     \/ Abandoned(r)
  /\ UNCHANGED kms

(* A call that fails without effect, or whose reply cannot be used.        *)
CallFails(r) ==
  /\ pc[r] \in Calls
  /\ Fault
  /\ Fail(r)
  /\ UNCHANGED kms

(* Defect: a create adopts a key without a name, one that an earlier try   *)
(* left or that was deleted, instead of a new one.                         *)
AdoptUnnamedKey(r) ==
  /\ Serves(r, "CreateKey")
  /\ \E k \in Key :
       /\ alias[AddressOf[k]] = NoKey
       /\ keyState' = [keyState EXCEPT ![k] = "enabled"]
       /\ Await(r, "GetNewPublicKey", k, NoAddress) \/ NoReplyFor(r)
  /\ UNCHANGED alias

KmsCreateKey(r) ==
  /\ Serves(r, "CreateKey")
  /\ \E k \in Key :
       /\ keyState[k] = "absent"
       /\ keyState' = [keyState EXCEPT ![k] = "enabled"]
       /\ Await(r, "GetNewPublicKey", k, NoAddress) \/ NoReplyFor(r)
  /\ UNCHANGED alias

(* Defect: the key id, not the address, becomes the alias.                 *)
AliasIsKeyId(r) ==
  /\ Serves(r, "GetNewPublicKey")
  /\ Await(r, "CreateAlias", keyId[r], keyId[r])
  /\ UNCHANGED kms

(* Defect: the public key is read from state that handlers share, where    *)
(* another creation may have put its own.                                  *)
SharedPublicKey(r) ==
  /\ Serves(r, "GetNewPublicKey")
  /\ \E k \in Key :
       /\ keyState[k] = "enabled"
       /\ Await(r, "CreateAlias", keyId[r], AddressOf[k])
  /\ UNCHANGED kms

(* Defect: the new key is reported before its alias is created.            *)
ReportWithoutAlias(r) ==
  /\ Serves(r, "GetNewPublicKey")
  /\ Return(r, Say("created", keyId[r]))
  /\ UNCHANGED <<kms, faults>>

(* The address is derived from the public key that comes back.             *)
KmsGetNewPublicKey(r) ==
  /\ Serves(r, "GetNewPublicKey")
  /\ Await(r, "CreateAlias", keyId[r], AddressOf[keyId[r]])
  /\ UNCHANGED kms

KmsCreateAlias(r) ==
  /\ Serves(r, "CreateAlias")
  /\ alias' = [alias EXCEPT ![pub[r]] = keyId[r]]
  /\ UNCHANGED keyState
  /\ \/ Return(r, Say("created", keyId[r])) /\ UNCHANGED faults
     \/ NoReplyFor(r)

KmsDescribeForPublicKey(r) ==
  /\ Serves(r, "DescribeForPublicKey")
  /\ Await(r, "GetPublicKey", alias[req[r].addr], NoAddress)
  /\ UNCHANGED kms

(* The call is served, and what the handler now knows tells it that it     *)
(* cannot sign.                                                            *)
FindsFlaw(r) ==
  /\ \E c \in FlawFound : req[r].flaw = c /\ Serves(r, c)
  /\ Fail(r)
  /\ UNCHANGED <<kms, faults>>

Flawed(r) == req[r].flaw = pc[r]

KmsGetPublicKey(r) ==
  /\ Serves(r, "GetPublicKey")
  /\ ~Flawed(r)
  /\ LET a == AddressOf[keyId[r]]
     IN  IF req[r].op = "sign"
           THEN Await(r, "DescribeForSign", NoKey, a)
           ELSE JudgeLocally(r, NoKey, a)
  /\ UNCHANGED kms

KmsDescribeForSign(r) ==
  /\ Serves(r, "DescribeForSign")
  /\ ~Flawed(r)
  /\ Await(r, "Sign", alias[req[r].addr], pub[r])
  /\ UNCHANGED kms

(* The handler verifies the signature against the public key it resolved   *)
(* before it answers.                                                      *)
KmsSign(r) ==
  /\ Serves(r, "Sign")
  /\ ~Flawed(r)
  /\ IF AddressOf[keyId[r]] = pub[r]
       THEN Return(r, Say("signed", keyId[r]))
       ELSE Fail(r)
  /\ UNCHANGED <<kms, faults>>

KmsDescribeForVerify(r) ==
  /\ Serves(r, "DescribeForVerify")
  /\ Await(r, "Verify", alias[pub[r]], pub[r])
  /\ UNCHANGED kms

KmsVerify(r) ==
  /\ Serves(r, "Verify")
  /\ Return(r, Say(IF req[r].sig = keyId[r] THEN "valid" ELSE "invalid",
                   NoKey))
  /\ UNCHANGED <<kms, faults>>

(* Defect: the key is scheduled for deletion and keeps its alias.          *)
DeleteKeepsAlias(r) ==
  /\ Serves(r, "DescribeForDelete")
  /\ Await(r, "ScheduleKeyDeletion", alias[req[r].addr], NoAddress)
  /\ UNCHANGED kms

KmsDescribeForDelete(r) ==
  /\ Serves(r, "DescribeForDelete")
  /\ Await(r, "DeleteAlias", alias[req[r].addr], NoAddress)
  /\ UNCHANGED kms

(* Defect: the deletion is reported once the alias is gone.                *)
ReportWithoutSchedule(r) ==
  /\ Serves(r, "DeleteAlias")
  /\ alias' = [alias EXCEPT ![req[r].addr] = NoKey]
  /\ UNCHANGED keyState
  /\ \/ Return(r, Say("deleted", keyId[r])) /\ UNCHANGED faults
     \/ NoReplyFor(r)

KmsDeleteAlias(r) ==
  /\ Serves(r, "DeleteAlias")
  /\ alias' = [alias EXCEPT ![req[r].addr] = NoKey]
  /\ UNCHANGED keyState
  /\ \/ Await(r, "ScheduleKeyDeletion", keyId[r], NoAddress)
     \/ NoReplyFor(r)

KmsScheduleKeyDeletion(r) ==
  /\ Serves(r, "ScheduleKeyDeletion")
  /\ keyState' = [keyState EXCEPT ![keyId[r]] = "pending"]
  /\ UNCHANGED alias
  /\ \/ Return(r, Say("deleted", keyId[r])) /\ UNCHANGED faults
     \/ NoReplyFor(r)

KmsServes(r) ==
  \/ KmsRefuses(r) \/ FindsFlaw(r)
  \/ KmsCreateKey(r) \/ KmsGetNewPublicKey(r) \/ KmsCreateAlias(r)
  \/ KmsDescribeForPublicKey(r) \/ KmsGetPublicKey(r)
  \/ KmsDescribeForSign(r) \/ KmsSign(r)
  \/ KmsDescribeForVerify(r) \/ KmsVerify(r)
  \/ KmsDescribeForDelete(r) \/ KmsDeleteAlias(r)
  \/ KmsScheduleKeyDeletion(r)

-----------------------------------------------------------------------------
Next ==
  \/ \E r \in Request :
       \/ Arrive(r) \/ Acquire(r) \/ Begin(r)
       \/ Disconnect(r) \/ Vanish(r) \/ CallFails(r)
       \/ KmsServes(r)
  \/ \E p \in Replica : Crash(p)

Spec == Init /\ [][Next]_vars

(* A granted mutex wakes its waiter, a woken handler is polled, and KMS    *)
(* replies or refuses.  Clients need not send, stray calls need not land.  *)
Fairness ==
  \A r \in Request :
    /\ WF_vars(Acquire(r))
    /\ WF_vars(Begin(r))
    /\ WF_vars(alive[r] /\ KmsServes(r))

FairSpec == Spec /\ Fairness

-----------------------------------------------------------------------------
(* Properties                                                              *)

TypeOK ==
  /\ keyState \in [Key -> {"absent", "enabled", "pending"}]
  /\ alias \in [Address -> Key \cup {NoKey}]
  /\ holder \in [Replica -> Request \cup {NoRequest}]
  /\ ahead \in [Request -> SUBSET Request]
  /\ req \in [Request -> Body \cup {NoBody}]
  /\ pc \in [Request -> {"idle", "queued", "locked"} \cup Calls]
  /\ alive \in [Request -> BOOLEAN]
  /\ keyId \in [Request -> Key \cup {NoKey}]
  /\ pub \in [Request -> Address \cup {NoAddress}]
  /\ answer \in [Request -> Answer]
  /\ faults \in 0..MaxFaults

(* The handlers of one process never have two KMS calls in progress: the   *)
(* mutex of AppState.keys_service is held from the first statement of each *)
(* handler to its answer, and a dropped handler loses its call with it.    *)
OneCallPerProcess ==
  \A r, s \in Request :
    /\ ReplicaOf[r] = ReplicaOf[s]
    /\ alive[r] /\ pc[r] \in Calls
    /\ alive[s] /\ pc[s] \in Calls
    => r = s

(* The mutex is never lost: it is held by a handler of its process that is *)
(* at work, and when nobody holds it, somebody of those who wait may take  *)
(* it.  No dropped handler keeps it, no waiter that went away is waited    *)
(* for, and no two requests wait for each other.                           *)
CanAcquire(p) ==
  \E r \in Request :
    ReplicaOf[r] = p /\ pc[r] = "queued" /\ ahead[r] = {}

MutexNeverStuck ==
  \A p \in Replica :
    \/ /\ holder[p] \in Request
       /\ ReplicaOf[holder[p]] = p
       /\ alive[holder[p]]
       /\ pc[holder[p]] \in {"locked"} \cup Calls
    \/ /\ holder[p] = NoRequest
       /\ (\E r \in Request : ReplicaOf[r] = p /\ pc[r] = "queued") => CanAcquire(p)

(* An alias names the key whose public key its address was derived from,   *)
(* whatever the interleaving of creations, deletions, retries and stray    *)
(* calls: create_key registers the address of the key it just made.        *)
AliasFaithful ==
  \A a \in Address : alias[a] # NoKey =>
    AddressOf[alias[a]] = a /\ keyState[alias[a]] # "absent"

(* What the answer ans claims of the request on r.                          *)
TrueOf(r, ans) ==
  LET v == ans.verdict
      k == ans.key
  IN  /\ v = "deleted" =>
           keyState[k] = "pending" /\ AddressOf[k] = req[r].addr
      /\ v = "signed" => AddressOf[k] = req[r].addr
      /\ v = "valid" => SignatureMatches(r, req[r].addr)
      /\ v = "invalid" => ~SignatureMatches(r, req[r].addr)

(* A successful answer is true of the account: a deleted key is pending    *)
(* deletion for good, a signature is by the key of the address asked for,  *)
(* and a verdict is right about the signature shown.                       *)
AnswersTruthful == \A r \in Request : TrueOf(r, answer[r])

(* Keys that can sign but that no address reaches and no call in progress  *)
(* will name or retire.                                                    *)
Owns(r, k) ==
  /\ keyId[r] = k
  /\ pc[r] \in {"GetNewPublicKey", "CreateAlias", "ScheduleKeyDeletion"}

Orphans ==
  { k \in Key :
      /\ keyState[k] = "enabled"
      /\ alias[AddressOf[k]] # k
      /\ \A r \in Request : ~Owns(r, k) }

(* create_key and delete_key are not atomic, and nothing is rolled back:   *)
(* but each fault strands one key at most, since a process works on one    *)
(* key at a time, and without a fault no interleaving strands any.         *)
OrphansBoundedByFaults == Cardinality(Orphans) <= faults

(* A stranded key stays stranded: no request, no retry of the delete that  *)
(* failed and no create can name it again or retire it.                    *)
OrphanIsForever == [][Orphans \subseteq Orphans']_vars

(* Only a lost reply (a CreateAlias sent again between another client's    *)
(* DeleteAlias and ScheduleKeyDeletion) leaves an alias on a key that is   *)
(* pending deletion.                                                       *)
DanglingAliasNeedsFault ==
  (\E a \in Address : alias[a] # NoKey /\ keyState[alias[a]] = "pending")
    => faults > 0

(* While nothing has gone wrong, an error answer has a cause in the        *)
(* request or the account: no key is left to make, the address has no key  *)
(* or has lost it, the signature is unreadable, or what was sent cannot be *)
(* signed (as sign_with_recovery_id cannot for a chain id from 110 on,     *)
(* with the key and its alias intact).  No interleaving of requests fails  *)
(* one between two of its changes: a creation that has its key names it, a *)
(* deletion that has removed the alias retires the key.                    *)
Cause(r) ==
  \/ pc[r] = "CreateKey" /\ \A k \in Key : keyState[k] # "absent"
  \/ /\ req[r].op # "create" /\ pc[r] # "ScheduleKeyDeletion"
     /\ alias[req[r].addr] = NoKey
  \/ req[r].op \in {"verify", "verify_via_kms"} /\ req[r].sig = NoKey
  \/ Flawed(r)

NewlyFailed(r) == answer[r].verdict # "failed" /\ answer'[r].verdict = "failed"

FailuresNeedCause ==
  [][faults' = 0 => \A r \in Request : NewlyFailed(r) => Cause(r)]_vars

(* Every request that was sent is answered, unless its client goes away or *)
(* its process crashes: the mutex is always released and is granted in     *)
(* order, so nobody waits behind a stream of later requests.               *)
Progress ==
  \A r \in Request : (pc[r] # "idle" /\ alive[r]) ~> (pc[r] = "idle" \/ ~alive[r])

(* The endpoints implement the custody of keys they promise.               *)
Promised(r) ==
  IF answer[r].verdict \in {"created", "signed", "deleted"}
    THEN answer[r] ELSE Say("none", NoKey)

CustodyOf(k) ==
  CASE keyState[k] = "absent" -> "unmade"
    [] keyState[k] = "pending" -> "retired"
    [] keyState[k] = "enabled" ->
         IF alias[AddressOf[k]] = k THEN "named" ELSE "unnamed"

Abstract == INSTANCE KeyCustody WITH
  Client <- Request,
  custody <- [k \in Key |-> CustodyOf(k)],
  outcome <- [r \in Request |-> Promised(r)]

ImplementsCustody == Abstract!Spec

(* They share the account: a walk over its aliases meets nothing but the   *)
(* steps of KmsAccount, and finds the alias of a retired key only where a  *)
(* named key was retired.                                                  *)
Leftovers == { k \in Key : keyState[k] = "pending" /\ alias[AddressOf[k]] = k }

Shared == INSTANCE KmsAccount WITH
  custody <- [k \in Key |-> CustodyOf(k)],
  leftover <- Leftovers

ImplementsAccount == Shared!AccountSpec

=============================================================================
