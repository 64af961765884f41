------------------------ MODULE KeyLifecycle_proofs ------------------------
(***************************************************************************)
(* The types and the safety of KeyLifecycle, for any processes,            *)
(* connections, keys, number of faults and either way of resolving public  *)
(* keys.  The type invariant comes first; on it rest the mutex, which      *)
(* keeps a process to one KMS call and always has a taker, what aliases    *)
(* and answers are said to be, how many keys and aliases faults can leave  *)
(* behind, and what requests may fail for.                                 *)
(***************************************************************************)
EXTENDS KeyLifecycle, FiniteSetTheorems, WellFoundedInduction, TLAPS

(* The calls made with a key id in hand, and with a public key in hand.    *)
KeyedCalls == {"GetNewPublicKey", "CreateAlias", "GetPublicKey", "Sign",
               "Verify", "DeleteAlias", "ScheduleKeyDeletion"}

PubCalls == {"CreateAlias", "DescribeForSign", "Sign", "DescribeForVerify",
             "Verify"}

CreateCalls == {"CreateKey", "GetNewPublicKey", "CreateAlias"}

HandlerInv ==
  \A r \in Request :
    /\ pc[r] # "idle" => req[r] \in Body
    /\ pc[r] \in Calls \ CreateCalls => req[r].addr \in Address
    /\ pc[r] \in KeyedCalls => keyId[r] \in Key
    /\ pc[r] \in PubCalls => pub[r] \in Address

USE DEF Calls, Mutating

-----------------------------------------------------------------------------
(* What the three ways a handler moves on do to the handler's variables.   *)

HandlerTypeOK ==
  /\ holder \in [Replica -> Request \cup {NoRequest}]
  /\ ahead \in [Request -> SUBSET Request]
  /\ req \in [Request -> Body \cup {NoBody}]
  /\ pc \in [Request -> {"idle", "queued", "locked"} \cup Calls]
  /\ alive \in [Request -> BOOLEAN]
  /\ keyId \in [Request -> Key \cup {NoKey}]
  /\ pub \in [Request -> Address \cup {NoAddress}]
  /\ answer \in [Request -> Answer]

HandlerOK == HandlerTypeOK /\ HandlerInv

LEMMA AwaitOK ==
  ASSUME HandlerOK, NEW r \in Request, NEW c \in Calls,
         NEW k \in Key \cup {NoKey}, NEW a \in Address \cup {NoAddress},
         req[r] \in Body,
         c \notin CreateCalls => req[r].addr \in Address,
         c \in KeyedCalls => k \in Key,
         c \in PubCalls => a \in Address,
         Await(r, c, k, a)
  PROVE  HandlerOK'
  BY DEF HandlerOK, HandlerTypeOK, HandlerInv, Await

LEMMA ReturnOK ==
  ASSUME HandlerOK, NEW r \in Request, NEW ans \in Answer, Return(r, ans)
  PROVE  HandlerOK'
  BY TopologyAssumption DEF HandlerOK, HandlerTypeOK, HandlerInv, Return, Reset, KeyedCalls, PubCalls

LEMMA FailOK ==
  ASSUME HandlerOK, NEW r \in Request, Fail(r)
  PROVE  HandlerOK'
  BY ReturnOK DEF Fail, Answer, Say

(* A call after which the handler gives up is one that reads.              *)
LEMMA FlawMet ==
  ASSUME NEW r, FindsFlaw(r)
  PROVE  /\ pc[r] \in {"GetPublicKey", "DescribeForSign", "Sign"}
         /\ Fail(r) /\ Flawed(r) /\ UNCHANGED <<kms, faults>>
  BY FlawAssumption DEF FindsFlaw, Flawed, Serves

LEMMA NoReplyOK ==
  ASSUME HandlerOK, NEW r \in Request, NoReplyFor(r)
  PROVE  HandlerOK'
<1>1. CASE Abandoned(r)
  BY <1>1 DEF HandlerOK, HandlerTypeOK, HandlerInv, Abandoned, Reset, lock, KeyedCalls, PubCalls
<1>2. CASE LoseReply(r)
  <2>1. CASE UNCHANGED <<lock, locals, req, answer>>
    BY <2>1 DEF HandlerOK, HandlerTypeOK, HandlerInv, lock, locals
  <2>2. CASE Fail(r)
    BY <2>2, FailOK
  <2> QED BY <1>2, <2>1, <2>2 DEF LoseReply
<1> QED BY <1>1, <1>2 DEF NoReplyFor

LEMMA DropOK ==
  ASSUME HandlerOK, NEW R \in SUBSET Request, Drop(R), UNCHANGED <<req, answer>>
  PROVE  HandlerOK'
  BY DEF HandlerOK, HandlerTypeOK, HandlerInv, Drop, Leave, KeyedCalls, PubCalls

-----------------------------------------------------------------------------
(* Type correctness: the invariant that carries it says, for each call, what *)
(* the handler holds when it makes the call.                               *)

KmsTypeOK ==
  /\ keyState \in [Key -> {"absent", "enabled", "pending"}]
  /\ alias \in [Address -> Key \cup {NoKey}]

TypeInv == KmsTypeOK /\ HandlerOK /\ faults \in 0..MaxFaults

LEMMA InitTypeInv == Init => TypeInv
  BY TopologyAssumption, BoundAssumption DEF Init, TypeInv, KmsTypeOK, HandlerOK,
     HandlerTypeOK, HandlerInv, Answer, Say, NoBody, KeyedCalls, PubCalls

LEMMA FaultOK ==
  ASSUME TypeInv, Fault
  PROVE  faults' \in 0..MaxFaults
  BY BoundAssumption DEF TypeInv, Fault

LEMMA BodyAddress ==
  ASSUME NEW b \in Body, b.op # "create"
  PROVE  b.addr \in Address
  BY DEF Body

LEMMA JudgeOK ==
  ASSUME HandlerOK, NEW r \in Request, req[r] \in Body,
         req[r].addr \in Address,
         NEW k \in Key \cup {NoKey}, NEW a \in Address,
         JudgeLocally(r, k, a)
  PROVE  HandlerOK' /\ UNCHANGED faults
<1>1. CASE \E v \in {"valid", "invalid"} :
             Return(r, Say(v, NoKey)) /\ UNCHANGED faults
  BY <1>1, ReturnOK DEF Answer, Say
<1>2. CASE Await(r, "DescribeForVerify", k, a)
  BY <1>2, AwaitOK DEF CreateCalls, KeyedCalls, Await
<1>3. CASE Fail(r) /\ UNCHANGED faults
  BY <1>3, FailOK
<1> QED BY <1>1, <1>2, <1>3 DEF JudgeLocally

LEMMA ClientStepTypeInv ==
  ASSUME TypeInv, NEW r \in Request, Arrive(r) \/ Acquire(r)
  PROVE  TypeInv'
<1>1. CASE Arrive(r)
  BY <1>1 DEF TypeInv, KmsTypeOK, HandlerOK, HandlerTypeOK, HandlerInv,
     Arrive, kms, SameProcess, Answer, Say, KeyedCalls, PubCalls
<1>2. CASE Acquire(r)
  BY <1>2, TopologyAssumption DEF TypeInv, KmsTypeOK, HandlerOK, HandlerTypeOK,
     HandlerInv, Acquire, Leave, kms, KeyedCalls, PubCalls
<1> QED BY <1>1, <1>2

LEMMA BeginTypeInv ==
  ASSUME TypeInv, NEW r \in Request, Begin(r)
  PROVE  TypeInv'
<1>1. req[r] \in Body /\ HandlerOK
  BY DEF TypeInv, HandlerOK, HandlerInv, Begin
<1>2. HandlerOK' /\ UNCHANGED faults
  <2>1. CASE req[r].op # "create" /\ Return(r, Say("rejected", NoKey)) /\ UNCHANGED faults
    BY <1>1, <2>1, ReturnOK DEF Answer, Say
  <2>2. CASE Await(r, "CreateKey", NoKey, NoAddress)
    BY <1>1, <2>2, AwaitOK DEF Await, CreateCalls, KeyedCalls, PubCalls
  <2>3. CASE req[r].op = "delete" /\ Await(r, "DescribeForDelete", NoKey, NoAddress)
    BY <1>1, <2>3, AwaitOK, BodyAddress DEF Await, CreateCalls, KeyedCalls, PubCalls
  <2>4. CASE /\ req[r].op \in {"sign", "verify", "verify_via_kms"}
             /\ Await(r, "DescribeForPublicKey", NoKey, NoAddress)
    BY <1>1, <2>4, AwaitOK, BodyAddress DEF Await, CreateCalls, KeyedCalls, PubCalls
  <2>5. CASE req[r].op = "sign" /\ Await(r, "DescribeForSign", NoKey, req[r].addr)
    BY <1>1, <2>5, AwaitOK, BodyAddress DEF Await, CreateCalls, KeyedCalls, PubCalls
  <2>6. CASE /\ req[r].op \in {"verify", "verify_via_kms"}
             /\ JudgeLocally(r, NoKey, req[r].addr)
    BY <1>1, <2>6, JudgeOK, BodyAddress
  <2> QED BY <2>1, <2>2, <2>3, <2>4, <2>5, <2>6 DEF Begin
<1> QED BY <1>2 DEF TypeInv, KmsTypeOK, Begin, kms

LEMMA LeavingTypeInv ==
  ASSUME TypeInv,
         \/ \E r \in Request : Disconnect(r) \/ Vanish(r) \/ CallFails(r)
         \/ \E p \in Replica : Crash(p)
  PROVE  TypeInv'
<1>1. HandlerOK /\ KmsTypeOK
  BY DEF TypeInv
<1>2. ASSUME NEW r \in Request, Disconnect(r) PROVE TypeInv'
  BY <1>1, <1>2, DropOK, FaultOK DEF Disconnect, TypeInv, KmsTypeOK, kms
<1>3. ASSUME NEW p \in Replica, Crash(p) PROVE TypeInv'
  BY <1>1, <1>3, DropOK, FaultOK DEF Crash, TypeInv, KmsTypeOK, kms
<1>4. ASSUME NEW r \in Request, Vanish(r) PROVE TypeInv'
  BY <1>1, <1>4, NoReplyOK DEF Vanish, NoReplyFor, Abandoned, TypeInv, KmsTypeOK, kms
<1>5. ASSUME NEW r \in Request, CallFails(r) PROVE TypeInv'
  BY <1>1, <1>5, FailOK, FaultOK DEF CallFails, TypeInv, KmsTypeOK, kms
<1> QED BY <1>2, <1>3, <1>4, <1>5

(* A call that KMS serves: what Accepts tells of its arguments.            *)
LEMMA KmsTypeInv ==
  ASSUME TypeInv, NEW r \in Request, KmsServes(r)
  PROVE  TypeInv'
<1> USE DEF KmsTypeOK
<1>1. HandlerOK /\ KmsTypeOK /\ faults \in 0..MaxFaults
  BY DEF TypeInv
<1>2. /\ pc[r] # "idle" => req[r] \in Body
      /\ pc[r] \in Calls \ CreateCalls => req[r].addr \in Address
      /\ pc[r] \in KeyedCalls => keyId[r] \in Key
      /\ pc[r] \in PubCalls => pub[r] \in Address
  BY <1>1 DEF HandlerOK, HandlerInv
<1>3. LoseReply(r) => faults' \in 0..MaxFaults
  BY FaultOK DEF LoseReply
<1>4. NoReplyFor(r) => HandlerOK' /\ faults' \in 0..MaxFaults
  BY <1>1, <1>3, NoReplyOK DEF NoReplyFor, Abandoned
<1>5. CASE KmsRefuses(r)
  BY <1>1, <1>4, <1>5, FailOK DEF KmsRefuses, NoReplyFor, TypeInv, kms
<1>6. CASE KmsCreateKey(r)
  <2>1. PICK k \in Key :
          /\ keyState' = [keyState EXCEPT ![k] = "enabled"]
          /\ Await(r, "GetNewPublicKey", k, NoAddress) \/ NoReplyFor(r)
    BY <1>6 DEF KmsCreateKey
  <2>2. Await(r, "GetNewPublicKey", k, NoAddress) => HandlerOK'
    BY <1>1, <1>2, <1>6, AwaitOK DEF KmsCreateKey, Serves, CreateCalls, PubCalls
  <2> QED BY <1>1, <1>4, <1>6, <2>1, <2>2 DEF KmsCreateKey, TypeInv, Await
<1>7. CASE KmsGetNewPublicKey(r)
  <2>1. keyId[r] \in Key /\ AddressOf[keyId[r]] \in Address /\ req[r] \in Body
    BY <1>2, <1>7, KeyAssumption DEF KmsGetNewPublicKey, Serves, KeyedCalls
  <2>2. HandlerOK'
    BY <1>1, <1>7, <2>1, AwaitOK DEF KmsGetNewPublicKey, CreateCalls
  <2> QED BY <1>1, <1>7, <2>2 DEF KmsGetNewPublicKey, TypeInv, Await, kms
<1>8. CASE KmsCreateAlias(r)
  <2>1. keyId[r] \in Key /\ pub[r] \in Address
    BY <1>2, <1>8 DEF KmsCreateAlias, Serves, KeyedCalls, PubCalls
  <2>2. HandlerOK' /\ faults' \in 0..MaxFaults
    BY <1>1, <1>4, <1>8, <2>1, ReturnOK DEF KmsCreateAlias, Answer, Say
  <2> QED BY <1>1, <1>8, <2>1, <2>2 DEF KmsCreateAlias, TypeInv
<1>9. CASE KmsDescribeForPublicKey(r) \/ KmsDescribeForSign(r) \/ KmsDescribeForDelete(r)
  <2>1. req[r] \in Body /\ req[r].addr \in Address /\ alias[req[r].addr] \in Key
    BY <1>1, <1>2, <1>9 DEF KmsDescribeForPublicKey, KmsDescribeForSign,
       KmsDescribeForDelete, Serves, Accepts, CreateCalls
  <2>2. CASE KmsDescribeForPublicKey(r)
    <3>1. HandlerOK'
      BY <1>1, <2>1, <2>2, AwaitOK DEF KmsDescribeForPublicKey, PubCalls
    <3> QED BY <1>1, <2>2, <3>1 DEF KmsDescribeForPublicKey, TypeInv, Await, kms
  <2>3. CASE KmsDescribeForSign(r)
    <3>1. pub[r] \in Address
      BY <1>2, <2>3 DEF KmsDescribeForSign, Serves, PubCalls
    <3>2. HandlerOK'
      BY <1>1, <2>1, <2>3, <3>1, AwaitOK DEF KmsDescribeForSign
    <3> QED BY <1>1, <2>3, <3>2 DEF KmsDescribeForSign, TypeInv, Await, kms
  <2>4. CASE KmsDescribeForDelete(r)
    <3>1. HandlerOK'
      BY <1>1, <2>1, <2>4, AwaitOK DEF KmsDescribeForDelete, PubCalls
    <3> QED BY <1>1, <2>4, <3>1 DEF KmsDescribeForDelete, TypeInv, Await, kms
  <2> QED BY <1>9, <2>2, <2>3, <2>4
<1>10. CASE KmsGetPublicKey(r)
  <2>1. /\ keyId[r] \in Key /\ AddressOf[keyId[r]] \in Address
        /\ req[r] \in Body /\ req[r].addr \in Address
    BY <1>2, <1>10, KeyAssumption DEF KmsGetPublicKey, Serves, KeyedCalls, CreateCalls
  <2>2. Await(r, "DescribeForSign", NoKey, AddressOf[keyId[r]]) => HandlerOK'
    BY <1>1, <2>1, AwaitOK DEF KeyedCalls, CreateCalls
  <2>3. JudgeLocally(r, NoKey, AddressOf[keyId[r]]) => HandlerOK' /\ UNCHANGED faults
    BY <1>1, <2>1, JudgeOK
  <2> QED BY <1>1, <1>10, <2>2, <2>3 DEF KmsGetPublicKey, TypeInv, Await, kms
<1>11. CASE KmsSign(r)
  <2>1. keyId[r] \in Key
    BY <1>2, <1>11 DEF KmsSign, Serves, KeyedCalls
  <2>2. HandlerOK'
    BY <1>1, <1>11, <2>1, ReturnOK, FailOK DEF KmsSign, Answer, Say
  <2> QED BY <1>1, <1>11, <2>2 DEF KmsSign, TypeInv, kms
<1>12. CASE KmsDescribeForVerify(r)
  <2>1. /\ req[r] \in Body /\ req[r].addr \in Address
        /\ pub[r] \in Address /\ alias[pub[r]] \in Key
    BY <1>1, <1>2, <1>12 DEF KmsDescribeForVerify, Serves, Accepts, PubCalls, CreateCalls
  <2>2. HandlerOK'
    BY <1>1, <1>12, <2>1, AwaitOK DEF KmsDescribeForVerify
  <2> QED BY <1>1, <1>12, <2>2 DEF KmsDescribeForVerify, TypeInv, Await, kms
<1>13. CASE KmsVerify(r)
  <2>1. HandlerOK'
    BY <1>1, <1>13, ReturnOK DEF KmsVerify, Answer, Say
  <2> QED BY <1>1, <1>13, <2>1 DEF KmsVerify, TypeInv, kms
<1>14. CASE KmsDeleteAlias(r)
  <2>1. /\ keyId[r] \in Key /\ req[r] \in Body /\ req[r].addr \in Address
    BY <1>2, <1>14 DEF KmsDeleteAlias, Serves, KeyedCalls, CreateCalls
  <2>2. Await(r, "ScheduleKeyDeletion", keyId[r], NoAddress) => HandlerOK'
    BY <1>1, <2>1, AwaitOK DEF PubCalls
  <2> QED BY <1>1, <1>4, <1>14, <2>1, <2>2 DEF KmsDeleteAlias, TypeInv, Await
<1>15. CASE KmsScheduleKeyDeletion(r)
  <2>1. keyId[r] \in Key
    BY <1>2, <1>15 DEF KmsScheduleKeyDeletion, Serves, KeyedCalls
  <2>2. HandlerOK' /\ faults' \in 0..MaxFaults
    BY <1>1, <1>4, <1>15, <2>1, ReturnOK DEF KmsScheduleKeyDeletion, Answer, Say
  <2> QED BY <1>1, <1>15, <2>1, <2>2 DEF KmsScheduleKeyDeletion, TypeInv
<1>16. CASE FindsFlaw(r)
  BY <1>1, <1>16, FlawMet, FailOK DEF TypeInv, kms
<1> QED
  BY <1>5, <1>6, <1>7, <1>8, <1>9, <1>10, <1>11, <1>12, <1>13, <1>14, <1>15, <1>16
  DEF KmsServes

LEMMA NextTypeInv == TypeInv /\ [Next]_vars => TypeInv'
<1>1. CASE TypeInv /\ UNCHANGED vars
  BY <1>1 DEF TypeInv, KmsTypeOK, HandlerOK, HandlerTypeOK, HandlerInv, vars
<1>2. CASE TypeInv /\ Next
  BY <1>2, ClientStepTypeInv, BeginTypeInv, LeavingTypeInv, KmsTypeInv DEF Next
<1> QED BY <1>1, <1>2

THEOREM TypeInvariant == Spec => []TypeInv
<1>1. Init => TypeInv BY InitTypeInv
<1>2. TypeInv /\ [Next]_vars => TypeInv' BY NextTypeInv
<1> QED BY <1>1, <1>2, PTL DEF Spec

(* Every variable keeps its type in every reachable state.                 *)
THEOREM TypeCorrect == Spec => []TypeOK
<1>1. TypeInv => TypeOK
  BY DEF TypeInv, TypeOK, KmsTypeOK, HandlerOK, HandlerTypeOK
<1> QED BY <1>1, TypeInvariant, PTL

-----------------------------------------------------------------------------
(* The mutex.  A handler past its lock statement holds the mutex of its    *)
(* process; a dropped handler does not.                                    *)

Working(r) == alive[r] /\ pc[r] \notin {"idle", "queued"}

LockInv == \A r \in Request : Working(r) => holder[ReplicaOf[r]] = r

LEMMA AwaitLock ==
  ASSUME TypeInv, LockInv, NEW r \in Request, NEW c, NEW k, NEW a,
         pc[r] \notin {"idle", "queued"}, Await(r, c, k, a)
  PROVE  LockInv'
  BY DEF TypeInv, HandlerOK, HandlerTypeOK, LockInv, Working, Await

LEMMA ReturnLock ==
  ASSUME TypeInv, LockInv, NEW r \in Request, NEW ans,
         pc[r] \notin {"idle", "queued"}, Return(r, ans)
  PROVE  LockInv'
  BY TopologyAssumption
  DEF TypeInv, HandlerOK, HandlerTypeOK, LockInv, Working, Return, Reset

LEMMA NoReplyLock ==
  ASSUME TypeInv, LockInv, NEW r \in Request,
         pc[r] \notin {"idle", "queued"}, NoReplyFor(r)
  PROVE  LockInv'
<1>1. CASE LoseReply(r)
  <2>1. CASE Fail(r)
    BY <2>1, ReturnLock DEF Fail
  <2>2. CASE UNCHANGED <<lock, locals, req, answer>>
    BY <2>2 DEF LockInv, Working, lock, locals
  <2> QED BY <1>1, <2>1, <2>2 DEF LoseReply
<1>2. CASE Abandoned(r)
  BY <1>2 DEF TypeInv, HandlerOK, HandlerTypeOK, LockInv, Working, Abandoned, Reset, lock
<1> QED BY <1>1, <1>2 DEF NoReplyFor

LEMMA JudgeLock ==
  ASSUME TypeInv, LockInv, NEW r \in Request, NEW k, NEW a,
         pc[r] \notin {"idle", "queued"}, JudgeLocally(r, k, a)
  PROVE  LockInv'
  BY AwaitLock, ReturnLock DEF JudgeLocally, Fail

LEMMA DropLock ==
  ASSUME TypeInv, LockInv, NEW R \in SUBSET Request, Drop(R)
  PROVE  LockInv'
  BY TopologyAssumption
  DEF TypeInv, HandlerOK, HandlerTypeOK, LockInv, Working, Drop

LEMMA KmsLock ==
  ASSUME TypeInv, LockInv, NEW r \in Request, KmsServes(r)
  PROVE  LockInv'
<1>1. pc[r] \notin {"idle", "queued"}
  BY FlawMet DEF KmsServes, KmsRefuses, KmsCreateKey, KmsGetNewPublicKey, KmsCreateAlias,
     KmsDescribeForPublicKey, KmsGetPublicKey, KmsDescribeForSign, KmsSign,
     KmsDescribeForVerify, KmsVerify, KmsDescribeForDelete, KmsDeleteAlias,
     KmsScheduleKeyDeletion, Serves
<1>2. \/ \E c, k, a : Await(r, c, k, a)
      \/ \E ans : Return(r, ans)
      \/ NoReplyFor(r)
      \/ \E k, a : JudgeLocally(r, k, a)
  BY FlawMet DEF KmsServes, KmsRefuses, KmsCreateKey, KmsGetNewPublicKey, KmsCreateAlias,
     KmsDescribeForPublicKey, KmsGetPublicKey, KmsDescribeForSign, KmsSign,
     KmsDescribeForVerify, KmsVerify, KmsDescribeForDelete, KmsDeleteAlias,
     KmsScheduleKeyDeletion, NoReplyFor, Fail
<1> QED BY <1>1, <1>2, AwaitLock, ReturnLock, NoReplyLock, JudgeLock

LEMMA NextLock == TypeInv /\ LockInv /\ [Next]_vars => LockInv'
<1> SUFFICES ASSUME TypeInv, LockInv, [Next]_vars PROVE LockInv'
  OBVIOUS
<1>1. CASE UNCHANGED vars
  BY <1>1 DEF LockInv, Working, vars
<1>2. ASSUME NEW r \in Request, Arrive(r) PROVE LockInv'
  BY <1>2 DEF TypeInv, HandlerOK, HandlerTypeOK, LockInv, Working, Arrive
<1>3. ASSUME NEW r \in Request, Acquire(r) PROVE LockInv'
  BY <1>3, TopologyAssumption
  DEF TypeInv, HandlerOK, HandlerTypeOK, LockInv, Working, Acquire
<1>4. ASSUME NEW r \in Request, Begin(r) PROVE LockInv'
  <2>1. pc[r] \notin {"idle", "queued"}
    BY <1>4 DEF Begin
  <2> QED BY <1>4, <2>1, AwaitLock, ReturnLock, JudgeLock DEF Begin
<1>5. ASSUME NEW r \in Request, Disconnect(r) PROVE LockInv'
  BY <1>5, DropLock DEF Disconnect
<1>6. ASSUME NEW p \in Replica, Crash(p) PROVE LockInv'
  BY <1>6, DropLock DEF Crash
<1>7. ASSUME NEW r \in Request, Vanish(r) PROVE LockInv'
  BY <1>7 DEF TypeInv, HandlerOK, HandlerTypeOK, LockInv, Working, Vanish, Reset, lock
<1>8. ASSUME NEW r \in Request, CallFails(r) PROVE LockInv'
  BY <1>8, ReturnLock DEF CallFails, Fail
<1> QED BY <1>1, <1>2, <1>3, <1>4, <1>5, <1>6, <1>7, <1>8, KmsLock DEF Next

(* The handlers of one process never have two KMS calls in progress: both  *)
(* would hold the one mutex of AppState.keys_service.                      *)
THEOREM MutualExclusion == Spec => []OneCallPerProcess
<1>1. Init => LockInv
  BY DEF Init, LockInv, Working
<1>2. LockInv => OneCallPerProcess
  BY DEF LockInv, Working, OneCallPerProcess
<1> QED BY <1>1, <1>2, NextLock, TypeInvariant, PTL DEF Spec

-----------------------------------------------------------------------------
(* The queue.  Who waits for whom is a strict order on the requests of one *)
(* process that wait, so the finitely many that do have a first; the mutex *)
(* is held by nobody, or by a handler of its process that is at work.      *)

Waiting == { r \in Request : pc[r] = "queued" }

QueueInv ==
  /\ IsFiniteSet(Waiting)
  /\ \A r \in Request : \A s \in ahead[r] :
       /\ r \in Waiting /\ s \in Waiting \ {r}
       /\ ReplicaOf[s] = ReplicaOf[r]
       /\ ahead[s] \subseteq ahead[r]

HolderInv ==
  \A p \in Replica :
    holder[p] # NoRequest => Working(holder[p]) /\ ReplicaOf[holder[p]] = p

StrayInv == \A r \in Request : alive[r] \/ pc[r] \in Mutating

MutexInv == QueueInv /\ HolderInv /\ StrayInv

LEMMA QueueStays ==
  ASSUME QueueInv, UNCHANGED ahead, Waiting' = Waiting
  PROVE  QueueInv'
  BY DEF QueueInv

LEMMA QueueShrinks ==
  ASSUME TypeInv, QueueInv, NEW R \in SUBSET Request,
         Leave(R), Waiting' = Waiting \ R
  PROVE  QueueInv'
<1>1. IsFiniteSet(Waiting')
  BY FS_Subset DEF QueueInv
<1>2. ASSUME NEW r \in Request, NEW s \in ahead'[r]
      PROVE  /\ r \in Waiting' /\ s \in Waiting' \ {r}
             /\ ReplicaOf[s] = ReplicaOf[r]
             /\ ahead'[s] \subseteq ahead'[r]
  <2>1. r \notin R /\ s \in ahead[r] \ R
    BY <1>2 DEF Leave
  <2>2. s \in Request
    BY <2>1 DEF TypeInv, HandlerOK, HandlerTypeOK
  <2> QED BY <2>1, <2>2 DEF QueueInv, Leave
<1> QED BY <1>1, <1>2 DEF QueueInv

LEMMA AwaitMutex ==
  ASSUME TypeInv, MutexInv, NEW r \in Request, NEW c \in Calls, NEW k, NEW a,
         pc[r] \notin {"idle", "queued"}, Await(r, c, k, a)
  PROVE  MutexInv'
<1>1. Waiting' = Waiting /\ ahead' = ahead
  BY DEF TypeInv, HandlerOK, HandlerTypeOK, Waiting, Await
<1>2. HolderInv' /\ StrayInv'
  BY DEF TypeInv, HandlerOK, HandlerTypeOK, MutexInv, HolderInv, StrayInv, Working, Await
<1> QED BY <1>1, <1>2, QueueStays DEF MutexInv

LEMMA ReturnMutex ==
  ASSUME TypeInv, MutexInv, NEW r \in Request, NEW ans,
         pc[r] \notin {"idle", "queued"}, Return(r, ans)
  PROVE  MutexInv'
<1>1. Waiting' = Waiting /\ ahead' = ahead
  BY DEF TypeInv, HandlerOK, HandlerTypeOK, Waiting, Return, Reset
<1>2. HolderInv' /\ StrayInv'
  BY TopologyAssumption
  DEF TypeInv, HandlerOK, HandlerTypeOK, MutexInv, HolderInv, StrayInv, Working,
      Return, Reset
<1> QED BY <1>1, <1>2, QueueStays DEF MutexInv

LEMMA AbandonedMutex ==
  ASSUME TypeInv, MutexInv, NEW r \in Request, ~alive[r], Reset({r}), UNCHANGED lock
  PROVE  MutexInv'
<1>1. Waiting' = Waiting /\ ahead' = ahead
  BY DEF TypeInv, HandlerOK, HandlerTypeOK, MutexInv, StrayInv, Waiting, Reset, lock
<1>2. ASSUME NEW s \in Request PROVE s # r => UNCHANGED <<pc[s], alive[s]>>
  BY DEF TypeInv, HandlerOK, HandlerTypeOK, Reset
<1>3. StrayInv'
  BY <1>2 DEF MutexInv, StrayInv, Reset
<1>4. HolderInv'
  BY <1>2 DEF TypeInv, HandlerOK, HandlerTypeOK, MutexInv, HolderInv, Working, lock
<1> QED BY <1>1, <1>3, <1>4, QueueStays DEF MutexInv

LEMMA NoReplyMutex ==
  ASSUME TypeInv, MutexInv, NEW r \in Request,
         pc[r] \notin {"idle", "queued"}, NoReplyFor(r)
  PROVE  MutexInv'
<1>1. CASE Fail(r)
  BY <1>1, ReturnMutex DEF Fail
<1>2. CASE UNCHANGED <<lock, locals>>
  <2>1. Waiting' = Waiting /\ ahead' = ahead
    BY <1>2 DEF Waiting, lock, locals
  <2>2. HolderInv' /\ StrayInv'
    BY <1>2 DEF MutexInv, HolderInv, StrayInv, Working, lock, locals
  <2> QED BY <2>1, <2>2, QueueStays DEF MutexInv
<1>3. CASE Abandoned(r)
  BY <1>3, AbandonedMutex DEF Abandoned
<1> QED BY <1>1, <1>2, <1>3 DEF NoReplyFor, LoseReply

LEMMA JudgeMutex ==
  ASSUME TypeInv, MutexInv, NEW r \in Request, NEW k, NEW a,
         pc[r] \notin {"idle", "queued"}, JudgeLocally(r, k, a)
  PROVE  MutexInv'
  BY AwaitMutex, ReturnMutex DEF JudgeLocally, Fail

LEMMA DropMutex ==
  ASSUME TypeInv, MutexInv, NEW R \in SUBSET Request, Drop(R)
  PROVE  MutexInv'
<1>1. Waiting' = Waiting \ R /\ Leave(R)
  BY DEF TypeInv, HandlerOK, HandlerTypeOK, Waiting, Drop
<1>2. HolderInv' /\ StrayInv'
  BY DEF TypeInv, HandlerOK, HandlerTypeOK, MutexInv, HolderInv, StrayInv, Working, Drop
<1> QED BY <1>1, <1>2, QueueShrinks DEF MutexInv

LEMMA ArriveMutex ==
  ASSUME TypeInv, MutexInv, NEW r \in Request, Arrive(r)
  PROVE  MutexInv'
<1>1. /\ pc[r] = "idle" /\ pc' = [pc EXCEPT ![r] = "queued"]
      /\ ahead' = [ahead EXCEPT ![r] = { s \in SameProcess(r) : pc[s] = "queued" }]
      /\ UNCHANGED <<holder, alive>>
  BY DEF Arrive
<1>2. Waiting' = Waiting \cup {r} /\ r \notin Waiting
  BY <1>1 DEF TypeInv, HandlerOK, HandlerTypeOK, Waiting
<1>3. IsFiniteSet(Waiting')
  BY <1>2, FS_AddElement DEF MutexInv, QueueInv
<1>4. ASSUME NEW q \in Request, NEW s \in ahead'[q]
      PROVE  /\ q \in Waiting' /\ s \in Waiting' \ {q}
             /\ ReplicaOf[s] = ReplicaOf[q]
             /\ ahead'[s] \subseteq ahead'[q]
  <2>1. CASE q = r
    <3>1. s \in Waiting /\ ReplicaOf[s] = ReplicaOf[r] /\ s # r
      BY <1>1, <1>2, <1>4, <2>1
      DEF TypeInv, HandlerOK, HandlerTypeOK, SameProcess, Waiting
    <3>2. ahead'[s] = ahead[s]
      BY <1>1, <3>1 DEF TypeInv, HandlerOK, HandlerTypeOK, Waiting
    <3>3. ahead[s] \subseteq { t \in SameProcess(r) : pc[t] = "queued" }
      BY <3>1 DEF MutexInv, QueueInv, SameProcess, Waiting
    <3> QED BY <1>1, <1>2, <2>1, <3>1, <3>2, <3>3
            DEF TypeInv, HandlerOK, HandlerTypeOK
  <2>2. CASE q # r
    <3>1. ahead'[q] = ahead[q]
      BY <1>1, <2>2 DEF TypeInv, HandlerOK, HandlerTypeOK
    <3>2. /\ q \in Waiting /\ s \in Waiting \ {q} /\ ReplicaOf[s] = ReplicaOf[q]
          /\ ahead[s] \subseteq ahead[q]
      BY <1>4, <3>1 DEF MutexInv, QueueInv
    <3>3. ahead'[s] = ahead[s]
      BY <1>1, <1>2, <3>2 DEF TypeInv, HandlerOK, HandlerTypeOK, Waiting
    <3> QED BY <1>2, <3>1, <3>2, <3>3
  <2> QED BY <2>1, <2>2
<1>5. HolderInv' /\ StrayInv'
  BY <1>1 DEF TypeInv, HandlerOK, HandlerTypeOK, MutexInv, HolderInv, StrayInv, Working
<1> QED BY <1>3, <1>4, <1>5 DEF MutexInv, QueueInv

LEMMA AcquireMutex ==
  ASSUME TypeInv, MutexInv, NEW r \in Request, Acquire(r)
  PROVE  MutexInv'
<1>1. Waiting' = Waiting \ {r} /\ Leave({r})
  BY DEF TypeInv, HandlerOK, HandlerTypeOK, Waiting, Acquire
<1>2. HolderInv' /\ StrayInv'
  BY TopologyAssumption
  DEF TypeInv, HandlerOK, HandlerTypeOK, MutexInv, HolderInv, StrayInv, Working, Acquire
<1> QED BY <1>1, <1>2, QueueShrinks DEF MutexInv

LEMMA BeginMutex ==
  ASSUME TypeInv, MutexInv, NEW r \in Request, Begin(r)
  PROVE  MutexInv'
<1>1. pc[r] \notin {"idle", "queued"}
  BY DEF Begin
<1>2. \/ \E c \in Calls : \E k, a : Await(r, c, k, a)
      \/ \E ans : Return(r, ans)
      \/ \E k, a : JudgeLocally(r, k, a)
  BY DEF Begin
<1> QED BY <1>1, <1>2, AwaitMutex, ReturnMutex, JudgeMutex

LEMMA KmsMutex ==
  ASSUME TypeInv, MutexInv, NEW r \in Request, KmsServes(r)
  PROVE  MutexInv'
<1>1. pc[r] \notin {"idle", "queued"}
  BY FlawMet DEF KmsServes, KmsRefuses, KmsCreateKey, KmsGetNewPublicKey, KmsCreateAlias,
     KmsDescribeForPublicKey, KmsGetPublicKey, KmsDescribeForSign, KmsSign,
     KmsDescribeForVerify, KmsVerify, KmsDescribeForDelete, KmsDeleteAlias,
     KmsScheduleKeyDeletion, Serves
<1>2. \/ \E c \in Calls : \E k, a : Await(r, c, k, a)
      \/ \E ans : Return(r, ans)
      \/ NoReplyFor(r)
      \/ \E k, a : JudgeLocally(r, k, a)
  BY FlawMet DEF KmsServes, KmsRefuses, KmsCreateKey, KmsGetNewPublicKey, KmsCreateAlias,
     KmsDescribeForPublicKey, KmsGetPublicKey, KmsDescribeForSign, KmsSign,
     KmsDescribeForVerify, KmsVerify, KmsDescribeForDelete, KmsDeleteAlias,
     KmsScheduleKeyDeletion, NoReplyFor, Fail
<1> QED BY <1>1, <1>2, AwaitMutex, ReturnMutex, NoReplyMutex, JudgeMutex

LEMMA NextMutex == TypeInv /\ MutexInv /\ [Next]_vars => MutexInv'
<1> SUFFICES ASSUME TypeInv, MutexInv, [Next]_vars PROVE MutexInv'
  OBVIOUS
<1>1. CASE UNCHANGED vars
  BY <1>1 DEF MutexInv, QueueInv, HolderInv, StrayInv, Working, Waiting, vars
<1>2. ASSUME NEW r \in Request, Disconnect(r) PROVE MutexInv'
  BY <1>2, DropMutex DEF Disconnect
<1>3. ASSUME NEW p \in Replica, Crash(p) PROVE MutexInv'
  BY <1>3, DropMutex DEF Crash
<1>4. ASSUME NEW r \in Request, Vanish(r) PROVE MutexInv'
  BY <1>4, AbandonedMutex DEF Vanish
<1>5. ASSUME NEW r \in Request, CallFails(r) PROVE MutexInv'
  BY <1>5, ReturnMutex DEF CallFails, Fail
<1> QED BY <1>1, <1>2, <1>3, <1>4, <1>5, ArriveMutex, AcquireMutex, BeginMutex,
        KmsMutex DEF Next

(* Of the requests that wait for one mutex, those with the fewest others   *)
(* ahead of them have none.                                                *)
LEMMA SomebodyIsFirst ==
  ASSUME TypeInv, QueueInv, NEW q \in Waiting
  PROVE  CanAcquire(ReplicaOf[q])
<1> DEFINE Q == { r \in Waiting : ReplicaOf[r] = ReplicaOf[q] }
           Count == { Cardinality(ahead[r]) : r \in Q }
<1>1. \A r \in Request : ahead[r] \subseteq Waiting
  BY DEF QueueInv
<1>2. \A r \in Request : IsFiniteSet(ahead[r]) /\ Cardinality(ahead[r]) \in Nat
  BY <1>1, FS_Subset, FS_CardinalityType DEF QueueInv
<1>3. Count \subseteq Nat /\ Count # {}
  BY <1>2 DEF Waiting
<1>4. PICK n \in Count : \A m \in Count : ~(m < n)
  <2> DEFINE Less == { ss \in Nat \X Nat : ss[1] < ss[2] }
  <2>1. IsWellFoundedOn(Less, Nat)
    BY NatLessThanWellFounded, Zenon DEF OpToRel
  <2>2. PICK n \in Count : \A m \in Count : ~(<<m, n>> \in Less)
    <3> HIDE DEF Less, Count
    <3> QED BY <1>3, <2>1, WFMin
  <2> QED BY <1>3, <2>2
<1>5. PICK r \in Q : Cardinality(ahead[r]) = n
  BY DEF Count
<1>6. ahead[r] = {}
  <2> SUFFICES ASSUME NEW s \in ahead[r] PROVE FALSE
    OBVIOUS
  <2>1. /\ r \in Request /\ s \in Q
        /\ ahead[s] \subseteq ahead[r] \ {s}
    <3>1. /\ r \in Request /\ s \in Waiting /\ ReplicaOf[s] = ReplicaOf[r]
          /\ ahead[s] \subseteq ahead[r]
      BY <1>5 DEF QueueInv, Waiting
    <3>2. s \notin ahead[s]
      BY <3>1 DEF QueueInv, Waiting
    <3> QED BY <1>5, <3>1, <3>2
  <2>2. IsFiniteSet(ahead[r]) /\ Cardinality(ahead[r] \ {s}) = Cardinality(ahead[r]) - 1
    BY <1>2, <2>1, FS_RemoveElement
  <2>3. Cardinality(ahead[s]) <= Cardinality(ahead[r] \ {s}) /\ s \in Request
    BY <2>1, <2>2, FS_Subset, FS_RemoveElement DEF Waiting
  <2>4. Cardinality(ahead[s]) < n /\ Cardinality(ahead[s]) \in Count
    BY <1>2, <1>5, <2>1, <2>2, <2>3
  <2> QED BY <1>4, <2>4
<1> QED BY <1>5, <1>6 DEF CanAcquire, Waiting

(* The mutex of a process is never lost and its queue never jams: whoever  *)
(* holds it is at work, and if nobody does, the first of those who wait    *)
(* may take it, whichever clients go away and whichever processes crash.   *)
THEOREM MutexIsNeverStuck == Spec => []MutexNeverStuck
<1>1. Init => MutexInv
  <2> SUFFICES ASSUME Init PROVE MutexInv
    OBVIOUS
  <2>1. Waiting = {}
    BY DEF Init, Waiting
  <2> QED BY <2>1, FS_EmptySet DEF Init, MutexInv, QueueInv, HolderInv, StrayInv
<1>2. TypeInv /\ MutexInv => MutexNeverStuck
  <2> SUFFICES ASSUME TypeInv, MutexInv, NEW p \in Replica
               PROVE  \/ /\ holder[p] \in Request
                         /\ ReplicaOf[holder[p]] = p
                         /\ alive[holder[p]]
                         /\ pc[holder[p]] \in {"locked"} \cup Calls
                      \/ /\ holder[p] = NoRequest
                         /\ (\E r \in Request : ReplicaOf[r] = p /\ pc[r] = "queued")
                              => CanAcquire(p)
    BY DEF MutexNeverStuck
  <2>1. CASE holder[p] # NoRequest
    BY <2>1 DEF TypeInv, HandlerOK, HandlerTypeOK, MutexInv, HolderInv, Working
  <2>2. CASE holder[p] = NoRequest
    BY <2>2, SomebodyIsFirst DEF MutexInv, Waiting
  <2> QED BY <2>1, <2>2
<1> QED BY <1>1, <1>2, NextMutex, TypeInvariant, PTL DEF Spec

-----------------------------------------------------------------------------
(* What a handler knows while it awaits a call.  An address resolves, for  *)
(* ever, to at most one key, so what was read from KMS stays right however *)
(* stale it is.                                                            *)

Knows(r) ==
  /\ pc[r] = "CreateAlias" => pub[r] = AddressOf[keyId[r]]
  /\ pc[r] \in {"GetPublicKey", "DeleteAlias", "ScheduleKeyDeletion"} =>
       AddressOf[keyId[r]] = req[r].addr
  /\ pc[r] \in {"DescribeForSign", "Sign", "DescribeForVerify", "Verify"} =>
       pub[r] = req[r].addr
  /\ pc[r] \in {"DescribeForVerify", "Verify"} => SignatureMatches(r, pub[r])
  /\ pc[r] = "Verify" => AddressOf[keyId[r]] = pub[r]

KnowledgeInv == \A r \in Request : Knows(r)

KeyInv == AliasFaithful /\ KnowledgeInv /\ AnswersTruthful

PendingStays == \A k \in Key : keyState[k] = "pending" => keyState'[k] = "pending"

LEMMA AwaitKey ==
  ASSUME TypeInv, KnowledgeInv, AnswersTruthful, PendingStays,
         NEW r \in Request, NEW c, NEW k, NEW a, Await(r, c, k, a),
         c = "CreateAlias" => a = AddressOf[k],
         c \in {"GetPublicKey", "DeleteAlias", "ScheduleKeyDeletion"} =>
           AddressOf[k] = req[r].addr,
         c \in {"DescribeForSign", "Sign", "DescribeForVerify", "Verify"} =>
           a = req[r].addr,
         c \in {"DescribeForVerify", "Verify"} => SignatureMatches(r, a),
         c = "Verify" => AddressOf[k] = a
  PROVE  KnowledgeInv' /\ AnswersTruthful'
<1>1. KnowledgeInv'
  BY DEF TypeInv, HandlerOK, HandlerTypeOK, KnowledgeInv, Knows, Await, SignatureMatches
<1>2. AnswersTruthful'
  BY DEF TypeInv, HandlerOK, HandlerTypeOK, AnswersTruthful, TrueOf, Await,
     SignatureMatches, PendingStays, Answer
<1> QED BY <1>1, <1>2

LEMMA ReturnKey ==
  ASSUME TypeInv, KnowledgeInv, AnswersTruthful, PendingStays,
         NEW r \in Request, NEW ans, Return(r, ans), TrueOf(r, ans)',
         ans \in Answer
  PROVE  KnowledgeInv' /\ AnswersTruthful'
<1>1. KnowledgeInv'
  BY DEF TypeInv, HandlerOK, HandlerTypeOK, KnowledgeInv, Knows, Return, Reset, SignatureMatches
<1>2. AnswersTruthful'
  BY DEF TypeInv, HandlerOK, HandlerTypeOK, AnswersTruthful, TrueOf, Return,
     SignatureMatches, PendingStays, Answer
<1> QED BY <1>1, <1>2

LEMMA FailKey ==
  ASSUME TypeInv, KnowledgeInv, AnswersTruthful, PendingStays,
         NEW r \in Request, Fail(r)
  PROVE  KnowledgeInv' /\ AnswersTruthful'
  BY ReturnKey DEF Fail, Say, TrueOf, Answer

(* A handler that stays, goes, or loses its reply claims nothing new.      *)
LEMMA QuietKey ==
  ASSUME TypeInv, KnowledgeInv, AnswersTruthful, PendingStays,
         UNCHANGED <<req, answer>>,
         \A r \in Request : \/ pc'[r] \in {"idle", "queued", "locked"}
                            \/ UNCHANGED <<pc[r], keyId[r], pub[r]>>
  PROVE  KnowledgeInv' /\ AnswersTruthful'
<1>1. KnowledgeInv'
  BY DEF KnowledgeInv, Knows, SignatureMatches
<1>2. AnswersTruthful'
  BY DEF TypeInv, HandlerOK, HandlerTypeOK, AnswersTruthful, TrueOf, PendingStays,
     SignatureMatches, Answer
<1> QED BY <1>1, <1>2

LEMMA NoReplyKey ==
  ASSUME TypeInv, KnowledgeInv, AnswersTruthful, PendingStays,
         NEW r \in Request, NoReplyFor(r)
  PROVE  KnowledgeInv' /\ AnswersTruthful'
<1>1. CASE Abandoned(r)
  BY <1>1, QuietKey DEF Abandoned, Reset
<1>2. CASE LoseReply(r)
  BY <1>2, FailKey, QuietKey DEF LoseReply, locals
<1> QED BY <1>1, <1>2 DEF NoReplyFor

LEMMA JudgeKey ==
  ASSUME TypeInv, KnowledgeInv, AnswersTruthful, PendingStays,
         NEW r \in Request, NEW k, NEW a,
         a = req[r].addr, JudgeLocally(r, k, a)
  PROVE  KnowledgeInv' /\ AnswersTruthful'
<1>1. CASE Await(r, "DescribeForVerify", k, a) /\ SignatureMatches(r, a)
  BY <1>1, AwaitKey
<1>2. ASSUME NEW v \in {"valid", "invalid"}, v = "valid" <=> SignatureMatches(r, a),
             Return(r, Say(v, NoKey))
      PROVE  KnowledgeInv' /\ AnswersTruthful'
  <2>1. TrueOf(r, Say(v, NoKey))'
    BY <1>2 DEF Return, TrueOf, Say, SignatureMatches
  <2> QED BY <1>2, <2>1, ReturnKey DEF Say, Answer
<1>3. CASE Fail(r)
  BY <1>3, FailKey
<1> QED BY <1>1, <1>2, <1>3 DEF JudgeLocally

LEMMA ConnectionKey ==
  ASSUME TypeInv, KeyInv, NEW r \in Request,
         Arrive(r) \/ Acquire(r) \/ Disconnect(r) \/ Vanish(r) \/ CallFails(r)
  PROVE  KeyInv'
<1>1. AliasFaithful' /\ PendingStays
  BY DEF KeyInv, AliasFaithful, PendingStays, Arrive, Acquire, Disconnect,
     Vanish, CallFails, kms
<1>2. CASE Arrive(r)
  <2>1. KnowledgeInv'
    BY <1>2 DEF TypeInv, HandlerOK, HandlerTypeOK, KeyInv, KnowledgeInv, Knows,
       Arrive, SignatureMatches
  <2>2. AnswersTruthful'
    BY <1>2 DEF TypeInv, HandlerOK, HandlerTypeOK, KeyInv, AnswersTruthful, TrueOf,
       Arrive, SignatureMatches, Say, kms
  <2> QED BY <1>1, <2>1, <2>2 DEF KeyInv
<1>3. CASE Acquire(r)
  BY <1>1, <1>3, QuietKey DEF Acquire, KeyInv, TypeInv, HandlerOK, HandlerTypeOK
<1>4. CASE Disconnect(r)
  BY <1>1, <1>4, QuietKey DEF Disconnect, Drop, KeyInv
<1>5. CASE Vanish(r)
  BY <1>1, <1>5, QuietKey DEF Vanish, Reset, KeyInv
<1>6. CASE CallFails(r)
  BY <1>1, <1>6, FailKey DEF CallFails, KeyInv
<1> QED BY <1>2, <1>3, <1>4, <1>5, <1>6

LEMMA CrashKey ==
  ASSUME TypeInv, KeyInv, NEW p \in Replica, Crash(p)
  PROVE  KeyInv'
<1>1. AliasFaithful' /\ PendingStays
  BY DEF KeyInv, AliasFaithful, PendingStays, Crash, kms
<1> QED BY <1>1, QuietKey DEF Crash, Drop, KeyInv

LEMMA BeginKey ==
  ASSUME TypeInv, KeyInv, NEW r \in Request, Begin(r)
  PROVE  KeyInv'
<1>1. AliasFaithful' /\ PendingStays
  BY DEF KeyInv, AliasFaithful, PendingStays, Begin, kms
<1>2. CASE Return(r, Say("rejected", NoKey))
  <2>1. TrueOf(r, Say("rejected", NoKey))'
    BY DEF TrueOf, Say
  <2> QED BY <1>1, <1>2, <2>1, ReturnKey DEF Say, Answer, KeyInv
<1>3. CASE \E c \in {"CreateKey", "DescribeForDelete", "DescribeForPublicKey"} :
             Await(r, c, NoKey, NoAddress)
  BY <1>1, <1>3, AwaitKey DEF KeyInv
<1>4. CASE Await(r, "DescribeForSign", NoKey, req[r].addr)
  BY <1>1, <1>4, AwaitKey DEF KeyInv
<1>5. CASE JudgeLocally(r, NoKey, req[r].addr)
  BY <1>1, <1>5, JudgeKey DEF KeyInv
<1> QED BY <1>2, <1>3, <1>4, <1>5 DEF Begin

(* Calls that leave the account alone: what they read is an alias, which   *)
(* AliasFaithful says is right, or the public key of the key they name.    *)
LEMMA ReadingCallKey ==
  ASSUME TypeInv, KeyInv, NEW r \in Request,
         \/ KmsRefuses(r) \/ KmsGetNewPublicKey(r) \/ KmsDescribeForPublicKey(r)
         \/ KmsGetPublicKey(r) \/ KmsDescribeForSign(r) \/ KmsSign(r)
         \/ KmsDescribeForVerify(r) \/ KmsVerify(r) \/ KmsDescribeForDelete(r)
         \/ FindsFlaw(r)
  PROVE  KeyInv'
<1>1. AliasFaithful' /\ PendingStays
  BY FlawMet DEF KeyInv, AliasFaithful, PendingStays, kms, KmsRefuses, KmsGetNewPublicKey,
     KmsDescribeForPublicKey, KmsGetPublicKey, KmsDescribeForSign, KmsSign,
     KmsDescribeForVerify, KmsVerify, KmsDescribeForDelete
<1>2. AliasFaithful /\ KnowledgeInv /\ Knows(r) /\ AnswersTruthful
  BY DEF KeyInv, KnowledgeInv
<1>3. /\ pc[r] \in Calls \ CreateCalls => req[r].addr \in Address
      /\ pc[r] \in KeyedCalls => keyId[r] \in Key
      /\ pc[r] \in PubCalls => pub[r] \in Address
      /\ pc[r] # "idle" => req[r] \in Body
  BY DEF TypeInv, HandlerOK, HandlerInv
<1> SUFFICES KnowledgeInv' /\ AnswersTruthful'
  BY <1>1 DEF KeyInv
<1>4. CASE KmsRefuses(r) \/ FindsFlaw(r)
  BY <1>1, <1>2, <1>4, FlawMet, FailKey, NoReplyKey DEF KmsRefuses, NoReplyFor
<1>5. CASE KmsGetNewPublicKey(r)
  BY <1>1, <1>2, <1>5, AwaitKey DEF KmsGetNewPublicKey
<1>6. CASE KmsDescribeForPublicKey(r) \/ KmsDescribeForSign(r) \/ KmsDescribeForDelete(r)
  <2>1. AddressOf[alias[req[r].addr]] = req[r].addr
    BY <1>2, <1>3, <1>6 DEF AliasFaithful, KmsDescribeForPublicKey, KmsDescribeForSign,
       KmsDescribeForDelete, Serves, Accepts, CreateCalls
  <2>2. CASE KmsDescribeForPublicKey(r)
    BY <1>1, <1>2, <2>1, <2>2, AwaitKey DEF KmsDescribeForPublicKey
  <2>3. CASE KmsDescribeForSign(r)
    BY <1>1, <1>2, <2>3, AwaitKey DEF KmsDescribeForSign, Serves, Knows
  <2>4. CASE KmsDescribeForDelete(r)
    BY <1>1, <1>2, <2>1, <2>4, AwaitKey DEF KmsDescribeForDelete
  <2> QED BY <1>6, <2>2, <2>3, <2>4
<1>7. CASE KmsGetPublicKey(r)
  <2>1. AddressOf[keyId[r]] = req[r].addr
    BY <1>2, <1>7 DEF KmsGetPublicKey, Serves, Knows
  <2>2. Await(r, "DescribeForSign", NoKey, AddressOf[keyId[r]]) =>
          KnowledgeInv' /\ AnswersTruthful'
    BY <1>1, <1>2, <2>1, AwaitKey
  <2>3. JudgeLocally(r, NoKey, AddressOf[keyId[r]]) =>
          KnowledgeInv' /\ AnswersTruthful'
    BY <1>1, <1>2, <2>1, JudgeKey
  <2> QED BY <1>7, <2>2, <2>3 DEF KmsGetPublicKey
<1>8. CASE KmsSign(r)
  <2>1. CASE Fail(r)
    BY <1>1, <1>2, <2>1, FailKey
  <2>2. CASE AddressOf[keyId[r]] = pub[r] /\ Return(r, Say("signed", keyId[r]))
    <3>1. PICK k \in Key : k = keyId[r] /\ AddressOf[k] = req[r].addr
      BY <1>2, <1>3, <1>8, <2>2 DEF KmsSign, Serves, Knows, KeyedCalls
    <3>2. Return(r, Say("signed", k)) /\ TrueOf(r, Say("signed", k))'
      BY <2>2, <3>1 DEF TrueOf, Say, Return
    <3> QED BY <1>1, <1>2, <3>2, ReturnKey DEF Say, Answer
  <2> QED BY <1>8, <2>1, <2>2 DEF KmsSign
<1>9. CASE KmsDescribeForVerify(r)
  <2>1. /\ pub[r] = req[r].addr /\ SignatureMatches(r, pub[r])
        /\ AddressOf[alias[pub[r]]] = pub[r]
    BY <1>2, <1>3, <1>9 DEF AliasFaithful, KmsDescribeForVerify, Serves, Accepts,
       Knows, PubCalls
  <2> QED BY <1>1, <1>2, <1>9, <2>1, AwaitKey DEF KmsDescribeForVerify
<1>10. CASE KmsVerify(r)
  <2>1. PICK v \in {"valid", "invalid"} :
          (v = "valid" <=> req[r].sig = keyId[r]) /\ Return(r, Say(v, NoKey))
    BY <1>10 DEF KmsVerify
  <2>2. /\ keyId[r] \in Key /\ AddressOf[keyId[r]] = req[r].addr
        /\ SignatureMatches(r, req[r].addr) /\ req[r] \in Body
    BY <1>2, <1>3, <1>10 DEF KmsVerify, Serves, Knows, KeyedCalls
  <2>3. req[r].sig \in Key
    BY <2>2 DEF Body, SignatureMatches
  <2>4. v = "valid"
    BY <2>1, <2>2, <2>3, KeyAssumption DEF SignatureMatches
  <2>5. TrueOf(r, Say(v, NoKey))'
    BY <2>1, <2>2, <2>4 DEF TrueOf, Say, Return, SignatureMatches
  <2> QED BY <1>1, <1>2, <2>1, <2>5, ReturnKey DEF Say, Answer
<1> QED BY <1>4, <1>5, <1>6, <1>7, <1>8, <1>9, <1>10

(* Calls that change the account.                                          *)
LEMMA WritingCallKey ==
  ASSUME TypeInv, KeyInv, NEW r \in Request,
         \/ KmsCreateKey(r) \/ KmsCreateAlias(r)
         \/ KmsDeleteAlias(r) \/ KmsScheduleKeyDeletion(r)
  PROVE  KeyInv'
<1>1. /\ AliasFaithful /\ KnowledgeInv /\ Knows(r) /\ AnswersTruthful
      /\ KmsTypeOK
      /\ pc[r] \in Calls \ CreateCalls => req[r].addr \in Address
      /\ pc[r] \in KeyedCalls => keyId[r] \in Key
      /\ pc[r] \in PubCalls => pub[r] \in Address
  BY DEF KeyInv, KnowledgeInv, TypeInv, HandlerOK, HandlerInv
<1>2. AliasFaithful' /\ PendingStays
  <2>1. CASE KmsCreateKey(r)
    BY <1>1, <2>1 DEF KmsCreateKey, AliasFaithful, PendingStays, KmsTypeOK
  <2>2. CASE KmsCreateAlias(r)
    <3>1. /\ pub[r] \in Address /\ pub[r] = AddressOf[keyId[r]]
          /\ keyState[keyId[r]] = "enabled"
      BY <1>1, <2>2 DEF KmsCreateAlias, Serves, Accepts, Knows, PubCalls
    <3> QED BY <1>1, <2>2, <3>1 DEF KmsCreateAlias, AliasFaithful, PendingStays, KmsTypeOK
  <2>3. CASE KmsDeleteAlias(r)
    BY <1>1, <2>3 DEF KmsDeleteAlias, AliasFaithful, PendingStays, KmsTypeOK
  <2>4. CASE KmsScheduleKeyDeletion(r)
    BY <1>1, <2>4 DEF KmsScheduleKeyDeletion, AliasFaithful, PendingStays, KmsTypeOK
  <2> QED BY <2>1, <2>2, <2>3, <2>4
<1>3. NoReplyFor(r) => KnowledgeInv' /\ AnswersTruthful'
  BY <1>1, <1>2, NoReplyKey
<1> SUFFICES KnowledgeInv' /\ AnswersTruthful'
  BY <1>2 DEF KeyInv
<1>4. CASE KmsCreateKey(r)
  BY <1>1, <1>2, <1>3, <1>4, AwaitKey DEF KmsCreateKey
<1>5. CASE KmsCreateAlias(r)
  <2>1. CASE Return(r, Say("created", keyId[r]))
    <3>1. PICK k \in Key : k = keyId[r]
      BY <1>1, <1>5 DEF KmsCreateAlias, Serves, KeyedCalls
    <3>2. TrueOf(r, Say("created", k))'
      BY DEF TrueOf, Say
    <3> QED BY <1>1, <1>2, <2>1, <3>1, <3>2, ReturnKey DEF Say, Answer
  <2> QED BY <1>3, <1>5, <2>1 DEF KmsCreateAlias
<1>6. CASE KmsDeleteAlias(r)
  <2>1. AddressOf[keyId[r]] = req[r].addr
    BY <1>1, <1>6 DEF KmsDeleteAlias, Serves, Knows
  <2> QED BY <1>1, <1>2, <1>3, <1>6, <2>1, AwaitKey DEF KmsDeleteAlias
<1>7. CASE KmsScheduleKeyDeletion(r)
  <2>1. CASE Return(r, Say("deleted", keyId[r]))
    <3>1. PICK k \in Key : k = keyId[r] /\ AddressOf[k] = req[r].addr
      BY <1>1, <1>7 DEF KmsScheduleKeyDeletion, Serves, Knows, KeyedCalls
    <3>2. TrueOf(r, Say("deleted", k))'
      BY <1>1, <1>7, <2>1, <3>1
      DEF TrueOf, Say, Return, KmsScheduleKeyDeletion, KmsTypeOK
    <3> QED BY <1>1, <1>2, <2>1, <3>1, <3>2, ReturnKey DEF Say, Answer
  <2> QED BY <1>3, <1>7, <2>1 DEF KmsScheduleKeyDeletion
<1> QED BY <1>4, <1>5, <1>6, <1>7

LEMMA NextKey == TypeInv /\ KeyInv /\ [Next]_vars => KeyInv'
<1>1. CASE TypeInv /\ KeyInv /\ UNCHANGED vars
  BY <1>1, QuietKey DEF vars, KeyInv, AliasFaithful, PendingStays
<1>2. CASE TypeInv /\ KeyInv /\ Next
  BY <1>2, ConnectionKey, CrashKey, BeginKey, ReadingCallKey, WritingCallKey
  DEF Next, KmsServes
<1> QED BY <1>1, <1>2

THEOREM KeyInvariant == Spec => []KeyInv
<1>1. Init => KeyInv
  BY DEF Init, KeyInv, AliasFaithful, KnowledgeInv, Knows, AnswersTruthful, TrueOf, Say
<1> QED BY <1>1, NextKey, TypeInvariant, PTL DEF Spec

(* An alias names the key its address was derived from, and one that has   *)
(* been made: create_key registers the address of the key it just made.    *)
THEOREM AliasesFaithful == Spec => []AliasFaithful
<1>1. KeyInv => AliasFaithful
  BY DEF KeyInv
<1> QED BY <1>1, KeyInvariant, PTL

(* What a handler reports of a deletion, a signature or a verification is  *)
(* true, and stays true, whatever other handlers did between its calls.    *)
THEOREM AnswersAreTruthful == Spec => []AnswersTruthful
<1>1. KeyInv => AnswersTruthful
  BY DEF KeyInv
<1> QED BY <1>1, KeyInvariant, PTL

-----------------------------------------------------------------------------
(* Stranded keys.  Only a creation names a key, and only the key it made;  *)
(* only a deletion retires one, and only a key that an alias led it to.    *)

Naming == {"GetNewPublicKey", "CreateAlias", "ScheduleKeyDeletion"}

Stranded(k) ==
  /\ keyState[k] = "enabled"
  /\ alias[AddressOf[k]] # k
  /\ \A r \in Request : ~Owns(r, k)

(* A step after which no handler owns k that did not own it before.        *)
Gains(k) == \E r \in Request : Owns(r, k)' /\ ~Owns(r, k)

LEMMA AwaitGains ==
  ASSUME TypeInv, NEW r \in Request, NEW c, NEW k, NEW a, NEW j \in Key,
         Await(r, c, k, a), c \notin Naming \/ k # j
  PROVE  ~Gains(j)
  BY DEF TypeInv, HandlerOK, HandlerTypeOK, Await, Gains, Owns, Naming

LEMMA ReturnGains ==
  ASSUME TypeInv, NEW r \in Request, NEW ans, NEW j \in Key, Return(r, ans)
  PROVE  ~Gains(j)
  BY DEF TypeInv, HandlerOK, HandlerTypeOK, Return, Reset, Gains, Owns

LEMMA QuietGains ==
  ASSUME NEW j \in Key,
         \A r \in Request : \/ pc'[r] \in {"idle", "queued", "locked"}
                            \/ UNCHANGED <<pc[r], keyId[r]>>
  PROVE  ~Gains(j)
  BY DEF Gains, Owns

LEMMA NoReplyGains ==
  ASSUME TypeInv, NEW r \in Request, NEW j \in Key, NoReplyFor(r)
  PROVE  ~Gains(j)
<1>1. CASE LoseReply(r)
  BY <1>1, ReturnGains, QuietGains DEF LoseReply, Fail, locals
<1>2. CASE Abandoned(r)
  BY <1>2, QuietGains DEF Abandoned, Reset
<1> QED BY <1>1, <1>2 DEF NoReplyFor

LEMMA JudgeGains ==
  ASSUME TypeInv, NEW r \in Request, NEW k, NEW a, NEW j \in Key,
         JudgeLocally(r, k, a)
  PROVE  ~Gains(j)
  BY AwaitGains, ReturnGains DEF JudgeLocally, Fail, Naming

LEMMA StrandedIdle ==
  ASSUME TypeInv, NEW j \in Key, Stranded(j), UNCHANGED kms, ~Gains(j)
  PROVE  Stranded(j)'
  BY DEF Stranded, Gains, kms

LEMMA StrandedKms ==
  ASSUME TypeInv, KeyInv, NEW r \in Request, KmsServes(r), NEW j \in Key, Stranded(j)
  PROVE  Stranded(j)'
<1>1. /\ AliasFaithful /\ Knows(r) /\ KmsTypeOK
      /\ pc[r] \in Calls \ CreateCalls => req[r].addr \in Address
      /\ pc[r] \in KeyedCalls => keyId[r] \in Key
      /\ pc[r] \in PubCalls => pub[r] \in Address
      /\ ~Owns(r, j)
  BY DEF KeyInv, KnowledgeInv, TypeInv, HandlerOK, HandlerInv, Stranded
<1>2. CASE KmsRefuses(r) \/ FindsFlaw(r)
  BY <1>2, FlawMet, ReturnGains, NoReplyGains, StrandedIdle
  DEF KmsRefuses, Fail, NoReplyFor
<1>3. CASE KmsCreateKey(r)
  <2>1. PICK k \in Key :
          /\ keyState[k] = "absent"
          /\ keyState' = [keyState EXCEPT ![k] = "enabled"]
          /\ Await(r, "GetNewPublicKey", k, NoAddress) \/ NoReplyFor(r)
    BY <1>3 DEF KmsCreateKey
  <2>2. k # j
    BY <2>1 DEF Stranded
  <2>3. ~Gains(j)
    BY <2>1, <2>2, AwaitGains, NoReplyGains
  <2> QED BY <1>1, <1>3, <2>1, <2>2, <2>3 DEF KmsCreateKey, Stranded, Gains, KmsTypeOK
<1>4. CASE KmsGetNewPublicKey(r)
  <2>1. keyId[r] # j
    BY <1>1, <1>4 DEF KmsGetNewPublicKey, Serves, Owns
  <2> QED BY <1>4, <2>1, AwaitGains, StrandedIdle DEF KmsGetNewPublicKey
<1>5. CASE KmsCreateAlias(r)
  <2>1. keyId[r] # j /\ pub[r] = AddressOf[keyId[r]] /\ keyId[r] \in Key
    BY <1>1, <1>5 DEF KmsCreateAlias, Serves, Owns, Knows, KeyedCalls
  <2>2. ~Gains(j)
    BY <1>5, ReturnGains, NoReplyGains DEF KmsCreateAlias
  <2> QED BY <1>1, <1>5, <2>1, <2>2, KeyAssumption
          DEF KmsCreateAlias, Stranded, Gains, KmsTypeOK
<1>6. CASE \/ KmsDescribeForPublicKey(r) \/ KmsDescribeForSign(r)
           \/ KmsDescribeForVerify(r) \/ KmsDescribeForDelete(r)
  BY <1>6, AwaitGains, StrandedIdle DEF KmsDescribeForPublicKey, KmsDescribeForSign,
     KmsDescribeForVerify, KmsDescribeForDelete, Naming
<1>7. CASE KmsGetPublicKey(r)
  BY <1>7, AwaitGains, JudgeGains, StrandedIdle DEF KmsGetPublicKey, Naming
<1>8. CASE KmsSign(r) \/ KmsVerify(r)
  BY <1>8, ReturnGains, StrandedIdle DEF KmsSign, KmsVerify, Fail
<1>9. CASE KmsDeleteAlias(r)
  <2>1. AddressOf[alias[req[r].addr]] = AddressOf[keyId[r]] /\ keyId[r] \in Key
    BY <1>1, <1>9 DEF KmsDeleteAlias, Serves, Accepts, Knows, AliasFaithful,
       KeyedCalls, CreateCalls
  <2>2. alias[AddressOf[keyId[r]]] = keyId[r]
    BY <1>1, <1>9, <2>1, KeyAssumption DEF KmsDeleteAlias, Serves, Accepts, Knows,
       KmsTypeOK, CreateCalls
  <2>3. keyId[r] # j
    BY <2>2 DEF Stranded
  <2>4. ~Gains(j)
    BY <1>9, <2>3, AwaitGains, NoReplyGains DEF KmsDeleteAlias
  <2> QED BY <1>1, <1>9, <2>4, KeyAssumption DEF KmsDeleteAlias, Stranded, Gains, KmsTypeOK
<1>10. CASE KmsScheduleKeyDeletion(r)
  <2>1. keyId[r] # j
    BY <1>1, <1>10 DEF KmsScheduleKeyDeletion, Serves, Owns
  <2>2. ~Gains(j)
    BY <1>10, ReturnGains, NoReplyGains DEF KmsScheduleKeyDeletion
  <2> QED BY <1>1, <1>10, <2>1, <2>2 DEF KmsScheduleKeyDeletion, Stranded, Gains, KmsTypeOK
<1> QED BY <1>2, <1>3, <1>4, <1>5, <1>6, <1>7, <1>8, <1>9, <1>10 DEF KmsServes

LEMMA NextStranded ==
  ASSUME TypeInv, KeyInv, [Next]_vars, NEW j \in Key, Stranded(j)
  PROVE  Stranded(j)'
<1>1. CASE UNCHANGED vars
  BY <1>1 DEF vars, Stranded, Owns
<1>2. ASSUME NEW r \in Request, Arrive(r) \/ Acquire(r) PROVE Stranded(j)'
  BY <1>2, StrandedIdle, QuietGains
  DEF Arrive, Acquire, TypeInv, HandlerOK, HandlerTypeOK
<1>3. ASSUME NEW r \in Request, Begin(r) PROVE Stranded(j)'
  BY <1>3, StrandedIdle, ReturnGains, AwaitGains, JudgeGains DEF Begin, Naming
<1>4. ASSUME NEW r \in Request, Disconnect(r) PROVE Stranded(j)'
  BY <1>4, StrandedIdle, QuietGains DEF Disconnect, Drop
<1>5. ASSUME NEW p \in Replica, Crash(p) PROVE Stranded(j)'
  BY <1>5, StrandedIdle, QuietGains DEF Crash, Drop
<1>6. ASSUME NEW r \in Request, Vanish(r) PROVE Stranded(j)'
  BY <1>6, StrandedIdle, QuietGains DEF Vanish, Reset
<1>7. ASSUME NEW r \in Request, CallFails(r) PROVE Stranded(j)'
  BY <1>7, StrandedIdle, ReturnGains DEF CallFails, Fail
<1> QED BY <1>1, <1>2, <1>3, <1>4, <1>5, <1>6, <1>7, StrandedKms DEF Next

(* A key stranded by a creation or a deletion that stopped half-way is     *)
(* stranded for good: no request, retry or stray call reaches it again.    *)
THEOREM OrphansStay == Spec => OrphanIsForever
<1>1. TypeInv /\ KeyInv /\ [Next]_vars => Orphans \subseteq Orphans'
  <2> SUFFICES ASSUME TypeInv, KeyInv, [Next]_vars, NEW j \in Key, j \in Orphans
               PROVE  j \in Orphans'
    BY DEF Orphans
  <2>1. Stranded(j)'
    BY NextStranded DEF Orphans, Stranded
  <2> QED BY <2>1 DEF Orphans, Stranded
<1> QED BY <1>1, TypeInvariant, KeyInvariant, PTL DEF Spec, OrphanIsForever

-----------------------------------------------------------------------------
(* How many keys are stranded.  A step that costs a key its owner is paid  *)
(* for by the fault it is, or by the fault that made its call a stray one. *)

Strays == { r \in Request : ~alive[r] }

PaidFor == Cardinality(Orphans) + Cardinality(Strays) <= faults

OrphanInv == IsFiniteSet(Orphans) /\ IsFiniteSet(Strays) /\ PaidFor

Harmless == Orphans' \subseteq Orphans /\ Strays' \subseteq Strays /\ faults' = faults

Strands ==
  \E k : /\ Orphans' \subseteq Orphans \cup {k}
         /\ Strays' \subseteq Strays /\ faults' = faults + 1

GoesAstray ==
  \E r : /\ Orphans' \subseteq Orphans
         /\ Strays' \subseteq Strays \cup {r} /\ faults' = faults + 1

Lands ==
  \E k : \E r \in Strays :
    /\ Orphans' \subseteq Orphans \cup {k}
    /\ Strays' \subseteq Strays \ {r} /\ faults' = faults

Accounted == Harmless \/ Strands \/ GoesAstray \/ Lands

LEMMA SubsetSize ==
  ASSUME NEW S, IsFiniteSet(S), NEW T, T \subseteq S
  PROVE  /\ IsFiniteSet(T) /\ Cardinality(T) <= Cardinality(S)
         /\ Cardinality(T) \in Nat /\ Cardinality(S) \in Nat
  BY FS_Subset, FS_CardinalityType

LEMMA PlusOneSize ==
  ASSUME NEW S, IsFiniteSet(S), NEW e, NEW T, T \subseteq S \cup {e}
  PROVE  /\ IsFiniteSet(T) /\ Cardinality(T) <= Cardinality(S) + 1
         /\ Cardinality(T) \in Nat /\ Cardinality(S) \in Nat
<1>1. /\ IsFiniteSet(S \cup {e}) /\ Cardinality(S) \in Nat
      /\ \/ Cardinality(S \cup {e}) = Cardinality(S) + 1
         \/ Cardinality(S \cup {e}) = Cardinality(S)
  BY FS_AddElement, FS_CardinalityType
<1>2. /\ IsFiniteSet(T) /\ Cardinality(T) \in Nat
      /\ Cardinality(T) <= Cardinality(S \cup {e})
  BY <1>1, SubsetSize
<1> QED BY <1>1, <1>2

LEMMA AccountedInv == OrphanInv /\ faults \in Nat /\ Accounted => OrphanInv'
<1> SUFFICES ASSUME OrphanInv, faults \in Nat, Accounted PROVE OrphanInv'
  OBVIOUS
<1>1. IsFiniteSet(Orphans) /\ IsFiniteSet(Strays) /\ PaidFor
  BY DEF OrphanInv
<1>2. CASE Harmless
  <2>1. /\ IsFiniteSet(Orphans') /\ Cardinality(Orphans') <= Cardinality(Orphans)
        /\ Cardinality(Orphans') \in Nat /\ Cardinality(Orphans) \in Nat
    BY <1>1, <1>2, SubsetSize DEF Harmless
  <2>2. /\ IsFiniteSet(Strays') /\ Cardinality(Strays') <= Cardinality(Strays)
        /\ Cardinality(Strays') \in Nat /\ Cardinality(Strays) \in Nat
    BY <1>1, <1>2, SubsetSize DEF Harmless
  <2> QED BY <1>1, <1>2, <2>1, <2>2 DEF OrphanInv, PaidFor, Harmless
<1>3. CASE Strands
  <2>1. /\ IsFiniteSet(Orphans') /\ Cardinality(Orphans') <= Cardinality(Orphans) + 1
        /\ Cardinality(Orphans') \in Nat /\ Cardinality(Orphans) \in Nat
    BY <1>1, <1>3, PlusOneSize DEF Strands
  <2>2. /\ IsFiniteSet(Strays') /\ Cardinality(Strays') <= Cardinality(Strays)
        /\ Cardinality(Strays') \in Nat /\ Cardinality(Strays) \in Nat
    BY <1>1, <1>3, SubsetSize DEF Strands
  <2> QED BY <1>1, <1>3, <2>1, <2>2 DEF OrphanInv, PaidFor, Strands
<1>4. CASE GoesAstray
  <2>1. /\ IsFiniteSet(Orphans') /\ Cardinality(Orphans') <= Cardinality(Orphans)
        /\ Cardinality(Orphans') \in Nat /\ Cardinality(Orphans) \in Nat
    BY <1>1, <1>4, SubsetSize DEF GoesAstray
  <2>2. /\ IsFiniteSet(Strays') /\ Cardinality(Strays') <= Cardinality(Strays) + 1
        /\ Cardinality(Strays') \in Nat /\ Cardinality(Strays) \in Nat
    BY <1>1, <1>4, PlusOneSize DEF GoesAstray
  <2> QED BY <1>1, <1>4, <2>1, <2>2 DEF OrphanInv, PaidFor, GoesAstray
<1>5. CASE Lands
  <2>1. /\ IsFiniteSet(Orphans') /\ Cardinality(Orphans') <= Cardinality(Orphans) + 1
        /\ Cardinality(Orphans') \in Nat /\ Cardinality(Orphans) \in Nat
    BY <1>1, <1>5, PlusOneSize DEF Lands
  <2>2. PICK r \in Strays : Strays' \subseteq Strays \ {r}
    BY <1>5 DEF Lands
  <2>3. /\ IsFiniteSet(Strays \ {r})
        /\ Cardinality(Strays \ {r}) = Cardinality(Strays) - 1
    BY <1>1, FS_RemoveElement
  <2>4. /\ IsFiniteSet(Strays') /\ Cardinality(Strays') <= Cardinality(Strays \ {r})
        /\ Cardinality(Strays') \in Nat /\ Cardinality(Strays \ {r}) \in Nat
    BY <2>2, <2>3, SubsetSize
  <2>5. Cardinality(Strays) \in Nat
    BY <1>1, FS_CardinalityType
  <2>6. faults' = faults
    BY <1>5 DEF Lands
  <2> QED BY <1>1, <2>1, <2>3, <2>4, <2>5, <2>6 DEF OrphanInv, PaidFor
<1> QED BY <1>2, <1>3, <1>4, <1>5 DEF Accounted

-----------------------------------------------------------------------------
(* What a step of one handler does to the owners and the stray calls.      *)

OthersStay(r) == \A s \in Request \ {r} : UNCHANGED <<pc[s], keyId[s]>>

LEMMA AwaitMoves ==
  ASSUME TypeInv, NEW r \in Request, NEW c, NEW k, NEW a, Await(r, c, k, a)
  PROVE  /\ OthersStay(r) /\ pc'[r] = c /\ keyId'[r] = k
         /\ Strays' \subseteq Strays /\ faults' = faults
  BY DEF TypeInv, HandlerOK, HandlerTypeOK, Await, OthersStay, Strays

LEMMA ReturnMoves ==
  ASSUME TypeInv, NEW r \in Request, NEW ans, Return(r, ans)
  PROVE  OthersStay(r) /\ pc'[r] = "idle" /\ Strays' \subseteq Strays
  BY DEF TypeInv, HandlerOK, HandlerTypeOK, Return, Reset, OthersStay, Strays

LEMMA JudgeMoves ==
  ASSUME TypeInv, NEW r \in Request, NEW k, NEW a, JudgeLocally(r, k, a)
  PROVE  OthersStay(r) /\ Strays' \subseteq Strays /\ faults' = faults
  BY AwaitMoves, ReturnMoves DEF JudgeLocally, Fail

LEMMA NoReplyMoves ==
  ASSUME TypeInv, NEW r \in Request, NoReplyFor(r)
  PROVE  /\ OthersStay(r)
         /\ \/ Strays' \subseteq Strays /\ faults' = faults + 1
            \/ r \in Strays /\ Strays' \subseteq Strays \ {r} /\ faults' = faults
<1>1. CASE LoseReply(r)
  BY <1>1, ReturnMoves DEF LoseReply, Fail, Fault, locals, OthersStay, Strays
<1>2. CASE Abandoned(r)
  BY <1>2 DEF TypeInv, HandlerOK, HandlerTypeOK, Abandoned, Reset, OthersStay, Strays
<1> QED BY <1>1, <1>2 DEF NoReplyFor

LEMMA NoReplyAccounted ==
  ASSUME TypeInv, NEW r \in Request, NoReplyFor(r), NEW k,
         Orphans' \subseteq Orphans \cup {k}
  PROVE  Accounted
  BY NoReplyMoves DEF Accounted, Strands, Lands

(* The only key that can lose its owner is the one r owns; the only others *)
(* to be stranded are those whose state or alias the step changes.         *)
LEMMA OnlyOrphan ==
  ASSUME NEW r \in Request, OthersStay(r), NEW k,
         \A j \in Key \ {k} : /\ UNCHANGED <<keyState[j], alias[AddressOf[j]]>>
                               /\ ~Owns(r, j)
  PROVE  Orphans' \subseteq Orphans \cup {k}
  BY DEF OthersStay, Orphans, Owns

LEMMA NoOrphan ==
  ASSUME NEW r \in Request, OthersStay(r), UNCHANGED kms, pc[r] \notin Naming
  PROVE  Orphans' \subseteq Orphans
  BY DEF OthersStay, Orphans, Owns, Naming, kms

LEMMA OwnOrphan ==
  ASSUME NEW r \in Request, OthersStay(r), UNCHANGED kms
  PROVE  Orphans' \subseteq Orphans \cup {keyId[r]}
  BY DEF OthersStay, Orphans, Owns, kms

-----------------------------------------------------------------------------
(* Each step is accounted for.                                             *)

LEMMA ConnectionAccounted ==
  ASSUME TypeInv, NEW r \in Request,
         Arrive(r) \/ Acquire(r) \/ Begin(r) \/ Vanish(r) \/ CallFails(r)
  PROVE  Accounted
<1>1. CASE Arrive(r) \/ Acquire(r)
  <2>1. OthersStay(r) /\ Strays' = Strays /\ UNCHANGED kms /\ pc[r] \notin Naming
    BY <1>1 DEF TypeInv, HandlerOK, HandlerTypeOK, Arrive, Acquire, OthersStay,
       Strays, Naming
  <2> QED BY <1>1, <2>1, NoOrphan DEF Arrive, Acquire, Accounted, Harmless
<1>2. CASE Begin(r)
  <2>1. OthersStay(r) /\ Strays' \subseteq Strays /\ faults' = faults
    BY <1>2, AwaitMoves, ReturnMoves, JudgeMoves DEF Begin
  <2>2. UNCHANGED kms /\ pc[r] \notin Naming
    BY <1>2 DEF Begin, Naming
  <2> QED BY <2>1, <2>2, NoOrphan DEF Accounted, Harmless
<1>3. CASE Vanish(r)
  <2>1. /\ OthersStay(r) /\ r \in Strays /\ Strays' \subseteq Strays \ {r}
        /\ UNCHANGED kms /\ faults' = faults
    BY <1>3 DEF TypeInv, HandlerOK, HandlerTypeOK, Vanish, Reset, OthersStay, Strays
  <2> QED BY <2>1, OwnOrphan DEF Accounted, Lands
<1>4. CASE CallFails(r)
  <2>1. OthersStay(r) /\ Strays' \subseteq Strays
    BY <1>4, ReturnMoves DEF CallFails, Fail
  <2> QED BY <1>4, <2>1, OwnOrphan DEF CallFails, Fault, Accounted, Strands
<1> QED BY <1>1, <1>2, <1>3, <1>4

(* Of the handlers that are dropped together one at most is at a call: it  *)
(* leaves a key without an owner, or a call without a handler.             *)
LEMMA DropAccounted ==
  ASSUME TypeInv, NEW R \in SUBSET Request, NEW w \in R,
         \A r \in R \ {w} : pc[r] \notin Calls,
         Drop(R), UNCHANGED kms, faults' = faults + 1
  PROVE  Accounted
<1>1. \A r \in Request \ {w} : \A k \in Key : Owns(r, k)' <=> Owns(r, k)
  BY DEF TypeInv, HandlerOK, HandlerTypeOK, Drop, Owns
<1>2. CASE pc[w] \in Mutating
  <2>1. Strays' \subseteq Strays \cup {w}
    BY DEF TypeInv, HandlerOK, HandlerTypeOK, Drop, Strays
  <2>2. \A k \in Key : Owns(w, k)' <=> Owns(w, k)
    BY <1>2 DEF TypeInv, HandlerOK, HandlerTypeOK, Drop, Owns
  <2>3. Orphans' \subseteq Orphans
    BY <1>1, <2>2 DEF Orphans, kms
  <2> QED BY <2>1, <2>3 DEF Accounted, GoesAstray
<1>3. CASE pc[w] \notin Mutating
  <2>1. Strays' \subseteq Strays
    BY <1>3 DEF TypeInv, HandlerOK, HandlerTypeOK, Drop, Strays
  <2>2. Orphans' \subseteq Orphans \cup {keyId[w]}
    BY <1>1 DEF Orphans, Owns, kms
  <2> QED BY <2>1, <2>2 DEF Accounted, Strands
<1> QED BY <1>2, <1>3

LEMMA LeavingAccounted ==
  ASSUME TypeInv, LockInv,
         (\E r \in Request : Disconnect(r)) \/ (\E p \in Replica : Crash(p))
  PROVE  Accounted
<1>1. ASSUME NEW r \in Request, Disconnect(r) PROVE Accounted
  <2>1. CASE pc[r] \in Calls
    BY <1>1, <2>1, DropAccounted DEF Disconnect, Fault
  <2>2. CASE pc[r] \notin Calls
    <3>1. OthersStay(r) /\ Strays' \subseteq Strays
      BY <1>1, <2>2 DEF TypeInv, HandlerOK, HandlerTypeOK, Disconnect, Drop, OthersStay, Strays
    <3>2. UNCHANGED kms /\ faults' = faults /\ pc[r] \notin Naming
      BY <1>1, <2>2 DEF Disconnect, Naming
    <3> QED BY <3>1, <3>2, NoOrphan DEF Accounted, Harmless
  <2> QED BY <2>1, <2>2
<1>2. ASSUME NEW p \in Replica, Crash(p) PROVE Accounted
  <2> DEFINE R == { r \in Request : ReplicaOf[r] = p /\ alive[r] /\ pc[r] # "idle" }
  <2>1. R # {} /\ Drop(R) /\ faults' = faults + 1 /\ UNCHANGED kms
    BY <1>2 DEF Crash, Fault
  <2>2. \A r, s \in R : pc[r] \in Calls /\ pc[s] \in Calls => r = s
    BY DEF LockInv, Working
  <2>3. PICK w \in R : \A r \in R \ {w} : pc[r] \notin Calls
    BY <2>1, <2>2
  <2> QED BY <2>1, <2>3, DropAccounted
<1> QED BY <1>1, <1>2

LEMMA KmsAccounted ==
  ASSUME TypeInv, KeyInv, NEW r \in Request, KmsServes(r)
  PROVE  Accounted
<1>1. /\ AliasFaithful /\ Knows(r) /\ KmsTypeOK
      /\ pc[r] \in Calls \ CreateCalls => req[r].addr \in Address
      /\ pc[r] \in KeyedCalls => keyId[r] \in Key
      /\ pc[r] \in PubCalls => pub[r] \in Address
  BY DEF KeyInv, KnowledgeInv, TypeInv, HandlerOK, HandlerInv
<1>2. CASE KmsRefuses(r)
  <2>1. CASE Abandoned(r)
    BY <1>2, <2>1, OwnOrphan, NoReplyMoves, NoReplyAccounted DEF KmsRefuses, NoReplyFor
  <2>2. CASE Fail(r) /\ faults' = faults
    <3>1. OthersStay(r) /\ Strays' \subseteq Strays /\ UNCHANGED kms
      BY <1>2, <2>2, ReturnMoves DEF Fail, KmsRefuses
    <3>2. ASSUME pc[r] \in Naming PROVE keyId[r] \notin Orphans'
      <4>1. CASE keyState[keyId[r]] # "enabled"
        BY <3>1, <4>1 DEF Orphans, kms
      <4>2. CASE keyState[keyId[r]] = "enabled"
        <5>1. pc[r] = "CreateAlias" /\ alias[pub[r]] # NoKey
          BY <1>2, <3>2, <4>2 DEF KmsRefuses, Accepts, Naming
        <5>2. alias[pub[r]] = keyId[r] /\ pub[r] = AddressOf[keyId[r]]
          BY <1>1, <5>1, KeyAssumption
          DEF AliasFaithful, Knows, KeyedCalls, PubCalls, KmsTypeOK
        <5> QED BY <3>1, <5>2 DEF Orphans, kms
      <4> QED BY <4>1, <4>2
    <3>3. Orphans' \subseteq Orphans
      BY <3>1, <3>2, NoOrphan, OwnOrphan
    <3> QED BY <2>2, <3>1, <3>3 DEF Accounted, Harmless
  <2> QED BY <1>2, <2>1, <2>2 DEF KmsRefuses
<1>3. CASE KmsCreateKey(r)
  <2>1. PICK k \in Key :
          /\ keyState' = [keyState EXCEPT ![k] = "enabled"]
          /\ Await(r, "GetNewPublicKey", k, NoAddress) \/ NoReplyFor(r)
    BY <1>3 DEF KmsCreateKey
  <2>2. OthersStay(r)
    BY <2>1, AwaitMoves, NoReplyMoves
  <2>3. Orphans' \subseteq Orphans \cup {k}
    <3>1. \A j \in Key \ {k} : /\ UNCHANGED <<keyState[j], alias[AddressOf[j]]>>
                                /\ ~Owns(r, j)
      BY <1>1, <1>3, <2>1 DEF KmsCreateKey, Serves, Owns, KmsTypeOK
    <3> QED BY <2>2, <3>1, OnlyOrphan
  <2>4. CASE Await(r, "GetNewPublicKey", k, NoAddress)
    <3>1. Owns(r, k)' /\ Strays' \subseteq Strays /\ faults' = faults
      BY <2>4, AwaitMoves DEF Owns
    <3> QED BY <2>3, <3>1 DEF Orphans, Accounted, Harmless
  <2> QED BY <2>1, <2>3, <2>4, NoReplyAccounted
<1>4. CASE KmsGetNewPublicKey(r)
  <2>1. /\ OthersStay(r) /\ Strays' \subseteq Strays /\ faults' = faults
        /\ pc'[r] = "CreateAlias" /\ keyId'[r] = keyId[r] /\ UNCHANGED kms
    BY <1>4, AwaitMoves DEF KmsGetNewPublicKey
  <2>2. Orphans' \subseteq Orphans
    BY <2>1, OwnOrphan DEF Orphans, Owns
  <2> QED BY <2>1, <2>2 DEF Accounted, Harmless
<1>5. CASE KmsCreateAlias(r)
  <2>1. keyId[r] \in Key /\ pub[r] = AddressOf[keyId[r]] /\ alias[pub[r]] = NoKey
    BY <1>1, <1>5 DEF KmsCreateAlias, Serves, Accepts, Knows, KeyedCalls
  <2>2. OthersStay(r)
    BY <1>5, ReturnMoves, NoReplyMoves DEF KmsCreateAlias
  <2>3. Orphans' \subseteq Orphans \cup {keyId[r]}
    <3>1. \A j \in Key \ {keyId[r]} : /\ UNCHANGED <<keyState[j], alias[AddressOf[j]]>>
                                       /\ ~Owns(r, j)
      BY <1>1, <1>5, <2>1, KeyAssumption DEF KmsCreateAlias, Owns, KmsTypeOK
    <3> QED BY <2>2, <3>1, OnlyOrphan
  <2>4. Orphans' \subseteq Orphans
    BY <1>1, <1>5, <2>1, <2>3, KeyAssumption DEF KmsCreateAlias, Orphans, KmsTypeOK
  <2>5. CASE NoReplyFor(r)
    BY <2>3, <2>5, NoReplyAccounted
  <2>6. CASE Return(r, Say("created", keyId[r])) /\ faults' = faults
    BY <2>4, <2>6, ReturnMoves DEF Accounted, Harmless
  <2> QED BY <1>5, <2>5, <2>6 DEF KmsCreateAlias
<1>6. CASE \/ KmsDescribeForPublicKey(r) \/ KmsDescribeForSign(r)
           \/ KmsDescribeForVerify(r) \/ KmsDescribeForDelete(r)
           \/ KmsGetPublicKey(r) \/ KmsSign(r) \/ KmsVerify(r) \/ FindsFlaw(r)
  <2>1. OthersStay(r) /\ Strays' \subseteq Strays /\ faults' = faults
    BY <1>6, FlawMet, AwaitMoves, ReturnMoves, JudgeMoves
    DEF KmsDescribeForPublicKey, KmsDescribeForSign, KmsDescribeForVerify,
        KmsDescribeForDelete, KmsGetPublicKey, KmsSign, KmsVerify, Fail
  <2>2. UNCHANGED kms /\ pc[r] \notin Naming
    BY <1>6, FlawMet DEF KmsDescribeForPublicKey, KmsDescribeForSign, KmsDescribeForVerify,
       KmsDescribeForDelete, KmsGetPublicKey, KmsSign, KmsVerify, Serves, Naming
  <2> QED BY <2>1, <2>2, NoOrphan DEF Accounted, Harmless
<1>7. CASE KmsDeleteAlias(r)
  <2>1. /\ keyId[r] \in Key /\ req[r].addr \in Address
        /\ AddressOf[keyId[r]] = req[r].addr
    BY <1>1, <1>7 DEF KmsDeleteAlias, Serves, Knows, KeyedCalls, CreateCalls
  <2>2. OthersStay(r)
    BY <1>7, AwaitMoves, NoReplyMoves DEF KmsDeleteAlias
  <2>3. Orphans' \subseteq Orphans \cup {keyId[r]}
    <3>1. \A j \in Key \ {keyId[r]} : /\ UNCHANGED <<keyState[j], alias[AddressOf[j]]>>
                                       /\ ~Owns(r, j)
      BY <1>1, <1>7, <2>1, KeyAssumption DEF KmsDeleteAlias, Owns, KmsTypeOK
    <3> QED BY <2>2, <3>1, OnlyOrphan
  <2>4. CASE NoReplyFor(r)
    BY <2>3, <2>4, NoReplyAccounted
  <2>5. CASE Await(r, "ScheduleKeyDeletion", keyId[r], NoAddress)
    <3>1. /\ pc'[r] = "ScheduleKeyDeletion" /\ keyId'[r] = keyId[r]
          /\ Strays' \subseteq Strays /\ faults' = faults
      BY <2>5, AwaitMoves
    <3>2. keyId[r] \notin Orphans'
      BY <3>1 DEF Orphans, Owns
    <3> QED BY <2>3, <3>1, <3>2 DEF Accounted, Harmless
  <2> QED BY <1>7, <2>4, <2>5 DEF KmsDeleteAlias
<1>8. CASE KmsScheduleKeyDeletion(r)
  <2>1. keyId[r] \in Key
    BY <1>1, <1>8 DEF KmsScheduleKeyDeletion, Serves, KeyedCalls
  <2>2. OthersStay(r)
    BY <1>8, ReturnMoves, NoReplyMoves DEF KmsScheduleKeyDeletion
  <2>3. Orphans' \subseteq Orphans \cup {keyId[r]}
    <3>1. \A j \in Key \ {keyId[r]} : /\ UNCHANGED <<keyState[j], alias[AddressOf[j]]>>
                                       /\ ~Owns(r, j)
      BY <1>1, <1>8, <2>1 DEF KmsScheduleKeyDeletion, Owns, KmsTypeOK
    <3> QED BY <2>2, <3>1, OnlyOrphan
  <2>4. Orphans' \subseteq Orphans
    BY <1>1, <1>8, <2>1, <2>3 DEF KmsScheduleKeyDeletion, Orphans, KmsTypeOK
  <2>5. CASE NoReplyFor(r)
    BY <2>3, <2>5, NoReplyAccounted
  <2>6. CASE Return(r, Say("deleted", keyId[r])) /\ faults' = faults
    <3>1. Strays' \subseteq Strays
      BY <2>6, ReturnMoves
    <3> QED BY <2>4, <2>6, <3>1 DEF Accounted, Harmless
  <2> QED BY <1>8, <2>5, <2>6 DEF KmsScheduleKeyDeletion
<1> QED BY <1>2, <1>3, <1>4, <1>5, <1>6, <1>7, <1>8 DEF KmsServes

(* create_key and delete_key are not atomic, but each fault strands one    *)
(* key at most: a process works on one key at a time, and what a dropped   *)
(* handler leaves behind is one call.                                      *)
THEOREM OrphansAreBounded == Spec => []OrphansBoundedByFaults
<1>1. Init => OrphanInv
  <2> SUFFICES ASSUME Init PROVE OrphanInv
    OBVIOUS
  <2>1. Orphans = {} /\ Strays = {} /\ faults = 0
    BY DEF Init, Orphans, Strays
  <2> QED BY <2>1, FS_EmptySet DEF OrphanInv, PaidFor
<1>2. TypeInv /\ LockInv /\ KeyInv /\ OrphanInv /\ [Next]_vars => OrphanInv'
  <2> SUFFICES ASSUME TypeInv, LockInv, KeyInv, OrphanInv, [Next]_vars PROVE OrphanInv'
    OBVIOUS
  <2>1. UNCHANGED vars => Accounted
    BY DEF vars, Accounted, Harmless, Orphans, Strays, Owns
  <2>2. Next => Accounted
    BY ConnectionAccounted, LeavingAccounted, KmsAccounted DEF Next
  <2>3. faults \in Nat /\ Accounted
    BY <2>1, <2>2 DEF TypeInv
  <2> QED BY <2>3, AccountedInv
<1>3. TypeInv /\ OrphanInv => OrphansBoundedByFaults
  BY FS_CardinalityType DEF TypeInv, OrphanInv, PaidFor, OrphansBoundedByFaults
<1>4. Init => LockInv
  BY DEF Init, LockInv, Working
<1> QED BY <1>1, <1>2, <1>3, <1>4, NextLock, TypeInvariant, KeyInvariant, PTL DEF Spec

-----------------------------------------------------------------------------
(* Without faults no alias dangles.  A key that a creation is about to     *)
(* name is known to that creation alone, so no deletion is under way for   *)
(* it, and a deletion past its DeleteAlias is of a key nobody will name.   *)

Creating == {"GetNewPublicKey", "CreateAlias"}

Deleting == {"DeleteAlias", "ScheduleKeyDeletion"}

Named(k) == alias[AddressOf[k]] = k

NamedEnabled == \A k \in Key : Named(k) => keyState[k] = "enabled"

DeletedUnnamed ==
  \A r \in Request :
    /\ pc[r] \in Deleting => keyState[keyId[r]] # "absent"
    /\ pc[r] = "ScheduleKeyDeletion" => ~Named(keyId[r])

CreatedFresh ==
  \A r \in Request : pc[r] \in Creating =>
    /\ ~Named(keyId[r]) /\ keyState[keyId[r]] = "enabled"
    /\ \A s \in Request \ {r} :
         pc[s] \in Creating \cup Deleting => keyId[s] # keyId[r]

Orderly ==
  /\ \A r \in Request : alive[r]
  /\ NamedEnabled /\ DeletedUnnamed /\ CreatedFresh

OrderlyInv == faults = 0 => Orderly

(* What a handler may do when the account stays as it is.                  *)
MovesOn(r) ==
  \/ pc'[r] \notin Creating \cup Deleting
  \/ UNCHANGED <<pc[r], keyId[r]>>
  \/ pc[r] = "GetNewPublicKey" /\ pc'[r] = "CreateAlias" /\ keyId'[r] = keyId[r]
  \/ pc'[r] = "DeleteAlias" /\ keyId'[r] \in Key /\ Named(keyId'[r])

LEMMA OrderlyIdle ==
  ASSUME Orderly, UNCHANGED kms, \A r \in Request : alive'[r] /\ MovesOn(r)
  PROVE  Orderly'
<1> USE DEF kms
<1>1. NamedEnabled'
  BY DEF Orderly, NamedEnabled, Named
<1>2. DeletedUnnamed'
  BY DEF Orderly, NamedEnabled, DeletedUnnamed, Named, MovesOn, Creating, Deleting
<1>3. CreatedFresh'
  <2> SUFFICES ASSUME NEW r \in Request, pc'[r] \in Creating
               PROVE  /\ ~Named(keyId[r])' /\ keyState'[keyId'[r]] = "enabled"
                      /\ \A s \in Request \ {r} :
                           pc'[s] \in Creating \cup Deleting => keyId'[s] # keyId'[r]
    BY DEF CreatedFresh
  <2>1. pc[r] \in Creating /\ keyId'[r] = keyId[r]
    BY DEF MovesOn, Creating, Deleting
  <2>2. ASSUME NEW s \in Request \ {r}, pc'[s] \in Creating \cup Deleting
        PROVE  keyId'[s] # keyId'[r]
    BY <2>1, <2>2 DEF Orderly, CreatedFresh, MovesOn, Named, Creating, Deleting
  <2> QED BY <2>1, <2>2 DEF Orderly, CreatedFresh, Named
<1> QED BY <1>1, <1>2, <1>3 DEF Orderly

LEMMA AwaitOrderly ==
  ASSUME TypeInv, Orderly, NEW r \in Request, NEW c, NEW k, NEW a,
         UNCHANGED kms, Await(r, c, k, a),
         \/ c \notin Creating \cup Deleting
         \/ c = "CreateAlias" /\ pc[r] = "GetNewPublicKey" /\ k = keyId[r]
         \/ c = "DeleteAlias" /\ k \in Key /\ Named(k)
  PROVE  Orderly'
<1>1. \A s \in Request : alive'[s] /\ MovesOn(s)
  BY DEF TypeInv, HandlerOK, HandlerTypeOK, Orderly, Await, MovesOn
<1> QED BY <1>1, OrderlyIdle

LEMMA ReturnOrderly ==
  ASSUME TypeInv, Orderly, NEW r \in Request, NEW ans, UNCHANGED kms, Return(r, ans)
  PROVE  Orderly'
<1>1. \A s \in Request : alive'[s] /\ MovesOn(s)
  BY DEF TypeInv, HandlerOK, HandlerTypeOK, Orderly, Return, Reset, MovesOn, Creating, Deleting
<1> QED BY <1>1, OrderlyIdle

LEMMA JudgeOrderly ==
  ASSUME TypeInv, Orderly, NEW r \in Request, NEW k, NEW a,
         UNCHANGED kms, JudgeLocally(r, k, a)
  PROVE  Orderly'
<1>1. CASE Await(r, "DescribeForVerify", k, a)
  BY <1>1, AwaitOrderly DEF Creating, Deleting
<1>2. CASE \E ans : Return(r, ans)
  BY <1>2, ReturnOrderly
<1> QED BY <1>1, <1>2 DEF JudgeLocally, Fail

LEMMA NoReplyNeedsFault ==
  ASSUME Orderly, NEW r \in Request, NoReplyFor(r), faults' = faults, faults \in Nat
  PROVE  FALSE
  BY DEF Orderly, NoReplyFor, LoseReply, Abandoned, Fault

LEMMA KmsOrderly ==
  ASSUME TypeInv, KeyInv, Orderly, NEW r \in Request, KmsServes(r), faults' = faults
  PROVE  Orderly'
<1>1. /\ AliasFaithful /\ Knows(r) /\ KmsTypeOK
      /\ pc[r] \in Calls \ CreateCalls => req[r].addr \in Address
      /\ pc[r] \in KeyedCalls => keyId[r] \in Key
      /\ pc[r] \in PubCalls => pub[r] \in Address
  BY DEF KeyInv, KnowledgeInv, TypeInv, HandlerOK, HandlerInv
<1>2. ~NoReplyFor(r)
  BY NoReplyNeedsFault DEF TypeInv
<1>3. CASE KmsRefuses(r) \/ FindsFlaw(r)
  BY <1>2, <1>3, FlawMet, ReturnOrderly DEF KmsRefuses, Fail, NoReplyFor
<1>4. CASE KmsGetNewPublicKey(r)
  BY <1>4, AwaitOrderly DEF KmsGetNewPublicKey, Serves
<1>5. CASE KmsDescribeForPublicKey(r) \/ KmsDescribeForSign(r) \/ KmsDescribeForVerify(r)
  BY <1>5, AwaitOrderly DEF KmsDescribeForPublicKey, KmsDescribeForSign,
     KmsDescribeForVerify, Creating, Deleting
<1>6. CASE KmsGetPublicKey(r)
  BY <1>6, AwaitOrderly, JudgeOrderly DEF KmsGetPublicKey, Creating, Deleting
<1>7. CASE KmsSign(r) \/ KmsVerify(r)
  BY <1>7, ReturnOrderly DEF KmsSign, KmsVerify, Fail
<1>8. CASE KmsDescribeForDelete(r)
  <2>1. alias[req[r].addr] \in Key /\ Named(alias[req[r].addr])
    BY <1>1, <1>8 DEF KmsDescribeForDelete, Serves, Accepts, AliasFaithful, Named,
       CreateCalls, KmsTypeOK
  <2> QED BY <1>8, <2>1, AwaitOrderly DEF KmsDescribeForDelete
<1>9. CASE KmsCreateKey(r)
  <2>1. PICK k \in Key :
          /\ keyState[k] = "absent" /\ keyState' = [keyState EXCEPT ![k] = "enabled"]
          /\ Await(r, "GetNewPublicKey", k, NoAddress)
    BY <1>2, <1>9 DEF KmsCreateKey
  <2>2. /\ OthersStay(r) /\ pc'[r] = "GetNewPublicKey" /\ keyId'[r] = k
        /\ alias' = alias /\ \A s \in Request : alive'[s]
    BY <1>9, <2>1, AwaitMoves DEF KmsCreateKey, Orderly, Strays
  <2>3. ~Named(k)
    BY <2>1 DEF Orderly, NamedEnabled
  <2>4. NamedEnabled' /\ DeletedUnnamed'
    BY <1>1, <2>1, <2>2 DEF Orderly, NamedEnabled, DeletedUnnamed, Named, OthersStay,
       Creating, Deleting, KmsTypeOK
  <2>5. CreatedFresh'
    BY <1>1, <2>1, <2>2, <2>3 DEF Orderly, DeletedUnnamed, CreatedFresh, Named,
       OthersStay, Creating, Deleting, KmsTypeOK
  <2> QED BY <2>2, <2>4, <2>5 DEF Orderly
<1>10. CASE KmsCreateAlias(r)
  <2>1. /\ keyId[r] \in Key /\ pub[r] = AddressOf[keyId[r]] /\ pc[r] = "CreateAlias"
        /\ alias' = [alias EXCEPT ![pub[r]] = keyId[r]] /\ keyState' = keyState
    BY <1>1, <1>10 DEF KmsCreateAlias, Serves, Knows, KeyedCalls
  <2>2. OthersStay(r) /\ pc'[r] = "idle" /\ \A s \in Request : alive'[s]
    BY <1>2, <1>10, ReturnMoves DEF KmsCreateAlias, Orderly, Strays
  <2>3. \A k \in Key : Named(k)' => Named(k) \/ k = keyId[r]
    BY <1>1, <2>1, KeyAssumption DEF Named, KmsTypeOK
  <2>4. /\ keyState[keyId[r]] = "enabled"
        /\ \A s \in Request \ {r} :
             pc[s] \in Creating \cup Deleting => keyId[s] \in Key /\ keyId[s] # keyId[r]
    BY <2>1 DEF Orderly, CreatedFresh, Creating, Deleting, TypeInv, HandlerOK,
       HandlerInv, KeyedCalls
  <2>5. NamedEnabled' /\ DeletedUnnamed'
    BY <2>1, <2>2, <2>3, <2>4 DEF Orderly, NamedEnabled, DeletedUnnamed, OthersStay,
       Creating, Deleting, Named
  <2>6. CreatedFresh'
    BY <2>1, <2>2, <2>3, <2>4 DEF Orderly, CreatedFresh, OthersStay, Creating, Deleting
  <2> QED BY <2>2, <2>5, <2>6 DEF Orderly
<1>11. CASE KmsDeleteAlias(r)
  <2>1. /\ keyId[r] \in Key /\ req[r].addr = AddressOf[keyId[r]] /\ pc[r] = "DeleteAlias"
        /\ alias' = [alias EXCEPT ![req[r].addr] = NoKey] /\ keyState' = keyState
    BY <1>1, <1>11 DEF KmsDeleteAlias, Serves, Knows, KeyedCalls
  <2>2. /\ OthersStay(r) /\ pc'[r] = "ScheduleKeyDeletion" /\ keyId'[r] = keyId[r]
        /\ \A s \in Request : alive'[s]
    BY <1>2, <1>11, AwaitMoves DEF KmsDeleteAlias, Orderly, Strays
  <2>3. \A k \in Key : Named(k)' => Named(k) /\ k # keyId[r]
    BY <1>1, <2>1, KeyAssumption DEF Named, KmsTypeOK
  <2>4. \A s \in Request : pc[s] \in Creating \cup Deleting => keyId[s] \in Key
    BY DEF Creating, Deleting, TypeInv, HandlerOK, HandlerInv, KeyedCalls
  <2>5. NamedEnabled' /\ DeletedUnnamed'
    BY <2>1, <2>2, <2>3, <2>4 DEF Orderly, NamedEnabled, DeletedUnnamed, OthersStay,
       Creating, Deleting, Named
  <2>6. CreatedFresh'
    BY <2>1, <2>2, <2>3, <2>4 DEF Orderly, CreatedFresh, OthersStay, Creating, Deleting
  <2> QED BY <2>2, <2>5, <2>6 DEF Orderly
<1>12. CASE KmsScheduleKeyDeletion(r)
  <2>1. /\ keyId[r] \in Key /\ pc[r] = "ScheduleKeyDeletion" /\ alias' = alias
        /\ keyState' = [keyState EXCEPT ![keyId[r]] = "pending"]
    BY <1>1, <1>12 DEF KmsScheduleKeyDeletion, Serves, KeyedCalls
  <2>2. OthersStay(r) /\ pc'[r] = "idle" /\ \A s \in Request : alive'[s]
    BY <1>2, <1>12, ReturnMoves DEF KmsScheduleKeyDeletion, Orderly, Strays
  <2>3. /\ ~Named(keyId[r])
        /\ \A s \in Request \ {r} : pc[s] \in Creating => keyId[s] # keyId[r]
    BY <2>1 DEF Orderly, DeletedUnnamed, CreatedFresh, Creating, Deleting
  <2>4. \A s \in Request : pc[s] \in Creating \cup Deleting => keyId[s] \in Key
    BY DEF Creating, Deleting, TypeInv, HandlerOK, HandlerInv, KeyedCalls
  <2>5. NamedEnabled' /\ DeletedUnnamed'
    BY <1>1, <2>1, <2>2, <2>3, <2>4 DEF Orderly, NamedEnabled, DeletedUnnamed,
       OthersStay, Creating, Deleting, Named, KmsTypeOK
  <2>6. CreatedFresh'
    BY <1>1, <2>1, <2>2, <2>3, <2>4 DEF Orderly, CreatedFresh, OthersStay, Creating,
       Deleting, Named, KmsTypeOK
  <2> QED BY <2>2, <2>5, <2>6 DEF Orderly
<1> QED BY <1>3, <1>4, <1>5, <1>6, <1>7, <1>8, <1>9, <1>10, <1>11, <1>12 DEF KmsServes

(* Faults are only ever added.                                             *)
LEMMA FaultsStay ==
  ASSUME TypeInv, Next, faults' = 0
  PROVE  faults' = faults
<1>1. faults \in Nat /\ ~Fault
  BY DEF TypeInv, Fault
<1>2. ASSUME NEW r \in Request, KmsServes(r) PROVE faults' = faults
  <2>1. NoReplyFor(r) => faults' = faults
    BY <1>1 DEF NoReplyFor, LoseReply, Abandoned
  <2> QED BY <1>2, <2>1, FlawMet DEF KmsServes, KmsRefuses, KmsCreateKey, KmsGetNewPublicKey,
     KmsCreateAlias, KmsDescribeForPublicKey, KmsGetPublicKey, KmsDescribeForSign, KmsSign,
     KmsDescribeForVerify, KmsVerify, KmsDescribeForDelete, KmsDeleteAlias,
     KmsScheduleKeyDeletion, JudgeLocally, Await, NoReplyFor
<1> QED
  BY <1>1, <1>2 DEF Next, Arrive, Acquire, Begin, JudgeLocally, Await, Disconnect,
     Vanish, CallFails, Crash

LEMMA NextOrderly ==
  ASSUME TypeInv, KeyInv, OrderlyInv, [Next]_vars
  PROVE  OrderlyInv'
<1>1. CASE UNCHANGED vars
  BY <1>1 DEF vars, OrderlyInv, Orderly, NamedEnabled, DeletedUnnamed, CreatedFresh, Named
<1> SUFFICES ASSUME Next, faults' = 0 PROVE Orderly'
  BY <1>1 DEF OrderlyInv
<1>2. faults' = faults /\ Orderly /\ faults \in Nat /\ ~Fault /\ HandlerTypeOK
  BY FaultsStay DEF TypeInv, HandlerOK, Fault, OrderlyInv
<1>3. ASSUME NEW r \in Request, Arrive(r) \/ Acquire(r) PROVE Orderly'
  <2>1. UNCHANGED kms /\ \A s \in Request : alive'[s] /\ MovesOn(s)
    BY <1>2, <1>3 DEF HandlerTypeOK, Arrive, Acquire, MovesOn, Orderly, Creating,
       Deleting
  <2> QED BY <1>2, <2>1, OrderlyIdle
<1>4. ASSUME NEW r \in Request, Begin(r) PROVE Orderly'
  BY <1>2, <1>4, AwaitOrderly, ReturnOrderly, JudgeOrderly DEF Begin, Creating, Deleting
<1>5. ASSUME NEW r \in Request, Disconnect(r) PROVE Orderly'
  <2>1. UNCHANGED kms /\ \A s \in Request : alive'[s] /\ MovesOn(s)
    BY <1>2, <1>5 DEF HandlerTypeOK, Disconnect, Drop, MovesOn, Orderly,
       Creating, Deleting
  <2> QED BY <1>2, <2>1, OrderlyIdle
<1>6. ASSUME NEW r \in Request, Vanish(r) PROVE FALSE
  BY <1>2, <1>6 DEF Vanish, Orderly
<1> QED BY <1>2, <1>3, <1>4, <1>5, <1>6, KmsOrderly DEF Next, CallFails, Crash

(* Only a fault can leave an alias on a key that is pending deletion.      *)
THEOREM AliasesDoNotDangle == Spec => []DanglingAliasNeedsFault
<1>1. Init => OrderlyInv
  BY KeyAssumption DEF Init, OrderlyInv, Orderly, NamedEnabled, DeletedUnnamed,
     CreatedFresh, Named, Creating, Deleting
<1>2. TypeInv /\ KeyInv /\ OrderlyInv => DanglingAliasNeedsFault
  <2> SUFFICES ASSUME TypeInv, KeyInv, OrderlyInv, faults = 0,
                      NEW a \in Address, alias[a] # NoKey
               PROVE  keyState[alias[a]] # "pending"
    BY DEF DanglingAliasNeedsFault, TypeInv
  <2>1. alias[a] \in Key /\ Named(alias[a])
    BY DEF TypeInv, KmsTypeOK, KeyInv, AliasFaithful, Named
  <2> QED BY <2>1 DEF OrderlyInv, Orderly, NamedEnabled
<1> QED BY <1>1, <1>2, NextOrderly, TypeInvariant, KeyInvariant, PTL DEF Spec

-----------------------------------------------------------------------------
(* Without faults no request fails half-way.  What a handler does next it  *)
(* can do, unless somebody else took the alias it was asked for: it signs  *)
(* with the key of that alias, names the key it made, and retires a key    *)
(* that it alone took the alias from.                                      *)

Resolving == {"DescribeForPublicKey", "GetPublicKey"}

OnCourse(r) ==
  /\ pc[r] = "Sign" => AddressOf[keyId[r]] = req[r].addr
  /\ pc[r] \in CreateCalls => req[r].op = "create"
  /\ pc[r] \in Resolving => req[r].op \in {"sign", "verify", "verify_via_kms"}

OnCourseInv == \A r \in Request : OnCourse(r)

SoleDeletion ==
  \A r \in Request : pc[r] = "ScheduleKeyDeletion" =>
    /\ keyState[keyId[r]] = "enabled"
    /\ \A s \in Request \ {r} : pc[s] = "ScheduleKeyDeletion" => keyId[s] # keyId[r]

SoleInv == faults = 0 => SoleDeletion

LEMMA AwaitOnCourse ==
  ASSUME TypeInv, OnCourseInv, NEW r \in Request, NEW c, NEW k, NEW a, Await(r, c, k, a),
         c = "Sign" => AddressOf[k] = req[r].addr,
         c \in CreateCalls => req[r].op = "create",
         c \in Resolving => req[r].op \in {"sign", "verify", "verify_via_kms"}
  PROVE  OnCourseInv'
  BY DEF TypeInv, HandlerOK, HandlerTypeOK, OnCourseInv, OnCourse, Await

LEMMA ReturnOnCourse ==
  ASSUME TypeInv, OnCourseInv, NEW r \in Request, NEW ans, Return(r, ans)
  PROVE  OnCourseInv'
  BY DEF TypeInv, HandlerOK, HandlerTypeOK, OnCourseInv, OnCourse, Return, Reset, CreateCalls,
     Resolving

LEMMA NoReplyOnCourse ==
  ASSUME TypeInv, OnCourseInv, NEW r \in Request, NoReplyFor(r)
  PROVE  OnCourseInv'
<1>1. CASE Fail(r)
  BY <1>1, ReturnOnCourse DEF Fail
<1>2. CASE UNCHANGED <<locals, req>>
  BY <1>2 DEF OnCourseInv, OnCourse, locals
<1>3. CASE Abandoned(r)
  BY <1>3 DEF TypeInv, HandlerOK, HandlerTypeOK, OnCourseInv, OnCourse, Abandoned, Reset,
     CreateCalls, Resolving
<1> QED BY <1>1, <1>2, <1>3 DEF NoReplyFor, LoseReply

LEMMA JudgeOnCourse ==
  ASSUME TypeInv, OnCourseInv, NEW r \in Request, NEW k, NEW a, JudgeLocally(r, k, a)
  PROVE  OnCourseInv'
  BY AwaitOnCourse, ReturnOnCourse DEF JudgeLocally, Fail, CreateCalls, Resolving

LEMMA KmsOnCourse ==
  ASSUME TypeInv, KeyInv, OnCourseInv, NEW r \in Request, KmsServes(r)
  PROVE  OnCourseInv'
<1>1. OnCourse(r) /\ AliasFaithful /\ KmsTypeOK
  BY DEF OnCourseInv, KeyInv, TypeInv
<1>2. CASE KmsRefuses(r) \/ FindsFlaw(r)
  BY <1>2, FlawMet, ReturnOnCourse, NoReplyOnCourse DEF KmsRefuses, Fail, NoReplyFor
<1>3. CASE KmsCreateKey(r)
  BY <1>1, <1>3, AwaitOnCourse, NoReplyOnCourse DEF KmsCreateKey, Serves, OnCourse, CreateCalls, Resolving
<1>4. CASE KmsGetNewPublicKey(r)
  BY <1>1, <1>4, AwaitOnCourse DEF KmsGetNewPublicKey, Serves, OnCourse, CreateCalls, Resolving
<1>5. CASE KmsCreateAlias(r)
  BY <1>5, ReturnOnCourse, NoReplyOnCourse DEF KmsCreateAlias
<1>6. CASE KmsDescribeForPublicKey(r)
  BY <1>1, <1>6, AwaitOnCourse
  DEF KmsDescribeForPublicKey, Serves, OnCourse, CreateCalls, Resolving
<1>7. CASE KmsGetPublicKey(r)
  BY <1>7, AwaitOnCourse, JudgeOnCourse DEF KmsGetPublicKey, CreateCalls, Resolving
<1>8. CASE KmsDescribeForSign(r)
  <2>1. AddressOf[alias[req[r].addr]] = req[r].addr
    BY <1>1, <1>8 DEF KmsDescribeForSign, Serves, Accepts, AliasFaithful, TypeInv,
       HandlerOK, HandlerInv, CreateCalls
  <2> QED BY <1>8, <2>1, AwaitOnCourse DEF KmsDescribeForSign, CreateCalls, Resolving
<1>9. CASE KmsSign(r) \/ KmsVerify(r)
  BY <1>9, ReturnOnCourse DEF KmsSign, KmsVerify, Fail
<1>10. CASE KmsDescribeForVerify(r) \/ KmsDescribeForDelete(r)
  BY <1>10, AwaitOnCourse DEF KmsDescribeForVerify, KmsDescribeForDelete, CreateCalls,
     Resolving
<1>11. CASE KmsDeleteAlias(r)
  BY <1>11, AwaitOnCourse, NoReplyOnCourse DEF KmsDeleteAlias, CreateCalls, Resolving
<1>12. CASE KmsScheduleKeyDeletion(r)
  BY <1>12, ReturnOnCourse, NoReplyOnCourse DEF KmsScheduleKeyDeletion
<1> QED BY <1>2, <1>3, <1>4, <1>5, <1>6, <1>7, <1>8, <1>9, <1>10, <1>11, <1>12
        DEF KmsServes

LEMMA NextOnCourse == TypeInv /\ KeyInv /\ OnCourseInv /\ [Next]_vars => OnCourseInv'
<1> SUFFICES ASSUME TypeInv, KeyInv, OnCourseInv, [Next]_vars PROVE OnCourseInv'
  OBVIOUS
<1>1. CASE UNCHANGED vars
  BY <1>1 DEF OnCourseInv, OnCourse, vars
<1>2. ASSUME NEW r \in Request, Arrive(r) \/ Acquire(r) PROVE OnCourseInv'
  BY <1>2 DEF TypeInv, HandlerOK, HandlerTypeOK, OnCourseInv, OnCourse, Arrive, Acquire,
     CreateCalls, Resolving
<1>3. ASSUME NEW r \in Request, Begin(r) PROVE OnCourseInv'
  BY <1>3, AwaitOnCourse, ReturnOnCourse, JudgeOnCourse DEF Begin, CreateCalls, Resolving
<1>4. ASSUME NEW R \in SUBSET Request, Drop(R), UNCHANGED req PROVE OnCourseInv'
  BY <1>4 DEF TypeInv, HandlerOK, HandlerTypeOK, OnCourseInv, OnCourse, Drop, CreateCalls, Resolving
<1>5. ASSUME NEW r \in Request, Disconnect(r) PROVE OnCourseInv'
  BY <1>4, <1>5 DEF Disconnect
<1>6. ASSUME NEW p \in Replica, Crash(p) PROVE OnCourseInv'
  BY <1>4, <1>6 DEF Crash
<1>7. ASSUME NEW r \in Request, Vanish(r) PROVE OnCourseInv'
  BY <1>7, NoReplyOnCourse DEF Vanish, NoReplyFor, Abandoned
<1>8. ASSUME NEW r \in Request, CallFails(r) PROVE OnCourseInv'
  BY <1>8, ReturnOnCourse DEF CallFails, Fail
<1> QED BY <1>1, <1>2, <1>3, <1>5, <1>6, <1>7, <1>8, KmsOnCourse DEF Next

(* A step that makes no call to ScheduleKeyDeletion leaves those there are.*)
LEMMA SoleStays ==
  ASSUME SoleDeletion, keyState' = keyState,
         \A r \in Request : \/ pc'[r] # "ScheduleKeyDeletion"
                            \/ UNCHANGED <<pc[r], keyId[r]>>
  PROVE  SoleDeletion'
  BY DEF SoleDeletion

LEMMA MoveSole ==
  ASSUME TypeInv, SoleDeletion, keyState' = keyState, NEW r \in Request,
         \/ \E c, k, a : c # "ScheduleKeyDeletion" /\ Await(r, c, k, a)
         \/ \E ans : Return(r, ans)
         \/ \E k, a : JudgeLocally(r, k, a)
  PROVE  SoleDeletion'
<1>1. OthersStay(r) /\ pc'[r] # "ScheduleKeyDeletion"
  BY AwaitMoves, ReturnMoves DEF JudgeLocally, Fail
<1> QED BY <1>1, SoleStays DEF OthersStay

LEMMA KmsSole ==
  ASSUME TypeInv, KeyInv, Orderly, SoleDeletion, NEW r \in Request, KmsServes(r),
         faults' = faults
  PROVE  SoleDeletion'
<1>1. /\ AliasFaithful /\ Knows(r) /\ KmsTypeOK
      /\ pc[r] \in Calls \ CreateCalls => req[r].addr \in Address
      /\ pc[r] \in KeyedCalls => keyId[r] \in Key
      /\ \A s \in Request : pc[s] = "ScheduleKeyDeletion" => keyId[s] \in Key
  BY DEF KeyInv, KnowledgeInv, TypeInv, HandlerOK, HandlerInv, KeyedCalls
<1>2. ~NoReplyFor(r)
  BY NoReplyNeedsFault DEF TypeInv
<1>3. CASE \/ KmsRefuses(r) \/ FindsFlaw(r)
           \/ KmsGetNewPublicKey(r) \/ KmsCreateAlias(r)
           \/ KmsDescribeForPublicKey(r) \/ KmsGetPublicKey(r)
           \/ KmsDescribeForSign(r) \/ KmsSign(r)
           \/ KmsDescribeForVerify(r) \/ KmsVerify(r)
           \/ KmsDescribeForDelete(r)
  <2>1. keyState' = keyState
    BY <1>3, FlawMet DEF KmsRefuses, KmsGetNewPublicKey, KmsCreateAlias, KmsDescribeForPublicKey,
       KmsGetPublicKey, KmsDescribeForSign, KmsSign, KmsDescribeForVerify, KmsVerify,
       KmsDescribeForDelete, kms
  <2>2. \/ \E c, k, a : c # "ScheduleKeyDeletion" /\ Await(r, c, k, a)
        \/ \E ans : Return(r, ans)
        \/ \E k, a : JudgeLocally(r, k, a)
    BY <1>2, <1>3, FlawMet DEF KmsRefuses, KmsGetNewPublicKey, KmsCreateAlias,
       KmsDescribeForPublicKey, KmsGetPublicKey, KmsDescribeForSign, KmsSign,
       KmsDescribeForVerify, KmsVerify, KmsDescribeForDelete, Fail, NoReplyFor
  <2> QED BY <2>1, <2>2, MoveSole
<1>4. CASE KmsCreateKey(r)
  <2>1. PICK k \in Key :
          /\ keyState[k] = "absent" /\ keyState' = [keyState EXCEPT ![k] = "enabled"]
          /\ Await(r, "GetNewPublicKey", k, NoAddress)
    BY <1>2, <1>4 DEF KmsCreateKey
  <2>2. OthersStay(r) /\ pc'[r] = "GetNewPublicKey"
    BY <2>1, AwaitMoves
  <2> QED BY <1>1, <2>1, <2>2 DEF SoleDeletion, OthersStay, KmsTypeOK
<1>5. CASE KmsDeleteAlias(r)
  <2>1. /\ keyId[r] \in Key /\ pc[r] = "DeleteAlias" /\ keyState' = keyState
        /\ AddressOf[keyId[r]] = req[r].addr /\ alias[req[r].addr] # NoKey
        /\ req[r].addr \in Address
    BY <1>1, <1>5 DEF KmsDeleteAlias, Serves, Accepts, Knows, KeyedCalls, CreateCalls
  <2>2. Named(keyId[r])
    BY <1>1, <2>1, KeyAssumption DEF AliasFaithful, Named, KmsTypeOK
  <2>3. /\ keyState[keyId[r]] = "enabled"
        /\ \A s \in Request : pc[s] = "ScheduleKeyDeletion" => keyId[s] # keyId[r]
    BY <2>1, <2>2 DEF Orderly, NamedEnabled, DeletedUnnamed
  <2>4. OthersStay(r) /\ keyId'[r] = keyId[r]
    BY <1>2, <1>5, AwaitMoves DEF KmsDeleteAlias
  <2> QED BY <2>1, <2>3, <2>4 DEF SoleDeletion, OthersStay
<1>6. CASE KmsScheduleKeyDeletion(r)
  <2>1. /\ keyId[r] \in Key /\ pc[r] = "ScheduleKeyDeletion"
        /\ keyState' = [keyState EXCEPT ![keyId[r]] = "pending"]
    BY <1>1, <1>6 DEF KmsScheduleKeyDeletion, Serves, KeyedCalls
  <2>2. OthersStay(r) /\ pc'[r] = "idle"
    BY <1>2, <1>6, ReturnMoves DEF KmsScheduleKeyDeletion
  <2> QED BY <1>1, <2>1, <2>2 DEF SoleDeletion, OthersStay, KmsTypeOK
<1> QED BY <1>3, <1>4, <1>5, <1>6 DEF KmsServes

LEMMA NextSole ==
  ASSUME TypeInv, KeyInv, OrderlyInv, SoleInv, [Next]_vars
  PROVE  SoleInv'
<1>1. CASE UNCHANGED vars
  BY <1>1 DEF vars, SoleInv, SoleDeletion
<1> SUFFICES ASSUME Next, faults' = 0 PROVE SoleDeletion'
  BY <1>1 DEF SoleInv
<1>2. faults' = faults /\ Orderly /\ SoleDeletion /\ HandlerTypeOK /\ ~Fault
  BY FaultsStay DEF OrderlyInv, SoleInv, TypeInv, HandlerOK, Fault
<1>3. ASSUME NEW r \in Request, Arrive(r) \/ Acquire(r) PROVE SoleDeletion'
  BY <1>2, <1>3, SoleStays DEF HandlerTypeOK, Arrive, Acquire, kms
<1>4. ASSUME NEW r \in Request, Begin(r) PROVE SoleDeletion'
  BY <1>2, <1>4, MoveSole DEF Begin, kms
<1>5. ASSUME NEW r \in Request, Disconnect(r) PROVE SoleDeletion'
  BY <1>2, <1>5, SoleStays DEF HandlerTypeOK, Disconnect, Drop, kms
<1>6. ASSUME NEW r \in Request, Vanish(r) PROVE FALSE
  BY <1>2, <1>6 DEF Vanish, Orderly
<1> QED BY <1>2, <1>3, <1>4, <1>5, <1>6, KmsSole DEF Next, CallFails, Crash

(* Only a handler that returns an error fails its request.                 *)
LEMMA ReturnFails ==
  ASSUME TypeInv, NEW q \in Request, NEW r \in Request, NewlyFailed(r),
         \/ \E ans : Return(q, ans)
         \/ \E c, k, a : Await(q, c, k, a)
         \/ \E k, a : JudgeLocally(q, k, a)
  PROVE  /\ r = q
         /\ \A ans : Return(q, ans) => ans.verdict = "failed"
         /\ \A k, a : JudgeLocally(q, k, a) => req[r].sig = NoKey
<1>1. \A c, k, a : ~Await(q, c, k, a)
  BY DEF Await, NewlyFailed
<1>2. \A ans : Return(q, ans) => r = q /\ ans.verdict = "failed"
  BY DEF TypeInv, HandlerOK, HandlerTypeOK, Return, NewlyFailed
<1>3. ASSUME NEW k, NEW a, JudgeLocally(q, k, a) PROVE r = q /\ req[r].sig = NoKey
  BY <1>1, <1>2, <1>3 DEF JudgeLocally, Fail, Say
<1> QED BY <1>1, <1>2, <1>3

LEMMA RefusalHasCause ==
  ASSUME TypeInv, KeyInv, Orderly, OnCourseInv, SoleDeletion, NEW r \in Request,
         pc[r] \in Calls, ~Accepts(r)
  PROVE  Cause(r)
<1>1. /\ AliasFaithful /\ Knows(r) /\ OnCourse(r) /\ KmsTypeOK
      /\ req[r] \in Body
      /\ pc[r] \in Calls \ CreateCalls => req[r].addr \in Address
      /\ pc[r] \in KeyedCalls => keyId[r] \in Key
  BY DEF KeyInv, KnowledgeInv, OnCourseInv, TypeInv, HandlerOK, HandlerInv
<1>2. pc[r] \in Calls \ CreateCalls => req[r].op # "create"
  BY <1>1, KeyAssumption DEF Body
<1>3. CASE pc[r] = "CreateKey"
  BY <1>1, <1>3 DEF Accepts, Cause, OnCourse, CreateCalls
<1>4. CASE pc[r] \in Creating
  <2>1. keyId[r] \in Key /\ keyState[keyId[r]] = "enabled" /\ ~Named(keyId[r])
    BY <1>1, <1>4 DEF Orderly, CreatedFresh, Creating, KeyedCalls
  <2>2. pc[r] = "CreateAlias" /\ alias[AddressOf[keyId[r]]] # NoKey
    BY <1>1, <1>4, <2>1 DEF Accepts, Knows, Creating
  <2>3. Named(keyId[r])
    BY <1>1, <2>1, <2>2, KeyAssumption DEF AliasFaithful, Named, KmsTypeOK
  <2> QED BY <2>1, <2>3
<1>5. CASE pc[r] \in {"DescribeForPublicKey", "DescribeForSign", "DescribeForDelete",
                      "DeleteAlias", "DescribeForVerify"}
  BY <1>1, <1>2, <1>5 DEF Accepts, Cause, Knows, CreateCalls
<1>6. CASE pc[r] \in {"GetPublicKey", "Sign", "Verify"}
  <2>1. /\ keyId[r] \in Key /\ AddressOf[keyId[r]] = req[r].addr
        /\ req[r].addr \in Address /\ keyState[keyId[r]] # "enabled"
    BY <1>1, <1>6 DEF Accepts, Knows, OnCourse, KeyedCalls, CreateCalls
  <2>2. ~Named(keyId[r])
    BY <2>1 DEF Orderly, NamedEnabled
  <2>3. alias[req[r].addr] = NoKey
    BY <1>1, <2>1, <2>2, KeyAssumption DEF AliasFaithful, Named, KmsTypeOK
  <2> QED BY <1>2, <1>6, <2>3 DEF Cause, CreateCalls
<1>7. CASE pc[r] = "ScheduleKeyDeletion"
  BY <1>7 DEF Accepts, SoleDeletion
<1> QED BY <1>3, <1>4, <1>5, <1>6, <1>7 DEF Creating

(* Without a fault an error answer has a cause in the request or in the    *)
(* account: concurrent creations and deletions, by any number of processes,*)
(* never fail each other between two of their changes.                     *)
THEOREM FailuresHaveCause == Spec => FailuresNeedCause
<1>1. Init => OnCourseInv /\ SoleInv /\ OrderlyInv
  BY KeyAssumption DEF Init, OnCourseInv, OnCourse, SoleInv, SoleDeletion, CreateCalls, Resolving,
     OrderlyInv, Orderly, NamedEnabled, DeletedUnnamed, CreatedFresh, Named, Creating, Deleting
<1>2. ASSUME TypeInv, KeyInv, OrderlyInv, OnCourseInv, SoleInv, Next, faults' = 0,
             NEW r \in Request, NewlyFailed(r)
      PROVE  Cause(r)
  <2>1. faults' = faults /\ ~Fault /\ Orderly /\ SoleDeletion
    BY <1>2, FaultsStay DEF OrderlyInv, SoleInv, TypeInv, Fault
  <2>2. ASSUME NEW q \in Request,
               Arrive(q) \/ Acquire(q) \/ Disconnect(q) \/ Vanish(q)
        PROVE  FALSE
    BY <1>2, <2>2 DEF Arrive, Acquire, Disconnect, Vanish, NewlyFailed, TypeInv,
       HandlerOK, HandlerTypeOK, Say
  <2>3. ASSUME NEW q \in Request, Begin(q) PROVE Cause(r)
    <3>1. ~\E c, k, a : Await(q, c, k, a)
      BY <1>2 DEF Await, NewlyFailed
    <3>2. ~Return(q, Say("rejected", NoKey))
      BY <1>2, ReturnFails DEF Say
    <3>3. /\ req[q].op \in {"verify", "verify_via_kms"}
          /\ \E k, a : JudgeLocally(q, k, a)
      BY <2>3, <3>1, <3>2 DEF Begin
    <3> QED BY <1>2, <3>3, ReturnFails DEF Cause
  <2>4. ASSUME NEW q \in Request, KmsServes(q) PROVE Cause(r)
    <3>1. ~NoReplyFor(q)
      BY <1>2, <2>1, NoReplyNeedsFault DEF TypeInv
    <3>2. CASE KmsRefuses(q)
      BY <1>2, <2>1, <3>1, <3>2, ReturnFails, RefusalHasCause DEF KmsRefuses, Fail,
         NoReplyFor
    <3>3. CASE KmsGetPublicKey(q)
      <4>1. r = q /\ req[r].op # "sign" /\ req[r].sig = NoKey
        BY <1>2, <3>3, ReturnFails DEF KmsGetPublicKey, Await, NewlyFailed
      <4>2. OnCourse(r) /\ pc[r] = "GetPublicKey"
        BY <1>2, <3>3, <4>1 DEF OnCourseInv, KmsGetPublicKey, Serves
      <4> QED BY <4>1, <4>2 DEF OnCourse, Cause, Resolving
    <3>4. CASE KmsSign(q)
      <4>1. AddressOf[keyId[q]] = pub[q]
        BY <1>2, <3>4 DEF KmsSign, Serves, KeyInv, KnowledgeInv, Knows, OnCourseInv, OnCourse
      <4> QED BY <1>2, <3>4, <4>1, ReturnFails DEF KmsSign, Say
    <3>5. CASE \/ KmsCreateKey(q) \/ KmsGetNewPublicKey(q) \/ KmsCreateAlias(q)
               \/ KmsDescribeForPublicKey(q) \/ KmsDescribeForSign(q)
               \/ KmsDescribeForVerify(q) \/ KmsVerify(q)
               \/ KmsDescribeForDelete(q) \/ KmsDeleteAlias(q)
               \/ KmsScheduleKeyDeletion(q)
      <4>1. \/ \E c, k, a : Await(q, c, k, a)
            \/ \E v \in {"created", "valid", "invalid", "deleted"} : \E k :
                 Return(q, Say(v, k))
        BY <3>1, <3>5 DEF KmsCreateKey, KmsGetNewPublicKey, KmsCreateAlias,
           KmsDescribeForPublicKey, KmsDescribeForSign, KmsDescribeForVerify, KmsVerify,
           KmsDescribeForDelete, KmsDeleteAlias, KmsScheduleKeyDeletion
      <4>2. ~\E c, k, a : Await(q, c, k, a)
        BY <1>2 DEF Await, NewlyFailed
      <4>3. ASSUME NEW v \in {"created", "valid", "invalid", "deleted"}, NEW k
            PROVE  ~Return(q, Say(v, k))
        <5>1. Say(v, k).verdict # "failed"
          BY DEF Say
        <5> QED BY <1>2, <5>1, ReturnFails
      <4> QED BY <4>1, <4>2, <4>3
    <3>6. CASE FindsFlaw(q)
      BY <1>2, <3>6, FlawMet, ReturnFails DEF Fail, Cause
    <3> QED BY <2>4, <3>2, <3>3, <3>4, <3>5, <3>6 DEF KmsServes
  <2>5. ~\E q \in Request : CallFails(q)
    BY <2>1 DEF CallFails
  <2>6. ~\E p \in Replica : Crash(p)
    BY <2>1 DEF Crash
  <2> QED BY <1>2, <2>2, <2>3, <2>4, <2>5, <2>6 DEF Next
<1>3. TypeInv /\ KeyInv /\ OrderlyInv /\ OnCourseInv /\ SoleInv /\ [Next]_vars =>
        [faults' = 0 => \A r \in Request : NewlyFailed(r) => Cause(r)]_vars
  BY <1>2
<1>4. TypeInv /\ KeyInv /\ OnCourseInv /\ [Next]_vars => OnCourseInv'
  BY NextOnCourse
<1>5. TypeInv /\ KeyInv /\ OrderlyInv /\ SoleInv /\ [Next]_vars => SoleInv'
  BY NextSole
<1> QED
  BY <1>1, <1>3, <1>4, <1>5, NextOrderly, TypeInvariant, KeyInvariant, PTL
  DEF Spec, FailuresNeedCause

=============================================================================
