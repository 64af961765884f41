---------------------- MODULE KeyLifecycle_refinement ----------------------
(***************************************************************************)
(* KeyLifecycle implements KeyCustody, for every value of its constants:   *)
(* the call of a handler that changes the account is the atomic step its   *)
(* answer reports, and every other step is one the promise does not see.   *)
(* Its effect on the account alone implements KmsAccount, which is all     *)
(* that KeyListing assumes of the other processes: the theorems about a    *)
(* listing hold next to the handlers of KeyLifecycle.                      *)
(***************************************************************************)
EXTENDS KeyLifecycle_proofs

USE DEF Calls, Mutating

Promises == {"created", "signed", "deleted"}

(* Nothing is promised on a connection until its request is answered.      *)
SilentInv == \A r \in Request : pc[r] # "idle" => answer[r].verdict = "none"

Pre == TypeInv /\ KeyInv /\ SilentInv

-----------------------------------------------------------------------------
(* What the handler's moves do to the promises.                            *)

Told == [r \in Request |-> Promised(r)]

KeepsPromises == Told' = Told

LEMMA SilentNext == TypeInv /\ SilentInv /\ [Next]_vars => SilentInv'
<1> SUFFICES ASSUME TypeInv, SilentInv, [Next]_vars PROVE SilentInv'
  OBVIOUS
<1> USE DEF TypeInv, HandlerOK, HandlerTypeOK
<1>1. ASSUME NEW r \in Request, NEW c, NEW k, NEW a,
             pc[r] # "idle", Await(r, c, k, a)
      PROVE  SilentInv'
  BY <1>1 DEF Await, SilentInv
<1>2. ASSUME NEW r \in Request, NEW ans, Return(r, ans) PROVE SilentInv'
  BY <1>2 DEF Return, Reset, SilentInv
<1>3. ASSUME NEW r \in Request, NEW k, NEW a, pc[r] # "idle", JudgeLocally(r, k, a)
      PROVE  SilentInv'
  BY <1>1, <1>2, <1>3 DEF JudgeLocally, Fail
<1>4. ASSUME UNCHANGED answer, \A r \in Request : pc'[r] # "idle" => pc[r] # "idle"
      PROVE  SilentInv'
  BY <1>4 DEF SilentInv
<1>5. ASSUME NEW r \in Request, NoReplyFor(r) PROVE SilentInv'
  BY <1>2, <1>4, <1>5 DEF NoReplyFor, LoseReply, Abandoned, Fail, Reset, locals
<1>6. CASE UNCHANGED vars
  BY <1>4, <1>6 DEF vars
<1>7. ASSUME NEW r \in Request, Arrive(r) PROVE SilentInv'
  BY <1>7 DEF Arrive, SilentInv, Say
<1>8. ASSUME NEW r \in Request, Acquire(r) \/ Disconnect(r) \/ Vanish(r) PROVE SilentInv'
  BY <1>4, <1>8 DEF Acquire, Disconnect, Drop, Vanish, Reset
<1>9. ASSUME NEW r \in Request, Begin(r) PROVE SilentInv'
  BY <1>1, <1>2, <1>3, <1>9 DEF Begin
<1>10. ASSUME NEW r \in Request, CallFails(r) PROVE SilentInv'
  BY <1>2, <1>10 DEF CallFails, Fail
<1>11. ASSUME NEW p \in Replica, Crash(p) PROVE SilentInv'
  BY <1>4, <1>11 DEF Crash, Drop
<1>12. ASSUME NEW r \in Request, KmsServes(r) PROVE SilentInv'
  <2>1. pc[r] # "idle"
    BY <1>12, FlawMet DEF KmsServes, KmsRefuses, KmsCreateKey, KmsGetNewPublicKey,
       KmsCreateAlias, KmsDescribeForPublicKey, KmsGetPublicKey, KmsDescribeForSign,
       KmsSign, KmsDescribeForVerify, KmsVerify, KmsDescribeForDelete, KmsDeleteAlias,
       KmsScheduleKeyDeletion, Serves
  <2> QED
    BY <1>1, <1>2, <1>3, <1>5, <1>12, <2>1, FlawMet
    DEF KmsServes, KmsRefuses, KmsCreateKey, KmsGetNewPublicKey, KmsCreateAlias,
        KmsDescribeForPublicKey, KmsGetPublicKey, KmsDescribeForSign, KmsSign,
        KmsDescribeForVerify, KmsVerify, KmsDescribeForDelete, KmsDeleteAlias,
        KmsScheduleKeyDeletion, NoReplyFor, Fail
<1> QED BY <1>6, <1>7, <1>8, <1>9, <1>10, <1>11, <1>12 DEF Next

LEMMA AwaitKeeps ==
  ASSUME NEW r, NEW c, NEW k, NEW a, Await(r, c, k, a)
  PROVE  KeepsPromises
  BY DEF Await, KeepsPromises, Told, Promised

(* Until it is answered a request has no promise to lose.                  *)
LEMMA NoPromiseKeeps ==
  ASSUME Pre, NEW r \in Request, pc[r] # "idle", NEW v, v \notin Promises,
         answer' = [answer EXCEPT ![r] = Say(v, NoKey)]
  PROVE  KeepsPromises
<1>1. \A s \in Request : Promised(s)' = Promised(s)
  BY DEF Pre, TypeInv, HandlerOK, HandlerTypeOK, SilentInv, Promised, Say, Promises
<1> QED BY <1>1 DEF KeepsPromises, Told

LEMMA FailKeeps ==
  ASSUME Pre, NEW r \in Request, pc[r] # "idle", Fail(r)
  PROVE  KeepsPromises
  BY NoPromiseKeeps DEF Fail, Return, Promises

LEMMA NoReplyKeeps ==
  ASSUME Pre, NEW r \in Request, pc[r] # "idle", NoReplyFor(r)
  PROVE  KeepsPromises
<1>1. UNCHANGED answer => KeepsPromises
  BY DEF KeepsPromises, Told, Promised
<1> QED BY <1>1, FailKeeps DEF NoReplyFor, LoseReply, Abandoned

LEMMA JudgeKeeps ==
  ASSUME Pre, NEW r \in Request, pc[r] # "idle", NEW k, NEW a, JudgeLocally(r, k, a)
  PROVE  KeepsPromises
<1>1. ASSUME NEW v \in {"valid", "invalid"}, Return(r, Say(v, NoKey))
      PROVE  KeepsPromises
  BY <1>1, NoPromiseKeeps DEF Return, Promises
<1> QED BY <1>1, AwaitKeeps, FailKeeps DEF JudgeLocally

(* An answer that does promise something.                                  *)
LEMMA ReturnTells ==
  ASSUME Pre, NEW r \in Request, NEW v \in Promises, NEW k \in Key,
         Return(r, Say(v, k))
  PROVE  Abstract!Tell(v, k)
<1>1. \A s \in Request :
        Promised(s)' = IF s = r THEN [verdict |-> v, key |-> k] ELSE Promised(s)
  BY DEF Pre, TypeInv, HandlerOK, HandlerTypeOK, Promised, Say, Promises, Return
<1>2. Told' = [Told EXCEPT ![r] = [verdict |-> v, key |-> k]]
  BY <1>1 DEF Told
<1> QED BY <1>2 DEF Abstract!Tell, Told

LEMMA KeepsTells ==
  ASSUME KeepsPromises, NEW v, NEW k
  PROVE  Abstract!Tell(v, k)
  BY DEF KeepsPromises, Abstract!Tell, Told

-----------------------------------------------------------------------------
(* What the calls do to the custody of keys.                               *)

Kept == [k \in Key |-> CustodyOf(k)]

Moves(k, from, to) ==
  /\ CustodyOf(k) \in from
  /\ \A j \in Key : CustodyOf(j)' = IF j = k THEN to ELSE CustodyOf(j)

LEMMA MoveIsMove ==
  ASSUME NEW k \in Key, NEW from, NEW to, Moves(k, from, to)
  PROVE  Abstract!Move(k, from, to)
<1>1. Kept' = [Kept EXCEPT ![k] = to]
  BY DEF Moves, Kept
<1> QED BY <1>1 DEF Abstract!Move, Moves, Kept

LEMMA SameAccount ==
  ASSUME UNCHANGED kms
  PROVE  UNCHANGED Kept
  BY DEF kms, Kept, CustodyOf

(* A step the promise does not see.                                        *)
LEMMA ForgetStep ==
  ASSUME UNCHANGED Kept, KeepsPromises
  PROVE  UNCHANGED Abstract!vars
  BY DEF KeepsPromises, Abstract!vars, Kept, Told

(* The four calls that change the account: which key moves, and whether an *)
(* alias is left behind or removed.                                        *)
LEMMA CreateMoves ==
  ASSUME Pre, NEW r \in Request, KmsCreateKey(r)
  PROVE  \E k \in Key : Moves(k, {"unmade"}, "unnamed") /\ UNCHANGED Leftovers
<1>1. PICK k \in Key :
        /\ keyState[k] = "absent"
        /\ keyState' = [keyState EXCEPT ![k] = "enabled"]
  BY DEF KmsCreateKey
<1>2. AliasFaithful /\ KmsTypeOK /\ UNCHANGED alias
  BY DEF Pre, KeyInv, TypeInv, KmsCreateKey
<1>3. alias[AddressOf[k]] # k
  BY <1>1, <1>2, KeyAssumption DEF AliasFaithful
<1>4. Moves(k, {"unmade"}, "unnamed")
  BY <1>1, <1>2, <1>3 DEF Moves, CustodyOf, KmsTypeOK
<1>5. UNCHANGED Leftovers
  BY <1>1, <1>2 DEF Leftovers, KmsTypeOK
<1> QED BY <1>4, <1>5

LEMMA CreateAliasMoves ==
  ASSUME Pre, NEW r \in Request, KmsCreateAlias(r)
  PROVE  /\ keyId[r] \in Key
         /\ Moves(keyId[r], {"unnamed"}, "named") /\ UNCHANGED Leftovers
<1>1. PICK k \in Key : k = keyId[r]
  BY DEF Pre, TypeInv, HandlerOK, HandlerInv, KmsCreateAlias, Serves, KeyedCalls
<1>2. /\ alias' = [alias EXCEPT ![AddressOf[k]] = k]
      /\ alias[AddressOf[k]] = NoKey /\ keyState[k] = "enabled"
      /\ AddressOf[k] \in Address /\ UNCHANGED keyState /\ KmsTypeOK
  BY <1>1, KeyAssumption DEF Pre, TypeInv, KeyInv, KnowledgeInv, Knows, KmsCreateAlias, Serves, Accepts
<1>3. \A j \in Key \ {k} : alias'[AddressOf[j]] = alias[AddressOf[j]]
  BY <1>2, KeyAssumption DEF KmsTypeOK
<1>4. CustodyOf(k) = "unnamed" /\ CustodyOf(k)' = "named"
  BY <1>2, KeyAssumption DEF CustodyOf, KmsTypeOK
<1>5. \A j \in Key \ {k} : CustodyOf(j)' = CustodyOf(j)
  BY <1>2, <1>3 DEF CustodyOf
<1>6. Moves(k, {"unnamed"}, "named")
  BY <1>4, <1>5 DEF Moves
<1>7. UNCHANGED Leftovers
  BY <1>2, <1>3 DEF Leftovers
<1> QED BY <1>1, <1>6, <1>7

(* The alias is deleted of a key that can sign, or, after a lost reply, of *)
(* one that is pending deletion already.                                   *)
LEMMA DeleteAliasMoves ==
  ASSUME Pre, NEW r \in Request, KmsDeleteAlias(r)
  PROVE  \E k \in Key :
           \/ Moves(k, {"named"}, "unnamed") /\ UNCHANGED Leftovers
           \/ UNCHANGED Kept /\ k \in Leftovers /\ Leftovers' = Leftovers \ {k}
<1>1. /\ req[r].addr \in Address /\ alias[req[r].addr] \in Key
      /\ AddressOf[alias[req[r].addr]] = req[r].addr
      /\ keyState[alias[req[r].addr]] \in {"enabled", "pending"}
      /\ KmsTypeOK
  BY DEF Pre, TypeInv, HandlerOK, HandlerInv, KmsTypeOK, KmsDeleteAlias, Serves,
     Accepts, CreateCalls, KeyInv, AliasFaithful
<1>2. PICK k \in Key : k = alias[req[r].addr]
  BY <1>1
<1>3. /\ alias' = [alias EXCEPT ![AddressOf[k]] = NoKey] /\ UNCHANGED keyState
      /\ alias[AddressOf[k]] = k /\ AddressOf[k] \in Address
      /\ alias'[AddressOf[k]] # k
  BY <1>1, <1>2, KeyAssumption DEF KmsDeleteAlias, KmsTypeOK
<1>4. \A j \in Key \ {k} : alias'[AddressOf[j]] = alias[AddressOf[j]]
  BY <1>1, <1>3, KeyAssumption DEF KmsTypeOK
<1>5. \A j \in Key \ {k} : CustodyOf(j)' = CustodyOf(j)
  BY <1>3, <1>4 DEF CustodyOf
<1>6. CASE keyState[k] = "enabled"
  <2>1. CustodyOf(k) = "named" /\ CustodyOf(k)' = "unnamed"
    BY <1>3, <1>6 DEF CustodyOf
  <2>2. Moves(k, {"named"}, "unnamed")
    BY <1>5, <2>1 DEF Moves
  <2>3. UNCHANGED Leftovers
    BY <1>3, <1>4, <1>6 DEF Leftovers
  <2> QED BY <2>2, <2>3
<1>7. CASE keyState[k] = "pending"
  <2>1. CustodyOf(k)' = CustodyOf(k)
    BY <1>3, <1>7 DEF CustodyOf
  <2>2. UNCHANGED Kept
    BY <1>5, <2>1 DEF Kept
  <2>3. k \in Leftovers /\ Leftovers' = Leftovers \ {k}
    BY <1>3, <1>4, <1>7 DEF Leftovers
  <2> QED BY <2>2, <2>3
<1> QED BY <1>1, <1>2, <1>6, <1>7

LEMMA ScheduleMoves ==
  ASSUME Pre, NEW r \in Request, KmsScheduleKeyDeletion(r)
  PROVE  /\ keyId[r] \in Key
         /\ Moves(keyId[r], {"unnamed", "named"}, "retired")
         /\ Leftovers' = Leftovers \cup
              { k \in Key : CustodyOf(k) = "named" /\ CustodyOf(k)' = "retired" }
<1>1. PICK k \in Key : k = keyId[r]
  BY DEF Pre, TypeInv, HandlerOK, HandlerInv, KmsScheduleKeyDeletion, Serves, KeyedCalls
<1>2. /\ keyState[k] = "enabled" /\ keyState' = [keyState EXCEPT ![k] = "pending"]
      /\ UNCHANGED alias /\ KmsTypeOK
  BY <1>1 DEF KmsScheduleKeyDeletion, Serves, Accepts, Pre, TypeInv
<1>3. Moves(k, {"unnamed", "named"}, "retired")
  BY <1>2 DEF Moves, CustodyOf, KmsTypeOK
<1>4. ASSUME NEW j \in Key
      PROVE  j \in Leftovers' <=>
               j \in Leftovers \/ (CustodyOf(j) = "named" /\ CustodyOf(j)' = "retired")
  <2>1. CASE j = k
    BY <1>2, <2>1 DEF Leftovers, CustodyOf, KmsTypeOK
  <2>2. CASE j # k
    BY <1>2, <1>3, <2>2 DEF Leftovers, CustodyOf, Moves, KmsTypeOK
  <2> QED BY <2>1, <2>2
<1> QED BY <1>1, <1>3, <1>4 DEF Leftovers

-----------------------------------------------------------------------------
(* The steps of the promise.                                               *)

LEMMA CreateStep ==
  ASSUME Pre, NEW r \in Request, KmsCreateKey(r)
  PROVE  Abstract!Next
<1>1. PICK k \in Key : Moves(k, {"unmade"}, "unnamed")
  BY CreateMoves
<1>2. KeepsPromises
  BY AwaitKeeps, NoReplyKeeps DEF KmsCreateKey, Serves
<1>3. Abstract!Mint(k)
  BY <1>1, <1>2, MoveIsMove DEF Abstract!Mint, KeepsPromises, Told
<1> QED BY <1>3 DEF Abstract!Next

LEMMA CreateAliasStep ==
  ASSUME Pre, NEW r \in Request, KmsCreateAlias(r)
  PROVE  Abstract!Next
<1>1. PICK k \in Key : k = keyId[r] /\ Moves(k, {"unnamed"}, "named")
  BY CreateAliasMoves
<1>2. Abstract!Tell("created", k)
  <2>1. CASE Return(r, Say("created", keyId[r]))
    BY <1>1, <2>1, ReturnTells DEF Promises
  <2>2. CASE NoReplyFor(r)
    BY <2>2, NoReplyKeeps, KeepsTells DEF KmsCreateAlias, Serves
  <2> QED BY <2>1, <2>2 DEF KmsCreateAlias
<1>3. Abstract!Name(k)
  BY <1>1, <1>2, MoveIsMove DEF Abstract!Name
<1> QED BY <1>3 DEF Abstract!Next

LEMMA DeleteAliasStep ==
  ASSUME Pre, NEW r \in Request, KmsDeleteAlias(r)
  PROVE  Abstract!Next \/ UNCHANGED Abstract!vars
<1>1. KeepsPromises
  BY AwaitKeeps, NoReplyKeeps DEF KmsDeleteAlias, Serves
<1>2. ASSUME NEW k \in Key, Moves(k, {"named"}, "unnamed") PROVE Abstract!Next
  <2>1. Abstract!Unname(k)
    BY <1>1, <1>2, MoveIsMove DEF Abstract!Unname, KeepsPromises, Told
  <2> QED BY <2>1 DEF Abstract!Next
<1>3. UNCHANGED Kept => UNCHANGED Abstract!vars
  BY <1>1, ForgetStep
<1> QED BY <1>2, <1>3, DeleteAliasMoves

LEMMA ScheduleStep ==
  ASSUME Pre, NEW r \in Request, KmsScheduleKeyDeletion(r)
  PROVE  Abstract!Next
<1>1. PICK k \in Key : k = keyId[r] /\ Moves(k, {"unnamed", "named"}, "retired")
  BY ScheduleMoves
<1>2. Abstract!Tell("deleted", k)
  <2>1. CASE Return(r, Say("deleted", keyId[r]))
    BY <1>1, <2>1, ReturnTells DEF Promises
  <2>2. CASE NoReplyFor(r)
    BY <2>2, NoReplyKeeps, KeepsTells DEF KmsScheduleKeyDeletion, Serves
  <2> QED BY <2>1, <2>2 DEF KmsScheduleKeyDeletion
<1>3. Abstract!Retire(k)
  BY <1>1, <1>2, MoveIsMove DEF Abstract!Retire
<1> QED BY <1>3 DEF Abstract!Next

LEMMA SignStep ==
  ASSUME Pre, NEW r \in Request, KmsSign(r)
  PROVE  Abstract!Next \/ UNCHANGED Abstract!vars
<1>1. PICK k \in Key : k = keyId[r] /\ keyState[k] = "enabled"
  BY DEF Pre, TypeInv, HandlerOK, HandlerInv, KmsSign, Serves, Accepts, KeyedCalls
<1>2. UNCHANGED Kept
  BY SameAccount DEF KmsSign
<1>3. CASE Fail(r)
  BY <1>2, <1>3, FailKeeps, ForgetStep DEF KmsSign, Serves
<1>4. CASE Return(r, Say("signed", keyId[r]))
  <2>1. Abstract!Tell("signed", k)
    BY <1>1, <1>4, ReturnTells DEF Promises
  <2>2. CustodyOf(k) \in {"unnamed", "named"}
    BY <1>1 DEF CustodyOf
  <2>3. Abstract!Use(k)
    BY <1>2, <2>1, <2>2 DEF Abstract!Use, Kept
  <2> QED BY <2>3 DEF Abstract!Next
<1> QED BY <1>3, <1>4 DEF KmsSign

-----------------------------------------------------------------------------
LEMMA KmsStep ==
  ASSUME Pre, NEW r \in Request, KmsServes(r)
  PROVE  Abstract!Next \/ UNCHANGED Abstract!vars
<1>1. CASE KmsCreateKey(r) \/ KmsCreateAlias(r) \/ KmsScheduleKeyDeletion(r)
  BY <1>1, CreateStep, CreateAliasStep, ScheduleStep
<1>2. CASE KmsDeleteAlias(r) \/ KmsSign(r)
  BY <1>2, DeleteAliasStep, SignStep
<1>3. CASE \/ KmsRefuses(r) \/ FindsFlaw(r)
           \/ KmsGetNewPublicKey(r) \/ KmsDescribeForPublicKey(r)
           \/ KmsGetPublicKey(r) \/ KmsDescribeForSign(r)
           \/ KmsDescribeForVerify(r) \/ KmsVerify(r) \/ KmsDescribeForDelete(r)
  <2>1. pc[r] # "idle" /\ UNCHANGED kms
    BY <1>3, FlawMet DEF KmsRefuses, KmsGetNewPublicKey, KmsDescribeForPublicKey, KmsGetPublicKey,
       KmsDescribeForSign, KmsDescribeForVerify, KmsVerify, KmsDescribeForDelete, Serves
  <2>2. KeepsPromises
    <3>1. CASE KmsRefuses(r) \/ FindsFlaw(r)
      BY <2>1, <3>1, FlawMet, NoReplyKeeps, FailKeeps DEF KmsRefuses, NoReplyFor
    <3>2. CASE KmsVerify(r)
      <4>1. PICK v \in {"valid", "invalid"} : Return(r, Say(v, NoKey))
        BY <3>2 DEF KmsVerify
      <4> QED BY <2>1, <4>1, NoPromiseKeeps DEF Return, Promises
    <3>3. CASE KmsGetPublicKey(r)
      BY <2>1, <3>3, AwaitKeeps, JudgeKeeps DEF KmsGetPublicKey
    <3>4. CASE \/ KmsGetNewPublicKey(r) \/ KmsDescribeForPublicKey(r)
               \/ KmsDescribeForSign(r) \/ KmsDescribeForVerify(r)
               \/ KmsDescribeForDelete(r)
      BY <3>4, AwaitKeeps DEF KmsGetNewPublicKey, KmsDescribeForPublicKey,
         KmsDescribeForSign, KmsDescribeForVerify, KmsDescribeForDelete
    <3> QED BY <1>3, <3>1, <3>2, <3>3, <3>4
  <2> QED BY <2>1, <2>2, SameAccount, ForgetStep
<1> QED BY <1>1, <1>2, <1>3 DEF KmsServes

LEMMA ArriveStep ==
  ASSUME Pre, NEW r \in Request, Arrive(r)
  PROVE  Abstract!Next
<1>1. \A s \in Request :
        Promised(s)' = IF s \in {r} THEN Abstract!NoOutcome ELSE Promised(s)
  BY DEF Pre, TypeInv, HandlerOK, HandlerTypeOK, Arrive, Promised, Say, Abstract!NoOutcome
<1>2. Told' = [s \in Request |-> IF s \in {r} THEN Abstract!NoOutcome ELSE Told[s]]
  BY <1>1 DEF Told
<1>3. UNCHANGED Kept
  BY SameAccount DEF Arrive
<1>4. Abstract!Forget
  BY <1>2, <1>3 DEF Abstract!Forget, Told, Kept
<1> QED BY <1>4 DEF Abstract!Next

LEMMA StepSimulation ==
  ASSUME Pre, [Next]_vars
  PROVE  [Abstract!Next]_(Abstract!vars)
<1>1. UNCHANGED answer => KeepsPromises
  BY DEF KeepsPromises, Told, Promised
<1>2. CASE UNCHANGED vars
  BY <1>1, <1>2, SameAccount, ForgetStep DEF vars, kms
<1>3. ASSUME NEW r \in Request, Acquire(r) \/ Disconnect(r) \/ Vanish(r)
      PROVE  UNCHANGED Abstract!vars
  BY <1>1, <1>3, SameAccount, ForgetStep DEF Acquire, Disconnect, Vanish
<1>4. ASSUME NEW p \in Replica, Crash(p) PROVE UNCHANGED Abstract!vars
  BY <1>1, <1>4, SameAccount, ForgetStep DEF Crash
<1>5. ASSUME NEW r \in Request, Begin(r) PROVE UNCHANGED Abstract!vars
  <2>1. pc[r] # "idle" /\ UNCHANGED Kept
    BY <1>5, SameAccount DEF Begin
  <2>2. Return(r, Say("rejected", NoKey)) => KeepsPromises
    BY <2>1, NoPromiseKeeps DEF Return, Promises
  <2> QED BY <1>5, <2>1, <2>2, AwaitKeeps, JudgeKeeps, ForgetStep DEF Begin
<1>6. ASSUME NEW r \in Request, CallFails(r) PROVE UNCHANGED Abstract!vars
  BY <1>6, SameAccount, FailKeeps, ForgetStep DEF CallFails
<1> QED BY <1>2, <1>3, <1>4, <1>5, <1>6, ArriveStep, KmsStep DEF Next

LEMMA InitSimulation == Init => Abstract!Init
  BY KeyAssumption DEF Init, Abstract!Init, CustodyOf, Promised, Say, Abstract!NoOutcome

(* Each successful answer is one atomic change of the custody of one key,  *)
(* as the endpoints promise: the key is named, used or retired at the very *)
(* KMS call its answer comes from, whatever happens around the call.       *)
THEOREM CustodyImplemented == Spec => ImplementsCustody
<1>1. Init => SilentInv
  BY DEF Init, SilentInv
<1>2. Spec => []SilentInv
  BY <1>1, SilentNext, TypeInvariant, PTL DEF Spec
<1>3. TypeInv /\ KeyInv /\ SilentInv /\ [Next]_vars => [Abstract!Next]_(Abstract!vars)
  BY StepSimulation DEF Pre
<1> QED
  BY <1>2, <1>3, InitSimulation, TypeInvariant, KeyInvariant, PTL
  DEF Spec, ImplementsCustody, Abstract!Spec

-----------------------------------------------------------------------------
(* The account that all processes share, as a walk over its aliases meets  *)
(* it: nothing but steps of KmsAccount.                                    *)

LEMMA SharedMove ==
  ASSUME NEW k \in Key, NEW from, NEW to, Moves(k, from, to),
         \/ from = {"unmade"} /\ to = "unnamed"
         \/ from = {"unnamed"} /\ to = "named"
         \/ from = {"named"} /\ to = "unnamed"
         \/ from = {"unnamed", "named"} /\ to = "retired",
         Leftovers' = Leftovers \cup
           { j \in Key : CustodyOf(j) = "named" /\ CustodyOf(j)' = "retired" }
  PROVE  Shared!AccountNext
<1>1. CustodyOf(k) \in from /\ Kept' = [Kept EXCEPT ![k] = to]
  BY DEF Moves, Kept
<1>2. \/ Shared!Keys!Mint(k) \/ Shared!Keys!Name(k)
      \/ Shared!Keys!Unname(k) \/ Shared!Keys!Retire(k)
  BY <1>1 DEF Shared!Keys!Mint, Shared!Keys!Name, Shared!Keys!Unname,
     Shared!Keys!Retire, Shared!Keys!Move, Shared!Keys!Tell, Kept
<1>3. Shared!Named = { j \in Key : CustodyOf(j) = "named" }
  BY DEF Shared!Named
<1>4. Leftovers' = Leftovers \cup { j \in Shared!Named : Kept'[j] = "retired" }
  BY <1>3 DEF Kept
<1> QED BY <1>2, <1>4 DEF Shared!AccountNext, Shared!KeyMoves, Kept

LEMMA SharedIdle ==
  ASSUME UNCHANGED kms
  PROVE  UNCHANGED Shared!account
  BY DEF kms, Shared!account, CustodyOf, Leftovers

LEMMA SharedStep ==
  ASSUME Pre, NEW r \in Request, KmsServes(r)
  PROVE  Shared!AccountNext \/ UNCHANGED Shared!account
<1>1. ASSUME NEW k \in Key, NEW to \in {"unnamed", "named"}, NEW from,
             Moves(k, from, to), UNCHANGED Leftovers
      PROVE  Leftovers' = Leftovers \cup
               { j \in Key : CustodyOf(j) = "named" /\ CustodyOf(j)' = "retired" }
  BY <1>1 DEF Moves
<1>2. CASE KmsCreateKey(r)
  BY <1>1, <1>2, CreateMoves, SharedMove
<1>3. CASE KmsCreateAlias(r)
  BY <1>1, <1>3, CreateAliasMoves, SharedMove
<1>4. CASE KmsDeleteAlias(r)
  <2>1. PICK k \in Key :
          \/ Moves(k, {"named"}, "unnamed") /\ UNCHANGED Leftovers
          \/ UNCHANGED Kept /\ k \in Leftovers /\ Leftovers' = Leftovers \ {k}
    BY <1>4, DeleteAliasMoves
  <2>2. CASE Moves(k, {"named"}, "unnamed") /\ UNCHANGED Leftovers
    BY <1>1, <2>2, SharedMove
  <2>3. CASE UNCHANGED Kept /\ k \in Leftovers /\ Leftovers' = Leftovers \ {k}
    BY <2>3 DEF Shared!AccountNext, Shared!LeftoverGoes, Kept
  <2> QED BY <2>1, <2>2, <2>3
<1>5. CASE KmsScheduleKeyDeletion(r)
  BY <1>5, ScheduleMoves, SharedMove
<1>6. CASE \/ KmsRefuses(r) \/ FindsFlaw(r)
           \/ KmsGetNewPublicKey(r) \/ KmsDescribeForPublicKey(r)
           \/ KmsGetPublicKey(r) \/ KmsDescribeForSign(r) \/ KmsSign(r)
           \/ KmsDescribeForVerify(r) \/ KmsVerify(r) \/ KmsDescribeForDelete(r)
  BY <1>6, FlawMet, SharedIdle
  DEF KmsRefuses, KmsGetNewPublicKey, KmsDescribeForPublicKey, KmsGetPublicKey,
      KmsDescribeForSign, KmsSign, KmsDescribeForVerify, KmsVerify, KmsDescribeForDelete
<1> QED BY <1>2, <1>3, <1>4, <1>5, <1>6 DEF KmsServes

(* Whatever the handlers of all processes do, and whatever goes wrong, the *)
(* account changes as KmsAccount says: what KeyListing takes for granted   *)
(* of the processes around a walk is what they do.                         *)
THEOREM AccountImplemented == Spec => ImplementsAccount
<1>1. Init => Shared!AccountInit
  BY KeyAssumption DEF Init, Shared!AccountInit, Shared!Keys!Init, CustodyOf, Leftovers
<1>2. Spec => []SilentInv
  <2>1. Init => SilentInv
    BY DEF Init, SilentInv
  <2> QED BY <2>1, SilentNext, TypeInvariant, PTL DEF Spec
<1>3. TypeInv /\ KeyInv /\ SilentInv /\ [Next]_vars =>
        [Shared!AccountNext]_(Shared!account)
  <2> SUFFICES ASSUME Pre, [Next]_vars
               PROVE  Shared!AccountNext \/ UNCHANGED Shared!account
    BY DEF Pre
  <2>1. CASE UNCHANGED vars
    BY <2>1, SharedIdle DEF vars, kms
  <2>2. ASSUME NEW r \in Request,
               \/ Arrive(r) \/ Acquire(r) \/ Begin(r)
               \/ Disconnect(r) \/ Vanish(r) \/ CallFails(r)
        PROVE  UNCHANGED kms
    BY <2>2 DEF Arrive, Acquire, Begin, Disconnect, Vanish, CallFails
  <2>3. ASSUME NEW p \in Replica, Crash(p) PROVE UNCHANGED kms
    BY <2>3 DEF Crash
  <2> QED BY <2>1, <2>2, <2>3, SharedIdle, SharedStep DEF Next
<1> QED
  BY <1>1, <1>2, <1>3, TypeInvariant, KeyInvariant, PTL
  DEF Spec, ImplementsAccount, Shared!AccountSpec

=============================================================================
