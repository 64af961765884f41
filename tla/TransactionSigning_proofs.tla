----------------------- MODULE TransactionSigning_proofs -----------------------
(***************************************************************************)
(* Proofs about TransactionSigning, for any names, signers and numbers,    *)
(* and any order in which names are walked and the chain moves: what an    *)
(* answer carries, and from when its account data is.                      *)
(***************************************************************************)
EXTENDS TransactionSigning, FiniteSetTheorems, TLAPS

-----------------------------------------------------------------------------
(* The last byte of an Ethereum signature.                                 *)

LEMMA ParsedType == \A n : ParsedChainId(n) \in 0..255
  BY DEF ParsedChainId, DefaultEthChainId

(* Only a v of two digits makes a signature of 65 bytes: neither a text    *)
(* that says nothing, nor a chain id that has outgrown the byte, passes.   *)
LEMMA WholeSignature ==
  ASSUME NEW id \in 0..255, NEW text \in AppendedText(id), ValidSignatureLength(text)
  PROVE  text.value \in 0..255 /\ ChainIdOf(text.value) = id
<1>1. CASE text = Nothing
  BY <1>1 DEF Nothing, ValidSignatureLength, RsLen
<1>2. CASE text = HexText(0)
  BY <1>2 DEF HexText, ValidSignatureLength, RsLen
<1>3. ASSUME NEW parity \in {0, 1}, text = HexText(V(id, parity))
      PROVE  text.value \in 0..255 /\ ChainIdOf(text.value) = id
  <2>1. V(id, parity) = 35 + 2 * id + parity /\ V(id, parity) \in Nat /\ V(id, parity) >= 16
    BY DEF V
  <2>2. text.value = V(id, parity)
        /\ text.digits = IF V(id, parity) < 256 THEN 2 ELSE 3
    BY <1>3, <2>1 DEF HexText
  <2>3. V(id, parity) < 256
    BY <2>1, <2>2 DEF ValidSignatureLength, RsLen
  <2>4. (V(id, parity) - 35) \div 2 = id
    BY <2>1
  <2> QED BY <2>1, <2>2, <2>3, <2>4 DEF ChainIdOf
<1> QED BY <1>1, <1>2, <1>3 DEF AppendedText, RecoverV

-----------------------------------------------------------------------------
(* Types.                                                                  *)

Types ==
  /\ mode \in Chains /\ chainId \in 0..255
  /\ account \in [Signer -> Account]
  /\ usable \subseteq Signer
  /\ step \in {"idle", "next", "resolve", "lookup", "sign"}
  /\ request.op \in {"hash", "transaction"} /\ request.names \subseteq Name
  /\ request.base \in Transaction
  /\ todo \subseteq request.names
  /\ signer \in Signer
  /\ info \in Info
  /\ tx \in Transaction
  /\ answer.status \in {"none", "ok", "failed", "rejected"}
  /\ answer.tx \in Transaction
  /\ since \in [Signer -> Account]

(* Between requests nothing is left of one; account information is kept    *)
(* only until the signature is made; an answer is not given beforehand.    *)
StepInv ==
  /\ step = "idle" => todo = {}
  /\ step # "sign" => info = NoInfo
  /\ step # "idle" => answer = Say("none", Unsigned)

LEMMA Constants ==
  /\ NoInfo \in Info /\ NoInfo.sequence = 0 /\ NoInfo.number = 0
  /\ Unsigned \in Transaction /\ Unsigned.signatures = <<>> /\ Unsigned.broadcast = <<>>
  /\ \A i \in Info : i.sequence \in 0..MaxSequence /\ i.number \in Nat
  BY LimitAssumption DEF NoInfo, Info, Unsigned, Transaction

LEMMA SayFields == \A status, t : Say(status, t).status = status /\ Say(status, t).tx = t
  BY DEF Say

(* What is sure of a byte that may be appended.                            *)
LEMMA LastByteType ==
  ASSUME chainId \in 0..255, NEW v \in LastByte
  PROVE  v \in 0..255 /\ (mode = "ethereum" => ChainIdOf(v) = chainId)
  BY WholeSignature DEF LastByte

LEMMA NewSignatureType ==
  ASSUME Types, NEW v \in 0..255
  PROVE  /\ NewSignature(v) \in Signature
         /\ NewSignature(v).by = signer /\ NewSignature(v).v = v
         /\ NewSignature(v).covers.sequence = info.sequence
<1>1. Covered \in Info /\ Covered.sequence = info.sequence
  BY Constants DEF Types, Covered, Info
<1> QED BY <1>1 DEF Types, NewSignature, Signature

LEMMA WithNewSignatureType ==
  ASSUME Types, NEW v \in 0..255
  PROVE  /\ WithNewSignature(v) \in Transaction
         /\ WithNewSignature(v).signatures = Append(tx.signatures, NewSignature(v))
         /\ WithNewSignature(v).auth = info
         /\ WithNewSignature(v).broadcast \in {<<>>, <<NewSignature(v)>>}
<1>1. NewSignature(v) \in Signature
  BY NewSignatureType
<1>2. tx.signatures \in Seq(Signature) /\ info \in Info
  BY DEF Types, Transaction
<1> QED BY <1>1, <1>2 DEF WithNewSignature, Transaction

(* The chain: what a handler reads changes, nothing that it has.           *)
LEMMA ChainTypes ==
  ASSUME Types, NEW s \in Signer, OpenAccount(s) \/ Advance(s) \/ LoseKey(s)
  PROVE  /\ Types'
         /\ \A q \in Signer : account'[q].sequence >= account[q].sequence
         /\ UNCHANGED <<mode, chainId, step, request, todo, signer, info, tx, answer, since>>
<1>1. \A q \in Signer : account[q] \in Account
  BY DEF Types
<1>2. \A a \in Account : /\ a.open \in BOOLEAN /\ a.keyKnown \in BOOLEAN
                         /\ a.sequence \in 0..MaxSequence
  BY DEF Account
<1>3. ASSUME OpenAccount(s)
      PROVE  /\ account' \in [Signer -> Account]
             /\ \A q \in Signer : account'[q].sequence >= account[q].sequence
  <2>1. account' = [account EXCEPT ![s] = [account[s] EXCEPT !.open = TRUE]]
    BY <1>3 DEF OpenAccount
  <2>2. [account[s] EXCEPT !.open = TRUE] \in Account
        /\ [account[s] EXCEPT !.open = TRUE].sequence = account[s].sequence
    BY <1>1 DEF Account
  <2> QED BY <1>1, <1>2, <2>1, <2>2, LimitAssumption DEF Types
<1>4. ASSUME Advance(s)
      PROVE  /\ account' \in [Signer -> Account]
             /\ \A q \in Signer : account'[q].sequence >= account[q].sequence
  <2> DEFINE known == [account[s] EXCEPT !.keyKnown = TRUE]
             next  == [known EXCEPT !.sequence = @ + 1]
  <2>1. account' = [account EXCEPT ![s] = next] /\ account[s].sequence < MaxSequence
    BY <1>4 DEF Advance
  <2>2. account[s].sequence \in 0..MaxSequence /\ account[s].sequence + 1 \in 0..MaxSequence
    BY <1>1, <1>2, <2>1, LimitAssumption
  <2>3. known \in Account /\ known.sequence = account[s].sequence
    BY <1>1 DEF Account
  <2> HIDE DEF known
  <2>4. next \in Account /\ next.sequence = account[s].sequence + 1
    BY <2>2, <2>3 DEF Account
  <2> HIDE DEF next
  <2> QED BY <1>1, <1>2, <2>1, <2>4, LimitAssumption DEF Types
<1>5. ASSUME LoseKey(s)
      PROVE  /\ account' \in [Signer -> Account]
             /\ \A q \in Signer : account'[q].sequence >= account[q].sequence
  BY <1>1, <1>2, <1>5, LimitAssumption DEF LoseKey, Types
<1>6. /\ UNCHANGED <<mode, chainId, step, request, todo, signer, info, tx, answer, since>>
      /\ usable' \subseteq usable
  BY DEF OpenAccount, Advance, LoseKey, config
<1> QED BY <1>3, <1>4, <1>5, <1>6 DEF Types

(* What a request brings.                                                  *)
LEMMA RequestType ==
  ASSUME Types, NEW r \in Request
  PROVE  /\ r.op \in {"hash", "transaction"} /\ r.names \subseteq Name
         /\ r.base \in Transaction /\ r.base \in {Unsigned, answer.tx}
  BY Constants DEF Types, Request

LEMMA StartTypes ==
  ASSUME Types, StepInv, Start
  PROVE  /\ Types' /\ StepInv'
         /\ step = "idle" /\ since' = account
         /\ UNCHANGED <<mode, chainId, account, usable, signer, info>>
         /\ \/ step' = "idle" /\ answer' = Say("rejected", Unsigned)
            \/ /\ step' = "next" /\ todo' = request'.names /\ tx' = request'.base
               /\ request'.base \in {Unsigned, answer.tx}
<1>1. PICK r \in Request :
        /\ request' = r
        /\ \/ answer' = Say("rejected", Unsigned) /\ UNCHANGED <<step, todo, tx>>
           \/ step' = "next" /\ todo' = r.names /\ tx' = r.base /\ answer' = Say("none", Unsigned)
  BY DEF Start
<1>2. /\ step = "idle" /\ since' = account
      /\ UNCHANGED <<mode, chainId, account, usable, signer, info>>
  BY DEF Start, chain
<1>3. todo = {} /\ info = NoInfo
  BY <1>2 DEF StepInv
<1>4. Types'
  BY <1>1, <1>2, <1>3, RequestType, Constants, SayFields DEF Types
<1>5. StepInv'
  BY <1>1, <1>2, <1>3 DEF StepInv
<1> QED BY <1>1, <1>2, <1>4, <1>5, RequestType

(* The end of a request: with its answer, with an error, or with nothing.  *)
LEMMA ReturnTypes ==
  ASSUME Types, NEW status \in {"none", "ok", "failed"}, NEW t \in Transaction,
         Return(status, t)
  PROVE  /\ Types' /\ StepInv'
         /\ step' = "idle" /\ answer'.status = status /\ answer'.tx = t
         /\ UNCHANGED <<mode, chainId, account, request, since>>
<1>1. /\ step' = "idle" /\ answer' = Say(status, t) /\ todo' = {} /\ info' = NoInfo /\ tx' = Unsigned
      /\ UNCHANGED <<mode, chainId, account, usable, request, signer, since>>
  BY DEF Return, chain
<1>2. Types'
  BY <1>1, Constants, SayFields DEF Types
<1> QED BY <1>1, <1>2, SayFields DEF StepInv

(* One lemma per step of a request.                                        *)
LEMMA NextNameTypes ==
  ASSUME Types, StepInv, NextName
  PROVE  \/ Fail
         \/ /\ Types' /\ StepInv' /\ step = "next" /\ step' \in {"resolve", "sign"}
            /\ UNCHANGED <<mode, chainId, account, request, since, info, tx, answer>>
            /\ \E n \in todo : todo' = todo \ {n} /\ signer' = SignerOf[n]
<1>1. SUFFICES ASSUME NEW n \in todo, step = "next",
                      todo' = todo \ {n}, signer' = SignerOf[n],
                      Await(IF mode = "casper" THEN "sign" ELSE "resolve"),
                      UNCHANGED <<info, tx>>
               PROVE  /\ Types' /\ StepInv' /\ step' \in {"resolve", "sign"}
                      /\ UNCHANGED <<mode, chainId, account, request, since, info, tx, answer>>
  BY DEF NextName
<1>2. /\ step' \in {"resolve", "sign"}
      /\ UNCHANGED <<mode, chainId, account, usable, request, since, answer>>
  BY <1>1 DEF Await, chain
<1>3. SignerOf[n] \in Signer
  BY NameAssumption DEF Types
<1> QED BY <1>1, <1>2, <1>3 DEF Types, StepInv

LEMMA ResolveTypes ==
  ASSUME Types, StepInv, ResolvePublicKey
  PROVE  /\ Types' /\ StepInv' /\ step = "resolve" /\ step' \in {"lookup", "sign"}
         /\ UNCHANGED <<mode, chainId, account, request, since, info, tx, answer, todo, signer>>
  BY DEF ResolvePublicKey, Await, chain, Types, StepInv

LEMMA LookupTypes ==
  ASSUME Types, StepInv, LookupFinds \/ LookupDefaults
  PROVE  \/ Fail
         \/ /\ Types' /\ StepInv' /\ step = "lookup" /\ step' = "sign"
            /\ info'.sequence \in {0, account[signer].sequence}
            /\ UNCHANGED <<mode, chainId, account, request, since, tx, answer, todo, signer>>
<1>1. SUFFICES ASSUME ~Fail
               PROVE  /\ Types' /\ StepInv' /\ step = "lookup" /\ step' = "sign"
                      /\ info'.sequence \in {0, account[signer].sequence}
                      /\ UNCHANGED <<mode, chainId, account, request, since, tx, answer, todo, signer>>
  OBVIOUS
<1>2. /\ step = "lookup" /\ step' = "sign"
      /\ UNCHANGED <<mode, chainId, account, usable, request, since, tx, answer, todo, signer>>
  BY <1>1 DEF LookupFinds, LookupDefaults, Await, chain
<1>3. account[signer].sequence \in 0..MaxSequence /\ NumberOf[signer] \in Nat
  BY NumberAssumption DEF Types, Account
<1>4. info' = NoInfo \/ info' = [number |-> NumberOf[signer], sequence |-> account[signer].sequence]
  BY <1>1 DEF LookupFinds, LookupDefaults
<1>5. info' \in Info /\ info'.sequence \in {0, account[signer].sequence}
  BY <1>3, <1>4, Constants DEF Info
<1> QED BY <1>2, <1>5 DEF Types, StepInv

LEMMA SignTypes ==
  ASSUME Types, StepInv, SignWithKms
  PROVE  /\ Types' /\ StepInv' /\ step = "sign" /\ step' = "next"
         /\ \E v \in LastByte : tx' = WithNewSignature(v)
         /\ UNCHANGED <<mode, chainId, account, request, since, answer, todo, signer>>
<1>1. PICK v \in LastByte : tx' = WithNewSignature(v)
  BY DEF SignWithKms
<1>2. tx' \in Transaction
  BY <1>1, LastByteType, WithNewSignatureType DEF Types
<1>3. /\ step = "sign" /\ step' = "next" /\ info' = NoInfo
      /\ UNCHANGED <<mode, chainId, account, usable, request, since, answer, todo, signer>>
  BY DEF SignWithKms, Await, chain
<1> QED BY <1>1, <1>2, <1>3, Constants DEF Types, StepInv

LEMMA EndTypes ==
  ASSUME Types, Finish \/ CallFails \/ Abandon \/ Fail
  PROVE  \/ Finish /\ Return("ok", tx)
         \/ \E status \in {"none", "failed"} : Return(status, Unsigned)
  BY DEF Finish, CallFails, Abandon, Fail

LEMMA NextTypes == Types /\ StepInv /\ [Next]_vars => Types' /\ StepInv'
<1> SUFFICES ASSUME Types, StepInv, [Next]_vars PROVE Types' /\ StepInv'
  OBVIOUS
<1>1. ASSUME NEW s \in Signer, OpenAccount(s) \/ Advance(s) \/ LoseKey(s)
      PROVE  Types' /\ StepInv'
  BY <1>1, ChainTypes DEF StepInv
<1>2. ASSUME Finish \/ CallFails \/ Abandon \/ Fail PROVE Types' /\ StepInv'
  BY <1>2, EndTypes, ReturnTypes, Constants DEF Types
<1>3. CASE Handler
  BY <1>2, <1>3, NextNameTypes, ResolveTypes, LookupTypes, SignTypes DEF Handler
<1>4. CASE UNCHANGED vars
  BY <1>4 DEF vars, Types, StepInv
<1> QED BY <1>1, <1>2, <1>3, <1>4, StartTypes DEF Next

LEMMA InitTypes == Init => Types /\ StepInv
<1> SUFFICES ASSUME Init PROVE Types /\ StepInv
  OBVIOUS
<1>1. chainId \in 0..255
  BY ParsedType DEF Init, DefaultEthChainId
<1>2. account \in [Signer -> Account]
  BY LimitAssumption DEF Init, Account
<1>3. request.op = "hash" /\ request.names = {} /\ request.base = Unsigned
  BY DEF Init
<1> QED BY <1>1, <1>2, <1>3, Constants, SayFields DEF Init, Types, StepInv

LEMMA TypeInvariant == Spec => [](Types /\ StepInv)
  BY InitTypes, NextTypes, PTL DEF Spec

(* Every variable has its type; in particular nothing but whole signatures *)
(* of known signers gets into a transaction.                               *)
THEOREM TypeCorrect == Spec => []TypeOK
<1>1. Types => TypeOK
  BY DEF Types, TypeOK
<1> QED BY <1>1, TypeInvariant, PTL

-----------------------------------------------------------------------------
(* What a step does to the signatures of the current request: it forgets   *)
(* them, keeps them, or adds one by the signer of the moment.              *)

BaseInv ==
  step # "idle" =>
    /\ Len(request.base.signatures) <= Len(tx.signatures)
    /\ \A i \in 1..Len(request.base.signatures) :
         tx.signatures[i] = request.base.signatures[i]

(* No signature is made for the request, or the request is a new one.      *)
Forgets == Made' = {}

(* Neither the request changes nor what was signed for it.                 *)
Keeps ==
  /\ Signatures' = Signatures /\ Made' = Made
  /\ UNCHANGED <<mode, chainId, request, since>>
  /\ \A q \in Signer : account'[q].sequence >= account[q].sequence

Adds ==
  /\ step = "sign" /\ step' = "next"
  /\ \E v \in LastByte :
       /\ tx' = WithNewSignature(v)
       /\ Signatures' = Append(Signatures, NewSignature(v))
  /\ Made' = Made \cup {Len(Signatures) + 1}
  /\ UNCHANGED <<mode, chainId, account, request, since, answer, todo, signer>>

Lists == Signatures \in Seq(Signature) /\ Len(request.base.signatures) \in Nat

LEMMA ListTypes == Types => Lists
  BY DEF Types, Transaction, Lists, Signatures

LEMMA ReturnEffect ==
  ASSUME Types, StepInv, BaseInv, Finish \/ CallFails \/ Abandon \/ Fail
  PROVE  /\ BaseInv' /\ step' = "idle"
         /\ \/ Forgets /\ answer'.status # "ok" /\ answer'.tx = Unsigned
            \/ Keeps /\ Finish /\ answer'.status = "ok" /\ answer'.tx = tx /\ step = "next" /\ todo = {}
               /\ request' = request
<1>1. CASE \E status \in {"none", "failed"} : Return(status, Unsigned)
  <2>1. step' = "idle" /\ answer'.tx = Unsigned /\ answer'.status # "ok" /\ request' = request
    BY <1>1, ReturnTypes, Constants
  <2>2. Signatures' = <<>>
    BY <2>1, Constants DEF Signatures
  <2>3. Made' = {}
    BY <2>1, <2>2, ListTypes DEF Made, Lists
  <2> QED BY <2>1, <2>3 DEF Forgets, BaseInv
<1>2. CASE Finish /\ Return("ok", tx)
  <2>1. /\ step' = "idle" /\ answer'.tx = tx /\ answer'.status = "ok"
        /\ UNCHANGED <<mode, chainId, account, request, since>>
    BY <1>2, ReturnTypes DEF Types
  <2>2. step = "next" /\ todo = {}
    BY <1>2 DEF Finish
  <2>3. Signatures' = Signatures /\ Made' = Made
    BY <2>1, <2>2 DEF Signatures, Made
  <2>4. \A q \in Signer : account[q].sequence >= account[q].sequence
    BY LimitAssumption DEF Types, Account
  <2> QED BY <1>2, <2>1, <2>2, <2>3, <2>4 DEF Keeps, BaseInv
<1> QED BY <1>1, <1>2, EndTypes

LEMMA StartEffect ==
  ASSUME Types, StepInv, Start
  PROVE  BaseInv' /\ Forgets
<1>1. CASE step' = "idle" /\ answer' = Say("rejected", Unsigned)
  <2>1. Signatures' = <<>> /\ Len(request'.base.signatures) \in Nat
    BY <1>1, StartTypes, SayFields, Constants DEF Signatures, Types, Transaction
  <2> QED BY <1>1, <2>1 DEF Forgets, Made, BaseInv
<1>2. CASE step' = "next" /\ tx' = request'.base
  <2>1. Signatures' = request'.base.signatures /\ Len(request'.base.signatures) \in Nat
    BY <1>2, StartTypes DEF Signatures, Types, Transaction
  <2> QED BY <1>2, <2>1 DEF Forgets, Made, BaseInv
<1> QED BY <1>1, <1>2, StartTypes

LEMMA SignEffect ==
  ASSUME Types, StepInv, BaseInv, SignWithKms
  PROVE  BaseInv' /\ Adds
<1>1. /\ step = "sign" /\ step' = "next"
      /\ UNCHANGED <<mode, chainId, account, request, since, answer, todo, signer>>
  BY SignTypes
<1>2. PICK v \in LastByte : tx' = WithNewSignature(v)
  BY SignTypes
<1>3. v \in 0..255
  BY LastByteType DEF Types
<1>4. tx'.signatures = Append(tx.signatures, NewSignature(v)) /\ NewSignature(v) \in Signature
  BY <1>2, <1>3, WithNewSignatureType, NewSignatureType
<1>5. Signatures = tx.signatures /\ Signatures' = tx'.signatures
  BY <1>1 DEF Signatures
<1>6. /\ tx.signatures \in Seq(Signature) /\ Len(request.base.signatures) \in Nat
      /\ Len(request.base.signatures) <= Len(tx.signatures)
      /\ \A i \in 1..Len(request.base.signatures) : tx.signatures[i] = request.base.signatures[i]
  BY <1>1, <1>5, ListTypes DEF Lists, BaseInv
<1>7. /\ Len(tx'.signatures) = Len(tx.signatures) + 1
      /\ \A i \in 1..Len(tx.signatures) : tx'.signatures[i] = tx.signatures[i]
  BY <1>4, <1>6
<1>8. BaseInv'
  BY <1>1, <1>6, <1>7 DEF BaseInv
<1>9. Made' = Made \cup {Len(Signatures) + 1}
  BY <1>1, <1>5, <1>6, <1>7 DEF Made
<1> QED BY <1>1, <1>2, <1>4, <1>5, <1>8, <1>9 DEF Adds

LEMMA OtherEffect ==
  ASSUME Types, StepInv, BaseInv,
         \/ \E s \in Signer : OpenAccount(s) \/ Advance(s) \/ LoseKey(s)
         \/ ~Fail /\ (NextName \/ ResolvePublicKey \/ LookupFinds \/ LookupDefaults)
         \/ UNCHANGED vars
  PROVE  BaseInv' /\ Keeps
<1>1. /\ UNCHANGED <<mode, chainId, request, since, tx, answer>>
      /\ step' = step \/ (step # "idle" /\ step' # "idle")
      /\ \A q \in Signer : account'[q].sequence >= account[q].sequence
  <2>1. \A q \in Signer : account[q].sequence >= account[q].sequence
    BY LimitAssumption DEF Types, Account
  <2> QED BY <2>1, ChainTypes, NextNameTypes, ResolveTypes, LookupTypes DEF vars
<1>2. Signatures' = Signatures
  BY <1>1 DEF Signatures
<1> QED BY <1>1, <1>2 DEF Keeps, Made, BaseInv

LEMMA Effect ==
  ASSUME Types, StepInv, BaseInv, [Next]_vars
  PROVE  BaseInv' /\ (Forgets \/ Keeps \/ Adds)
<1>1. CASE Finish \/ CallFails \/ Abandon \/ Fail
  BY <1>1, ReturnEffect
<1>2. CASE Start
  BY <1>2, StartEffect
<1>3. CASE SignWithKms
  BY <1>3, SignEffect
<1> QED BY <1>1, <1>2, <1>3, OtherEffect DEF Next, Handler

LEMMA BaseKept == Spec => []BaseInv
<1>1. Init => BaseInv
  BY DEF Init, BaseInv
<1> QED BY <1>1, Effect, TypeInvariant, PTL DEF Spec

(* Before the first request nothing has been made.                         *)
LEMMA InitMade == Init => Made = {}
<1> SUFFICES ASSUME Init PROVE Made = {}
  OBVIOUS
<1>1. request.base.signatures = <<>> /\ Signatures = <<>>
  BY Constants, SayFields DEF Init, Signatures
<1> QED BY <1>1 DEF Made

(* Whatever chain id the environment names, and whatever the module        *)
(* returns, a signature that is answered gives that chain id to its        *)
(* receiver (ethereum_keys_service.rs:252-270, 370-377).                   *)
THEOREM ChainIdRecovered == Spec => []RecoversChainId
<1>1. Init => RecoversChainId
  BY InitMade DEF RecoversChainId
<1>2. ASSUME Types, StepInv, BaseInv, RecoversChainId, [Next]_vars PROVE RecoversChainId'
  <2>1. CASE Forgets
    BY <2>1 DEF Forgets, RecoversChainId
  <2>2. CASE Keeps
    BY <1>2, <2>2 DEF Keeps, RecoversChainId
  <2>3. CASE Adds
    <3>1. PICK v \in LastByte : Signatures' = Append(Signatures, NewSignature(v))
      BY <2>3 DEF Adds
    <3>2. /\ v \in 0..255 /\ (mode = "ethereum" => ChainIdOf(v) = chainId)
          /\ NewSignature(v).v = v /\ NewSignature(v) \in Signature
      BY <1>2, LastByteType, NewSignatureType DEF Types
    <3>3. Signatures \in Seq(Signature) /\ Made \subseteq 1..Len(Signatures)
      BY <1>2, ListTypes DEF Lists, Made
    <3>4. /\ \A i \in Made : Signatures'[i] = Signatures[i]
          /\ Signatures'[Len(Signatures) + 1] = NewSignature(v)
      BY <3>1, <3>2, <3>3
    <3> QED BY <1>2, <2>3, <3>2, <3>4 DEF Adds, RecoversChainId
  <2> QED BY <1>2, <2>1, <2>2, <2>3, Effect
<1> QED BY <1>1, <1>2, TypeInvariant, BaseKept, PTL DEF Spec

-----------------------------------------------------------------------------
(* What is shown with a signature is what it was made over, in a           *)
(* transaction that is being signed, answered, or sent again.              *)

Consistent(t) ==
  t.broadcast # <<>> =>
    /\ t.broadcast = <<Last(t.signatures)>>
    /\ t.broadcast[1].covers.sequence = t.auth.sequence

ConsistentInv == Consistent(tx) /\ Consistent(answer.tx)

LEMMA SignConsistent ==
  ASSUME Types, NEW v \in 0..255
  PROVE  Consistent(WithNewSignature(v))
<1>1. CASE WithNewSignature(v).broadcast = <<>>
  BY <1>1 DEF Consistent
<1>2. CASE WithNewSignature(v).broadcast = <<NewSignature(v)>>
  <2>1. tx.signatures \in Seq(Signature) /\ NewSignature(v) \in Signature
    BY NewSignatureType DEF Types, Transaction
  <2>2. Last(WithNewSignature(v).signatures) = NewSignature(v)
    <3> DEFINE last == NewSignature(v)
    <3>1. WithNewSignature(v).signatures = Append(tx.signatures, last)
      BY WithNewSignatureType
    <3>2. last \in Signature
      BY <2>1
    <3> HIDE DEF last
    <3>3. Last(Append(tx.signatures, last)) = last
      BY <2>1, <3>2 DEF Last
    <3> QED BY <3>1, <3>3 DEF last
  <2>3. WithNewSignature(v).broadcast[1].covers.sequence = WithNewSignature(v).auth.sequence
    <3>1. WithNewSignature(v).broadcast[1] = NewSignature(v)
      BY <1>2
    <3>2. NewSignature(v).covers.sequence = info.sequence /\ WithNewSignature(v).auth = info
      BY NewSignatureType, WithNewSignatureType
    <3> QED BY <3>1, <3>2
  <2> QED BY <1>2, <2>2, <2>3 DEF Consistent
<1> QED BY <1>1, <1>2, WithNewSignatureType

(* The broadcast request of an answer carries its last signature, made     *)
(* over the sequence that the answer shows, however many keys signed       *)
(* (cosmos_keys_service.rs, the broadcast_request of an answer).           *)
THEOREM AnswersAreConsistent == Spec => []AnswerConsistent
<1>1. Init => ConsistentInv
  <2>1. Consistent(Unsigned)
    BY Constants DEF Consistent
  <2> QED BY <2>1, SayFields DEF Init, ConsistentInv
<1>2. ASSUME Types, StepInv, ConsistentInv, [Next]_vars PROVE ConsistentInv'
  <2>1. Consistent(Unsigned)
    BY Constants DEF Consistent
  <2>2. ASSUME Finish \/ CallFails \/ Abandon \/ Fail PROVE ConsistentInv'
    <3>1. tx' = Unsigned
      BY <2>2 DEF Finish, CallFails, Abandon, Fail, Return
    <3>2. answer'.tx \in {tx, Unsigned}
      BY <1>2, <2>2, EndTypes, ReturnTypes, Constants DEF Types
    <3> QED BY <1>2, <2>1, <3>1, <3>2 DEF ConsistentInv
  <2>3. CASE Start
    <3>1. (tx' = tx \/ tx' \in {Unsigned, answer.tx}) /\ answer'.tx = Unsigned
      BY <1>2, <2>3, SayFields DEF Start, Request
    <3> QED BY <1>2, <2>1, <3>1 DEF ConsistentInv
  <2>4. CASE SignWithKms
    <3>1. PICK v \in LastByte : tx' = WithNewSignature(v) /\ answer' = answer
      BY <1>2, <2>4, SignTypes
    <3> QED BY <1>2, <3>1, LastByteType, SignConsistent DEF ConsistentInv, Types
  <2>5. CASE \/ \E s \in Signer : OpenAccount(s) \/ Advance(s) \/ LoseKey(s)
             \/ ~Fail /\ (NextName \/ ResolvePublicKey \/ LookupFinds \/ LookupDefaults)
             \/ UNCHANGED vars
    <3>1. tx' = tx /\ answer' = answer
      BY <1>2, <2>5, ChainTypes, NextNameTypes, ResolveTypes, LookupTypes DEF vars
    <3> QED BY <1>2, <3>1 DEF ConsistentInv
  <2> QED BY <1>2, <2>2, <2>3, <2>4, <2>5 DEF Next, Handler
<1>3. ConsistentInv => AnswerConsistent
  BY DEF ConsistentInv, Consistent, AnswerConsistent
<1> QED BY <1>1, <1>2, <1>3, TypeInvariant, PTL DEF Spec

-----------------------------------------------------------------------------
(* Account data: sequences only grow, and what a handler has looked up is  *)
(* from the time of its request.                                           *)

TimelyInv ==
  /\ \A q \in Signer : since[q].sequence <= account[q].sequence
  /\ info.sequence = 0 \/ info.sequence \in since[signer].sequence .. account[signer].sequence
  /\ SequenceTimely

LEMMA Sequences ==
  Types => /\ \A q \in Signer : since[q].sequence \in Nat /\ account[q].sequence \in Nat
           /\ info.sequence \in Nat /\ signer \in Signer
           /\ \A i \in Made : Signatures[i].by \in Signer /\ Signatures[i].covers.sequence \in Nat
<1> SUFFICES ASSUME Types
             PROVE  /\ \A q \in Signer : since[q].sequence \in Nat /\ account[q].sequence \in Nat
                    /\ info.sequence \in Nat /\ signer \in Signer
                    /\ \A i \in Made : /\ Signatures[i].by \in Signer
                                       /\ Signatures[i].covers.sequence \in Nat
  OBVIOUS
<1>1. \A q \in Signer : since[q].sequence \in Nat /\ account[q].sequence \in Nat
  BY LimitAssumption DEF Types, Account
<1>2. info.sequence \in Nat /\ signer \in Signer
  BY Constants, LimitAssumption DEF Types
<1>3. \A sig \in Signature : sig.by \in Signer /\ sig.covers.sequence \in Nat
  BY Constants, LimitAssumption DEF Signature
<1>4. \A i \in Made : Signatures[i] \in Signature
  BY ListTypes DEF Lists, Made
<1> QED BY <1>1, <1>2, <1>3, <1>4

LEMMA StartTimely ==
  ASSUME Types, StepInv, Start
  PROVE  TimelyInv'
<1>1. Types' /\ since' = account /\ account' = account /\ info' = info /\ info = NoInfo
  BY StartTypes DEF StepInv
<1>2. Made' = {}
  BY StartEffect DEF Forgets
<1>3. \A q \in Signer : since'[q].sequence <= account'[q].sequence
  BY <1>1, Sequences
<1> QED BY <1>1, <1>2, <1>3, Constants DEF TimelyInv, SequenceTimely

(* Signatures that were timely stay so while sequences grow.               *)
LEMMA SignaturesStayTimely ==
  ASSUME Types, TimelyInv, Keeps, Types'
  PROVE  /\ SequenceTimely'
         /\ \A q \in Signer : since'[q].sequence <= account'[q].sequence
<1>1. /\ since' = since /\ Signatures' = Signatures /\ Made' = Made
      /\ \A q \in Signer : account'[q].sequence >= account[q].sequence
  BY DEF Keeps
<1>2. \A q \in Signer : account'[q].sequence \in Nat
  BY Sequences, LimitAssumption DEF Types, Account
<1>3. \A q \in Signer : since[q].sequence .. account[q].sequence
                          \subseteq since'[q].sequence .. account'[q].sequence
  BY <1>1, <1>2, Sequences
<1>4. \A i \in Made : Signatures[i].by \in Signer
  BY Sequences
<1>5. SequenceTimely'
  BY <1>1, <1>3, <1>4 DEF TimelyInv, SequenceTimely
<1> QED BY <1>1, <1>2, <1>5, Sequences DEF TimelyInv

LEMMA KeepsTimely ==
  ASSUME Types, TimelyInv, Keeps, Types',
         \/ info' = info /\ signer' = signer
         \/ info'.sequence = 0
         \/ info'.sequence = account[signer].sequence /\ signer' = signer
  PROVE  TimelyInv'
<1>1. since' = since /\ \A q \in Signer : account'[q].sequence >= account[q].sequence
  BY DEF Keeps
<1>2. \A q \in Signer : account'[q].sequence \in Nat
  BY LimitAssumption DEF Types, Account
<1>3. info'.sequence = 0 \/ info'.sequence \in since'[signer'].sequence .. account'[signer'].sequence
  <2>1. CASE info' = info /\ signer' = signer
    BY <1>1, <1>2, <2>1, Sequences DEF TimelyInv
  <2>2. CASE info'.sequence = account[signer].sequence /\ signer' = signer
    BY <1>1, <1>2, <2>2, Sequences DEF TimelyInv
  <2> QED BY <2>1, <2>2
<1> QED BY <1>3, SignaturesStayTimely DEF TimelyInv

LEMMA AddsTimely ==
  ASSUME Types, TimelyInv, Adds, info'.sequence = 0
  PROVE  TimelyInv'
<1>1. PICK v \in LastByte : Signatures' = Append(Signatures, NewSignature(v))
  BY DEF Adds
<1>2. UNCHANGED <<account, since>> /\ Made' = Made \cup {Len(Signatures) + 1}
  BY DEF Adds
<1>3. /\ NewSignature(v) \in Signature /\ NewSignature(v).by = signer
      /\ NewSignature(v).covers.sequence = info.sequence
  BY LastByteType, NewSignatureType DEF Types
<1>4. Signatures \in Seq(Signature) /\ Made \subseteq 1..Len(Signatures)
  BY ListTypes DEF Lists, Made
<1>5. /\ \A i \in Made : Signatures'[i] = Signatures[i]
      /\ Signatures'[Len(Signatures) + 1] = NewSignature(v)
  BY <1>1, <1>3, <1>4
<1>6. SequenceTimely'
  BY <1>2, <1>3, <1>5 DEF TimelyInv, SequenceTimely
<1> QED BY <1>2, <1>6 DEF TimelyInv

(* A Cosmos signature covers a sequence that the account had since the     *)
(* request began, or the default: never one from before                    *)
(* (cosmos_keys_service.rs, fetch_account_info).                           *)
THEOREM SequencesAreTimely == Spec => []SequenceTimely
<1>1. Init => TimelyInv
  <2> SUFFICES ASSUME Init PROVE TimelyInv
    OBVIOUS
  <2>1. \A q \in Signer : since[q].sequence <= account[q].sequence
    BY InitTypes, Sequences DEF Init
  <2> QED BY <2>1, InitMade, Constants DEF Init, TimelyInv, SequenceTimely
<1>2. ASSUME Types, StepInv, BaseInv, TimelyInv, [Next]_vars PROVE TimelyInv'
  <2>1. Types' /\ StepInv'
    BY <1>2, NextTypes
  <2>2. CASE Start
    BY <1>2, <2>2, StartTimely
  <2>3. CASE SignWithKms
    <3>1. info'.sequence = 0
      BY <1>2, <2>1, <2>3, SignTypes, Constants DEF StepInv
    <3> QED BY <1>2, <2>3, <3>1, SignEffect, AddsTimely
  <2>4. CASE Finish \/ CallFails \/ Abandon \/ Fail
    <3>1. /\ step' = "idle" /\ info'.sequence = 0
          /\ UNCHANGED <<account, since>>
      BY <1>2, <2>4, EndTypes, ReturnTypes, Constants DEF Types, Return, chain
    <3>2. CASE Keeps
      BY <1>2, <2>1, <3>1, <3>2, KeepsTimely
    <3>3. CASE Forgets
      BY <1>2, <3>1, <3>3 DEF Forgets, TimelyInv, SequenceTimely
    <3> QED BY <1>2, <2>4, <3>2, <3>3, ReturnEffect
  <2>5. CASE \/ \E s \in Signer : OpenAccount(s) \/ Advance(s) \/ LoseKey(s)
             \/ ~Fail /\ (NextName \/ ResolvePublicKey \/ LookupFinds \/ LookupDefaults)
             \/ UNCHANGED vars
    <3>1. Keeps
      BY <1>2, <2>5, OtherEffect
    <3>2. \/ info' = info /\ signer' = signer
          \/ info'.sequence = 0
          \/ info'.sequence = account[signer].sequence /\ signer' = signer
      <4>1. ASSUME NextName, ~Fail PROVE info'.sequence = 0
        <5>1. info' = info /\ info = NoInfo
          BY <1>2, <4>1, NextNameTypes DEF StepInv
        <5> QED BY <5>1, Constants
      <4> QED BY <1>2, <2>5, <4>1, ChainTypes, ResolveTypes, LookupTypes DEF vars
    <3> QED BY <1>2, <2>1, <3>1, <3>2, KeepsTimely
  <2> QED BY <1>2, <2>2, <2>3, <2>4, <2>5 DEF Next, Handler
<1>3. TimelyInv => SequenceTimely
  BY DEF TimelyInv
<1> QED BY <1>1, <1>2, <1>3, TypeInvariant, BaseKept, PTL DEF Spec

-----------------------------------------------------------------------------
(* All or nothing.  While a request is served, every name that has been    *)
(* taken from the set has its signature, or is being signed with.          *)

Signing == step \in {"resolve", "lookup", "sign"}

TakenOf(s) == { n \in request.names \ todo : SignerOf[n] = s }
PlacesOf(s) == { i \in Made : Signatures[i].by = s }

CountInv ==
  step # "idle" =>
    \A s \in Signer :
      Cardinality(TakenOf(s)) = MadeBy(s) + IF Signing /\ s = signer THEN 1 ELSE 0

AnswerInv ==
  (step = "idle" /\ answer.status = "ok") =>
    /\ IsPrefix(request.base.signatures, answer.tx.signatures)
    /\ \A s \in Signer : MadeBy(s) = Cardinality(NamesOf(s))

LEMMA Finite ==
  ASSUME Types, NEW s \in Signer
  PROVE  /\ IsFiniteSet(TakenOf(s)) /\ IsFiniteSet(PlacesOf(s))
         /\ MadeBy(s) = Cardinality(PlacesOf(s)) /\ MadeBy(s) \in Nat
         /\ Cardinality(TakenOf(s)) \in Nat
<1>1. TakenOf(s) \in SUBSET Name
  BY DEF Types, TakenOf
<1>2. Made = Len(request.base.signatures) + 1 .. Len(Signatures)
      /\ Len(request.base.signatures) + 1 \in Int /\ Len(Signatures) \in Int
  BY ListTypes DEF Lists, Made
<1>3. IsFiniteSet(Made)
  BY <1>2, FS_Interval
<1>4. PlacesOf(s) \in SUBSET Made
  BY DEF PlacesOf
<1>5. IsFiniteSet(TakenOf(s)) /\ IsFiniteSet(PlacesOf(s))
  BY <1>1, <1>3, <1>4, NameAssumption, FS_Subset
<1>6. MadeBy(s) = Cardinality(PlacesOf(s))
  BY DEF MadeBy, PlacesOf
<1> QED BY <1>5, <1>6, FS_CardinalityType

LEMMA StartCount ==
  ASSUME Types, StepInv, Start
  PROVE  CountInv' /\ AnswerInv'
<1>1. CASE step' = "idle" /\ answer' = Say("rejected", Unsigned)
  BY <1>1, SayFields DEF CountInv, AnswerInv
<1>2. CASE step' = "next" /\ todo' = request'.names
  <2>1. Made' = {}
    BY StartEffect DEF Forgets
  <2>2. \A s \in Signer : TakenOf(s)' = {}
    BY <1>2 DEF TakenOf
  <2>3. \A s \in Signer : MadeBy(s)' = 0
    BY <2>1, FS_EmptySet DEF MadeBy
  <2> QED BY <1>2, <2>2, <2>3, FS_EmptySet DEF CountInv, AnswerInv, Signing
<1> QED BY <1>1, <1>2, StartTypes

LEMMA NextNameCount ==
  ASSUME Types, StepInv, BaseInv, CountInv, NextName, ~Fail
  PROVE  CountInv' /\ AnswerInv'
<1>1. /\ step = "next" /\ step' \in {"resolve", "sign"}
      /\ UNCHANGED <<mode, chainId, account, request, since, info, tx, answer>>
  BY NextNameTypes
<1>2. PICK n \in todo : todo' = todo \ {n} /\ signer' = SignerOf[n]
  BY NextNameTypes
<1>3. n \in request.names /\ n \in Name
  BY <1>2 DEF Types
<1>4. \A s \in Signer : MadeBy(s)' = MadeBy(s)
  BY OtherEffect DEF Keeps, MadeBy
<1>5. ASSUME NEW s \in Signer
      PROVE  Cardinality(TakenOf(s)') = MadeBy(s)' + IF Signing' /\ s = signer' THEN 1 ELSE 0
  <2>1. Cardinality(TakenOf(s)) = MadeBy(s) /\ MadeBy(s) \in Nat
    BY <1>1, Finite DEF CountInv, Signing
  <2>2. CASE s = signer'
    <3>1. TakenOf(s)' = TakenOf(s) \cup {n} /\ n \notin TakenOf(s)
      BY <1>1, <1>2, <1>3, <2>2 DEF TakenOf
    <3>2. Cardinality(TakenOf(s)') = Cardinality(TakenOf(s)) + 1
      BY <3>1, Finite, FS_AddElement
    <3> QED BY <1>1, <1>4, <2>1, <2>2, <3>2 DEF Signing
  <2>3. CASE s # signer'
    <3>1. TakenOf(s)' = TakenOf(s)
      BY <1>1, <1>2, <2>3 DEF TakenOf
    <3> QED BY <1>4, <2>1, <2>3, <3>1
  <2> QED BY <2>2, <2>3
<1> QED BY <1>1, <1>5 DEF CountInv, AnswerInv

LEMMA SignCount ==
  ASSUME Types, StepInv, BaseInv, CountInv, SignWithKms, Types'
  PROVE  CountInv' /\ AnswerInv'
<1>1. /\ step = "sign" /\ step' = "next"
      /\ UNCHANGED <<mode, chainId, account, request, since, answer, todo, signer>>
  BY SignTypes
<1>2. PICK v \in LastByte : Signatures' = Append(Signatures, NewSignature(v))
  BY SignEffect DEF Adds
<1>3. Made' = Made \cup {Len(Signatures) + 1}
  BY SignEffect DEF Adds
<1>4. NewSignature(v) \in Signature /\ NewSignature(v).by = signer
  BY LastByteType, NewSignatureType DEF Types
<1>5. Signatures \in Seq(Signature) /\ Made \subseteq 1..Len(Signatures)
  BY ListTypes DEF Lists, Made
<1>6. /\ \A i \in Made : Signatures'[i] = Signatures[i]
      /\ Signatures'[Len(Signatures) + 1] = NewSignature(v)
      /\ Len(Signatures) + 1 \notin Made
  BY <1>2, <1>4, <1>5
<1>7. ASSUME NEW s \in Signer
      PROVE  Cardinality(TakenOf(s)') = MadeBy(s)' + IF Signing' /\ s = signer' THEN 1 ELSE 0
  <2>1. TakenOf(s)' = TakenOf(s)
    BY <1>1 DEF TakenOf
  <2>2. MadeBy(s)' = Cardinality(PlacesOf(s)')
    BY DEF MadeBy, PlacesOf
  <2>3. CASE s = signer
    <3>1. PlacesOf(s)' = PlacesOf(s) \cup {Len(Signatures) + 1}
          /\ Len(Signatures) + 1 \notin PlacesOf(s)
      BY <1>3, <1>4, <1>6, <2>3 DEF PlacesOf
    <3>2. Cardinality(PlacesOf(s)') = Cardinality(PlacesOf(s)) + 1
      BY <3>1, Finite, FS_AddElement
    <3> QED BY <1>1, <2>1, <2>2, <2>3, <3>2, Finite DEF CountInv, Signing
  <2>4. CASE s # signer
    <3>1. PlacesOf(s)' = PlacesOf(s)
      BY <1>3, <1>4, <1>6, <2>4 DEF PlacesOf
    <3> QED BY <1>1, <2>1, <2>2, <2>4, <3>1, Finite DEF CountInv, Signing
  <2> QED BY <2>3, <2>4
<1> QED BY <1>1, <1>7 DEF CountInv, AnswerInv

(* When no name is left every one has its signature.                       *)
LEMMA FinishCount ==
  ASSUME Types, StepInv, BaseInv, CountInv, Finish \/ CallFails \/ Abandon \/ Fail
  PROVE  CountInv' /\ AnswerInv'
<1>1. step' = "idle"
  BY ReturnEffect
<1>2. CASE answer'.status # "ok"
  BY <1>1, <1>2 DEF CountInv, AnswerInv
<1>3. CASE answer'.status = "ok"
  <2>1. /\ Keeps /\ answer'.tx = tx /\ step = "next" /\ todo = {} /\ request' = request
    BY <1>3, ReturnEffect
  <2>2. ASSUME NEW s \in Signer PROVE MadeBy(s)' = Cardinality(NamesOf(s)')
    <3>1. MadeBy(s)' = MadeBy(s)
      BY <2>1 DEF Keeps, MadeBy
    <3>2. NamesOf(s)' = TakenOf(s)
      BY <2>1 DEF NamesOf, TakenOf
    <3> QED BY <2>1, <3>1, <3>2, Finite DEF CountInv, Signing
  <2>3. IsPrefix(request'.base.signatures, answer'.tx.signatures)
    <3> DEFINE b == request.base.signatures
               t == tx.signatures
    <3>1. b \in Seq(Signature) /\ t \in Seq(Signature)
      BY DEF Types, Transaction
    <3>2. Len(b) <= Len(t) /\ \A i \in 1..Len(b) : t[i] = b[i]
      BY <2>1 DEF BaseInv
    <3> HIDE DEF b, t
    <3>3. SubSeq(b, 1, Len(b)) = SubSeq(t, 1, Len(b))
      BY <3>1, <3>2
    <3>4. IsPrefix(b, t)
      BY <3>2, <3>3 DEF IsPrefix
    <3> QED BY <2>1, <3>4 DEF b, t
  <2> QED BY <1>1, <2>2, <2>3 DEF CountInv, AnswerInv
<1> QED BY <1>2, <1>3

LEMMA OtherCount ==
  ASSUME Types, StepInv, BaseInv, CountInv, AnswerInv,
         \/ \E s \in Signer : OpenAccount(s) \/ Advance(s) \/ LoseKey(s)
         \/ ~Fail /\ (ResolvePublicKey \/ LookupFinds \/ LookupDefaults)
         \/ UNCHANGED vars
  PROVE  CountInv' /\ AnswerInv'
<1>1. /\ UNCHANGED <<request, answer, todo, signer>>
      /\ \/ step' = step
         \/ Signing /\ Signing' /\ step # "idle" /\ step' # "idle"
  BY ChainTypes, ResolveTypes, LookupTypes DEF vars, Signing
<1>2. \A s \in Signer : MadeBy(s)' = MadeBy(s)
  BY OtherEffect DEF Keeps, MadeBy
<1>3. \A s \in Signer : TakenOf(s)' = TakenOf(s) /\ NamesOf(s)' = NamesOf(s)
  BY <1>1 DEF TakenOf, NamesOf
<1> QED BY <1>1, <1>2, <1>3 DEF CountInv, AnswerInv, Signing

(* An answer has a signature for every name asked for, and those that the  *)
(* transaction came with: in any order of the names, for a key that is     *)
(* named twice, and whatever happens in between (routes.rs, the loops of   *)
(* sign_transaction and sign_transaction_hash).                            *)
THEOREM AnswersAllOrNothing == Spec => []AllOrNothing
<1>1. Init => CountInv /\ AnswerInv
  BY SayFields DEF Init, CountInv, AnswerInv
<1>2. ASSUME Types, StepInv, BaseInv, CountInv, AnswerInv, [Next]_vars
      PROVE  CountInv' /\ AnswerInv'
  <2>1. Types'
    BY <1>2, NextTypes
  <2> QED BY <1>2, <2>1, StartCount, NextNameCount, SignCount, FinishCount, OtherCount
          DEF Next, Handler
<1>3. StepInv /\ AnswerInv => AllOrNothing
  BY SayFields DEF StepInv, AnswerInv, AllOrNothing
<1> QED BY <1>1, <1>2, <1>3, TypeInvariant, BaseKept, PTL DEF Spec

-----------------------------------------------------------------------------
(* The work a request has left: every stage of a name is followed by a     *)
(* later one, and after the last one the name does not come back.          *)
THEOREM RequestsRunOut == Spec => WorkRunsOut
<1> DEFINE Shrinks == /\ step # "idle" /\ step' # "idle" => Work' < Work
                      /\ step = "idle" /\ step' # "idle" => Work' <= 4 * MaxKeys
<1>1. ASSUME Types, Types', StepInv, Next PROVE Shrinks \/ UNCHANGED <<step, todo>>
  <2>1. /\ IsFiniteSet(todo) /\ Cardinality(todo) \in Nat
        /\ Cardinality(todo') \in Nat
    <3>1. todo \subseteq Name /\ todo' \subseteq Name
      BY <1>1 DEF Types
    <3> QED BY <3>1, NameAssumption, FS_Subset, FS_CardinalityType
  <2>2. \A status, t : Return(status, t) => step' = "idle"
    BY DEF Return
  <2>3. CASE \E s \in Signer : OpenAccount(s) \/ Advance(s) \/ LoseKey(s)
    BY <2>3 DEF OpenAccount, Advance, LoseKey
  <2>4. CASE Start
    <3>1. PICK r \in Request : /\ step = "idle"
                               /\ \/ UNCHANGED <<step, todo>>
                                  \/ /\ ~(Cardinality(r.names) > MaxKeys)
                                     /\ step' = "next" /\ todo' = r.names
      BY <2>4 DEF Start
    <3>2. CASE ~(Cardinality(r.names) > MaxKeys) /\ step' = "next" /\ todo' = r.names
      <4>1. Work' = 4 * Cardinality(todo') /\ Cardinality(todo') <= MaxKeys
        BY <2>1, <3>2, LimitAssumption DEF Work
      <4> QED BY <2>1, <3>1, <4>1, LimitAssumption
    <3> QED BY <3>1, <3>2
  <2>5. CASE NextName
    <3>1. CASE step' # "idle"
      <4>1. PICK n \in todo : todo' = todo \ {n} /\ step' \in {"sign", "resolve"}
        BY <2>2, <2>5, <3>1 DEF NextName, Await, Fail
      <4>2. Cardinality(todo') = Cardinality(todo) - 1
        BY <2>1, <4>1, FS_RemoveElement
      <4>3. step = "next"
        BY <2>5 DEF NextName
      <4> QED BY <2>1, <4>1, <4>2, <4>3 DEF Work
    <3> QED BY <2>5, <3>1 DEF NextName
  <2>6. CASE ResolvePublicKey
    <3>1. step = "resolve" /\ step' \in {"lookup", "sign"} /\ todo' = todo
      BY <2>6 DEF ResolvePublicKey, Await
    <3> QED BY <2>1, <3>1 DEF Work
  <2>7. CASE LookupFinds \/ LookupDefaults
    <3>1. step = "lookup" /\ (step' = "idle" \/ (step' = "sign" /\ todo' = todo))
      BY <2>2, <2>7 DEF LookupFinds, LookupDefaults, Await, Fail
    <3> QED BY <2>1, <3>1 DEF Work
  <2>8. CASE SignWithKms
    <3>1. step = "sign" /\ step' = "next" /\ todo' = todo
      BY <2>8 DEF SignWithKms, Await
    <3> QED BY <2>1, <3>1 DEF Work
  <2>9. CASE CallFails \/ Finish \/ Abandon
    BY <2>2, <2>9 DEF CallFails, Finish, Abandon, Fail
  <2> QED BY <1>1, <2>3, <2>4, <2>5, <2>6, <2>7, <2>8, <2>9 DEF Next, Handler
<1>2. Types /\ Types' /\ StepInv /\ [Next]_vars => [Shrinks]_<<step, todo>>
  BY <1>1 DEF vars
<1> QED BY <1>2, TypeInvariant, PTL DEF Spec, WorkRunsOut

=============================================================================
