-------------------------- MODULE TestingStore_proofs --------------------------
(***************************************************************************)
(* Proofs about TestingStore, for any number of keys and any sequence of   *)
(* requests: the mocks hold the keys that KMS would, and answer like the   *)
(* services they stand for wherever the module says so.                    *)
(***************************************************************************)
EXTENDS TestingStore, TLAPS

(* Types as far as the answers depend on them.                             *)
ChainInv == chain \in {"ethereum", "casper", "cosmos"} /\ chainId \in 0..255

Inv == ChainInv /\ SameKeys

LEMMA NextInv == Inv /\ [Next]_vars => Inv'
<1> SUFFICES ASSUME Inv, [Next]_vars PROVE Inv'
  OBVIOUS
<1>1. CASE Create
  BY <1>1 DEF Inv, ChainInv, SameKeys, Create, Insert
<1>2. CASE Ask
  BY <1>2 DEF Inv, ChainInv, SameKeys, Ask
<1>3. CASE UNCHANGED vars
  BY <1>3 DEF vars, Inv, ChainInv, SameKeys
<1> QED BY <1>1, <1>2, <1>3 DEF Next

LEMMA Invariant == Spec => []Inv
<1>1. Init => Inv
  <2> SUFFICES ASSUME Init PROVE Inv
    OBVIOUS
  <2>1. chainId \in 0..255
    <3>1. \A n : ParsedChainId(n) \in 0..255
      BY DEF ParsedChainId, DefaultEthChainId
    <3>2. DefaultEthChainId \in 0..255
      BY DEF DefaultEthChainId
    <3> QED BY <3>1, <3>2 DEF Init
  <2> QED BY <2>1, ChainAssumption DEF Init, Inv, ChainInv, SameKeys
<1> QED BY <1>1, NextInv, PTL DEF Spec

(* Keys are created and deleted in the mocks exactly when KMS would name   *)
(* and unname them (mocks/mock_keys_service.rs:142-178).                   *)
THEOREM TheSameKeys == Spec => []SameKeys
<1>1. Inv => SameKeys
  BY DEF Inv
<1> QED BY <1>1, Invariant, PTL

-----------------------------------------------------------------------------
(* The answers of the last request, as the chain of the process has them.  *)

LEMMA MockVerdict ==
  ASSUME ChainInv, NEW r \in Request
  PROVE  /\ r.op = "sign" => MockAnswer(r) = MockSign(r)
         /\ r.op = "delete" => MockAnswer(r) = MockDelete(r)
         /\ r.op = "list" => MockAnswer(r) = Listing(store)
         /\ r.op \in {"verify", "verifyViaKms"} =>
              MockAnswer(r) = IF chain = "casper" THEN Verdict(r) ELSE Found(r, Verdict(r))
<1>1. MockAnswer(r) = Mock(r, IF chain = "casper" THEN Verdict(r) ELSE Found(r, Verdict(r)))
  BY DEF ChainInv, MockAnswer, MockEthereum, MockCasper, MockCosmos
<1> QED BY <1>1 DEF Mock

LEMMA ServiceVerdict ==
  ASSUME ChainInv, NEW r \in Request
  PROVE  /\ r.op = "sign" => KmsAnswer(r) = KmsSign(r)
         /\ r.op = "delete" => KmsAnswer(r) = Described(r, Ok("deleted"))
         /\ r.op = "list" => KmsAnswer(r) = Listing(named)
         /\ r.op = "verify" =>
              KmsAnswer(r) = IF chain = "casper" THEN Verdict(r) ELSE Resolved(r, Verdict(r))
         /\ r.op = "verifyViaKms" =>
              KmsAnswer(r) = CASE chain = "ethereum" -> Resolved(r, LocalThenKms(r))
                               [] chain = "casper"   -> LocalThenKms(r)
                               [] chain = "cosmos"   -> Described(r, LocalThenKms(r))
<1>1. CASE chain = "ethereum"
  BY <1>1 DEF KmsAnswer, EthereumService, Service, KmsDelete
<1>2. CASE chain = "casper"
  BY <1>2 DEF KmsAnswer, CasperService, Service, KmsDelete
<1>3. CASE chain = "cosmos"
  BY <1>3 DEF KmsAnswer, CosmosService, Service, KmsDelete
<1> QED BY <1>1, <1>2, <1>3 DEF ChainInv

(* The status of an answer tells what was answered.                        *)
LEMMA Status ==
  /\ \A a : Ok(a).status = a
  /\ \A r : r.key \notin store => MockDelete(r) = Ok("not deleted")
  /\ Refused.status = "400" /\ NotFound.status = "404" /\ Failed.status = "500"
  BY DEF Ok, MockDelete, Refused, NotFound, Failed

(* A signature has the length of one exactly if v is two digits.           *)
LEMMA RoomForV ==
  ASSUME NEW id \in 0..255, NEW parity \in {0, 1}
  PROVE  ValidSignatureLength(HexText(V(id, parity))) <=> V(id, parity) <= 255
<1>1. V(id, parity) \in Nat /\ V(id, parity) >= 35
  BY DEF V
<1>2. CASE V(id, parity) <= 255
  <2>1. HexText(V(id, parity)).digits = 2
    BY <1>1, <1>2 DEF HexText
  <2> QED BY <1>2, <2>1 DEF ValidSignatureLength, RsLen
<1>3. CASE V(id, parity) > 255
  <2>1. HexText(V(id, parity)).digits = 3
    BY <1>1, <1>3 DEF HexText
  <2> QED BY <1>1, <1>3, <2>1 DEF ValidSignatureLength, RsLen
<1> QED BY <1>1, <1>2, <1>3

(* Signing with a key that is there: as in production but for the cases of *)
(* MockDiffers.                                                            *)
LEMMA SameSignature ==
  ASSUME ChainInv, store = named, NEW r \in Request, r.op = "sign", r.key \in store,
         r.signs = "chainless" => chain = "ethereum"
  PROVE  MockSign(r) = KmsSign(r) <=> ~MockDiffers(r)
<1>1. r.signs \in Payload /\ r.parity \in {0, 1}
  BY DEF Request, Op
<1>2. ValidSignatureLength(HexText(V(chainId, r.parity))) <=> V(chainId, r.parity) <= 255
  BY <1>1, RoomForV DEF ChainInv
<1>3. V(chainId, r.parity) \in Int
  BY <1>1 DEF V, ChainInv
<1>4. Ok("signed") # Refused /\ Ok("signed") # Failed /\ Refused # Failed
  BY Status
<1>5. CASE r.signs = "badHash"
  BY <1>4, <1>5 DEF ChainInv, MockSign, Found, KmsSign, MockDiffers, NoRoom
<1>6. CASE r.signs = "chainless"
  BY <1>4, <1>6 DEF MockSign, Found, KmsSign, Described, MockDiffers
<1>7. CASE r.signs = "sound"
  BY <1>2, <1>3, <1>4, <1>7 DEF MockSign, Found, KmsSign, Described, MockDiffers, NoRoom
<1> QED BY <1>1, <1>5, <1>6, <1>7 DEF Payload

(* With the same keys the answers to a request are the same, except for a  *)
(* key that is not there and for those signatures.                         *)
LEMMA SameAnswer ==
  ASSUME ChainInv, store = named, NEW r \in Request,
         r.key \in store \/ r.op = "list", r.op # "create",
         r.signs = "chainless" => chain = "ethereum"
  PROVE  MockAnswer(r) = KmsAnswer(r) <=> ~MockDiffers(r)
<1>1. r.op \in {"sign", "verify", "verifyViaKms", "delete", "list"}
  BY DEF Request, Op
<1>2. r.op # "sign" => ~MockDiffers(r)
  BY DEF MockDiffers, NoRoom, Request, Op, Payload
<1>3. CASE r.op = "sign" /\ r.key \in store
  BY <1>3, MockVerdict, ServiceVerdict, SameSignature
<1>4. CASE r.op = "list"
  BY <1>2, <1>4, MockVerdict, ServiceVerdict
<1>5. CASE r.op = "delete" /\ r.key \in store
  BY <1>2, <1>5, MockVerdict, ServiceVerdict DEF MockDelete, Described
<1>6. CASE r.op = "verify" /\ r.key \in store
  BY <1>2, <1>6, MockVerdict, ServiceVerdict DEF Found, Described, Resolved
<1>7. CASE r.op = "verifyViaKms" /\ r.key \in store
  <2>1. LocalThenKms(r) = Verdict(r)
    BY <1>7 DEF LocalThenKms, Verdict, Described
  <2> QED BY <1>2, <1>7, <2>1, MockVerdict, ServiceVerdict
          DEF ChainInv, Found, Described, Resolved
<1> QED BY <1>1, <1>3, <1>4, <1>5, <1>6, <1>7

LEMMA AskAlike ==
  ASSUME Inv, Ask
  PROVE  AlikeWithKeys' /\ SuccessCarriesOver'
<1>1. PICK r \in Request :
        /\ r.op # "create" /\ asked' = r
        /\ r.signs = "chainless" => chain = "ethereum"
        /\ mock' = MockAnswer(r) /\ production' = KmsAnswer(r)
        /\ store' = IF r.op = "delete" THEN store \ {r.key} ELSE store
        /\ chain' = chain /\ chainId' = chainId
  BY DEF Ask
<1>2. store = named /\ ChainInv
  BY DEF Inv, SameKeys
<1>3. r.op \in {"sign", "verify", "verifyViaKms", "delete", "list"}
  BY <1>1 DEF Request, Op
<1>4. r.op = "delete" /\ mock' = Ok("deleted") => r.key \in store
  <2> SUFFICES ASSUME r.op = "delete", mock' = Ok("deleted"), r.key \notin store PROVE FALSE
    OBVIOUS
  <2>1. mock' = Ok("not deleted")
    BY <1>1, <1>2, MockVerdict, Status
  <2>2. Ok("deleted").status = "deleted" /\ Ok("not deleted").status = "not deleted"
    BY Status
  <2> QED BY <2>1, <2>2
<1>5. /\ NoRoom(asked)' <=> NoRoom(r)
      /\ MockDiffers(asked)' <=> MockDiffers(r)
  BY <1>1 DEF NoRoom, MockDiffers
<1>6. r.key \in store \/ r.op = "list" => (mock' = production' <=> ~MockDiffers(r))
  BY <1>1, <1>2, SameAnswer
<1>7. AlikeWithKeys'
  <2>1. WasThere' => r.key \in store
    BY <1>1, <1>4 DEF WasThere
  <2>2. r.op = "sign" /\ (r.key \notin store \/ r.signs = "badHash") =>
          "signed" \notin {mock'.status, production'.status}
    BY <1>1, <1>2, MockVerdict, ServiceVerdict, Status
    DEF MockSign, KmsSign, Found, Described
  <2>3. r.op = "sign" => (WasThere' <=> r.key \in store)
    BY <1>1 DEF WasThere
  <2> QED BY <1>1, <1>5, <1>6, <2>1, <2>2, <2>3 DEF AlikeWithKeys
<1>8. SuccessCarriesOver'
  <2> SUFFICES ASSUME chain # "casper", ~NoRoom(r),
                      mock'.status \in {"valid", "deleted", "signed", "listed"}
               PROVE  production' = mock'
    BY <1>1, <1>5 DEF SuccessCarriesOver
  <2>1. r.key \in store \/ r.op = "list"
    <3>1. CASE r.op = "delete" /\ r.key \notin store
      <4>1. mock' = Ok("not deleted")
        BY <1>1, <1>2, <3>1, MockVerdict, Status
      <4> QED BY <4>1, Status
    <3>2. CASE r.op \in {"sign", "verify", "verifyViaKms"} /\ r.key \notin store
      BY <1>1, <1>2, <3>2, MockVerdict, Status DEF Found, MockSign
    <3> QED BY <1>3, <3>1, <3>2
  <2>2. ~MockDiffers(r)
    <3> SUFFICES ASSUME r.signs \in {"chainless", "badHash"} PROVE FALSE
      BY DEF MockDiffers
    <3>1. r.op = "sign"
      BY DEF Request, Op
    <3>2. mock'.status \in {"400", "404", "500"}
      BY <1>1, <1>2, <3>1, MockVerdict, Status DEF MockSign, Found
    <3> QED BY <3>2
  <2> QED BY <1>6, <2>1, <2>2
<1> QED BY <1>7, <1>8

LEMMA NextAlike ==
  Inv /\ (AlikeWithKeys /\ SuccessCarriesOver) /\ [Next]_vars
    => (AlikeWithKeys /\ SuccessCarriesOver)'
<1> SUFFICES ASSUME Inv, AlikeWithKeys, SuccessCarriesOver, [Next]_vars
             PROVE  (AlikeWithKeys /\ SuccessCarriesOver)'
  OBVIOUS
<1>1. CASE Create
  BY <1>1 DEF Create, NoRequest, AlikeWithKeys, SuccessCarriesOver, WasThere, MockDiffers,
     NoRoom
<1>2. CASE Ask
  BY <1>2, AskAlike
<1>3. CASE UNCHANGED vars
  BY <1>3 DEF vars, AlikeWithKeys, SuccessCarriesOver, WasThere, MockDiffers, NoRoom
<1> QED BY <1>1, <1>2, <1>3 DEF Next

(* Where the key exists, the mock answers as the service on KMS does in    *)
(* all cases but those of MockDiffers, and in none of those: a v without   *)
(* room, a missing chain id, the status of a bad hash (services/mocks      *)
(* against the services they stand for).                                   *)
THEOREM MocksAnswerAlike == Spec => []AlikeWithKeys
<1>1. Init => AlikeWithKeys /\ SuccessCarriesOver
  BY KeyAssumption DEF Init, NoRequest, Ok, AlikeWithKeys, SuccessCarriesOver, WasThere, MockDiffers,
     NoRoom
<1> QED BY <1>1, NextAlike, Invariant, PTL DEF Spec

(* What succeeds in a test of Ethereum or Cosmos succeeds on KMS, unless   *)
(* it is a signature whose v has no room (ethereum_keys_service.rs:370-377).*)
THEOREM SuccessIsNoArtefact == Spec => []SuccessCarriesOver
<1>1. Init => AlikeWithKeys /\ SuccessCarriesOver
  BY KeyAssumption DEF Init, NoRequest, Ok, AlikeWithKeys, SuccessCarriesOver, WasThere, MockDiffers,
     NoRoom
<1> QED BY <1>1, NextAlike, Invariant, PTL DEF Spec

=============================================================================
