---------------------------- MODULE TestingStore ----------------------------
(***************************************************************************)
(* TESTING_MODE: the services of services/mocks, which keep key pairs in a *)
(* map, given the same requests as the services that work on KMS.  One     *)
(* request at a time and no faults: what a test sees.  A request names its *)
(* key by address or by public key; a signature is the key that made it.   *)
(* Of what is signed there is what one of the two stumbles on: a hash that *)
(* is no hash, an Ethereum transaction without a chain id, and the place   *)
(* the chain id takes in an Ethereum signature (EthRecovery).              *)
(***************************************************************************)
EXTENDS FiniteSets, EthRecovery

CONSTANTS
  Key,
  Chain,       \* the values of BLOCKCHAIN_MODE looked at
  EthChainId,  \* the values of ETH_CHAIN_ID looked at
  NoKey        \* a signature that no key of the store has made

ASSUME KeyAssumption   == NoKey \notin Key
ASSUME ChainAssumption == Chain \subseteq {"ethereum", "casper", "cosmos"}

VARIABLES
  chain,       \* BLOCKCHAIN_MODE
  chainId,     \* config.eth_chain_id
  made,        \* the keys created so far
  named,       \* the keys of KMS that an alias names
  store,       \* the keys of the mock: keys.keys(), by address
  asked,       \* the last request
  mock,        \* what the mock answered
  production   \* what the service on KMS answers

vars == <<chain, chainId, made, named, store, asked, mock, production>>

Op == {"create", "sign", "verify", "verifyViaKms", "delete", "list"}

(* A sound hash or transaction; a hash that is not 32 bytes of hexadecimal *)
(* text, or has 0x before it; an Ethereum transaction without a chainId.   *)
Payload == {"sound", "badHash", "chainless"}

(* The parity is that of the point in the signature to be made.            *)
Request ==
  [op : Op \ {"sign"}, key : Key, by : {"address", "publicKey"},
   signer : Key \cup {NoKey}, signs : {"nothing"}, parity : {0}]
  \cup
  [op : {"sign"}, key : Key, by : {"address", "publicKey"},
   signer : {NoKey}, signs : Payload, parity : {0, 1}]

(* Errors, by the HTTP status that KmsError::status gives them: 400 for    *)
(* what is wrong with the request, or taken to be; 404 for a key that a    *)
(* mock has not found; 500 for a call of KMS that failed, and the rest.    *)
Refused     == [status |-> "400", keys |-> {}]
NotFound    == [status |-> "404", keys |-> {}]
Failed      == [status |-> "500", keys |-> {}]
Ok(answer)  == [status |-> answer, keys |-> {}]
Listing(K)  == IF K = {} THEN [status |-> "no keys found", keys |-> {}]
                         ELSE [status |-> "listed", keys |-> K]

Verdict(r) == Ok(IF r.signer = r.key THEN "valid" ELSE "invalid")


-----------------------------------------------------------------------------
(* The mocks.  Every lookup that fails is PublicKeyNotFound, or KeyNotFound *)
(* where Cosmos signs.                                                     *)
Found(r, a) == IF r.key \in store THEN a ELSE NotFound

(* A map has no key to remove: that is false, not an error.                *)
MockDelete(r) == Ok(IF r.key \in store THEN "deleted" ELSE "not deleted")

(* The mocks look for the key, then at the hash.  The chain id they are    *)
(* configured with is ignored: the wallet signs for chain 1 what names no  *)
(* chain, and the signature does not hold for the hash without one.        *)
MockSign(r) ==
  Found(r, CASE r.signs = "badHash"   -> Refused
             [] r.signs = "chainless" -> Failed
             [] OTHER                 -> Ok("signed"))

(* The mock of a chain, by the verdict it has for a signature.  Verifying   *)
(* via KMS is the same after a delay.                                      *)
Mock(r, verdict) ==
  CASE r.op = "sign"   -> MockSign(r)
    [] r.op \in {"verify", "verifyViaKms"} -> verdict
    [] r.op = "delete" -> MockDelete(r)
    [] r.op = "list"   -> Listing(store)

(* Defect: a signature is checked without looking for the key. *)
MockUnchecked(r) == Mock(r, Verdict(r))

(* Ethereum and Cosmos look for the key pair first.                        *)
MockEthereum(r) == Mock(r, Found(r, Verdict(r)))

MockCosmos(r) == Mock(r, Found(r, Verdict(r)))

(* Defect: a signature of a known key does not hold for its address. *)
MockCasperByAddress(r) == Mock(r, IF r.by = "publicKey" THEN Verdict(r) ELSE Ok("invalid"))

(* Casper checks a signature against the public key in the request.        *)
MockCasper(r) == Mock(r, Verdict(r))

MockAnswer(r) == CASE chain = "ethereum" -> MockEthereum(r)
                   [] chain = "casper"   -> MockCasper(r)
                   [] chain = "cosmos"   -> MockCosmos(r)

-----------------------------------------------------------------------------
(* The services on KMS, as KeyLifecycle has them, call by call.            *)

(* DescribeKey of the alias fails when there is none.                      *)
Described(r, a) == IF r.key \in named THEN a ELSE Failed

KmsDelete(r) == Described(r, Ok("deleted"))

(* Cosmos looks at the hash first; Ethereum and Casper have an error of    *)
(* their own for it.  A v that does not fit two hexadecimal digits makes   *)
(* an Ethereum signature that is refused.                                  *)
KmsSign(r) ==
  IF r.signs = "badHash" THEN IF chain = "cosmos" THEN Refused ELSE Failed
  ELSE Described(r,
         IF chain = "ethereum" /\ ~ValidSignatureLength(HexText(V(chainId, r.parity)))
           THEN Refused ELSE Ok("signed"))

(* The verification in the service, then in KMS through the alias.         *)
LocalThenKms(r) == IF r.signer = r.key THEN Described(r, Ok("valid")) ELSE Ok("invalid")

(* The service of a chain, by its verdicts.                                *)
Service(r, local, viaKms) ==
  CASE r.op = "sign"         -> KmsSign(r)
    [] r.op = "verify"       -> local
    [] r.op = "verifyViaKms" -> viaKms
    [] r.op = "delete"       -> KmsDelete(r)
    [] r.op = "list"         -> Listing(named)

(* resolve_public_key: a public key is taken as it is, an address is       *)
(* looked up.                                                              *)
Resolved(r, a) == IF r.by = "publicKey" THEN a ELSE Described(r, a)

EthereumService(r) == Service(r, Resolved(r, Verdict(r)), Resolved(r, LocalThenKms(r)))

CasperService(r) == Service(r, Verdict(r), LocalThenKms(r))

(* Verifying via KMS looks the public key up in every case.                *)
CosmosService(r) == Service(r, Resolved(r, Verdict(r)), Described(r, LocalThenKms(r)))

KmsAnswer(r) == CASE chain = "ethereum" -> EthereumService(r)
                  [] chain = "casper"   -> CasperService(r)
                  [] chain = "cosmos"   -> CosmosService(r)

-----------------------------------------------------------------------------
NoRequest == [op |-> "none", key |-> NoKey, by |-> "address", signer |-> NoKey,
              signs |-> "nothing", parity |-> 0]

Init ==
  /\ chain \in Chain
  /\ chainId \in IF chain = "ethereum"
                   THEN { ParsedChainId(n) : n \in EthChainId }
                   ELSE { DefaultEthChainId }
  /\ made = {} /\ named = {} /\ store = {}
  /\ asked = NoRequest /\ mock = Ok("none") /\ production = Ok("none")

(* Defect: the pair is stored where no lookup finds it. *)
InsertUnderPublicKey(k) == store' = store

(* entry(address).or_insert: the address of a new pair is new.             *)
Insert(k) == store' = store \cup {k}

Create ==
  \E k \in Key \ made :
    /\ made' = made \cup {k}
    /\ Insert(k)
    /\ named' = named \cup {k}
    /\ asked' = [NoRequest EXCEPT !.op = "create", !.key = k]
    /\ mock' = Ok("created") /\ production' = Ok("created")
    /\ UNCHANGED <<chain, chainId>>

(* Any other request; the keys it names and the signatures it brings exist *)
(* or did.                                                                 *)
Ask ==
  \E r \in Request :
    /\ r.op # "create"
    /\ r.signs = "chainless" => chain = "ethereum"
    /\ r.key \in made /\ r.signer \in made \cup {NoKey}
    /\ asked' = r
    /\ mock' = MockAnswer(r) /\ production' = KmsAnswer(r)
    /\ store' = IF r.op = "delete" THEN store \ {r.key} ELSE store
    /\ named' = IF r.op = "delete" THEN named \ {r.key} ELSE named
    /\ UNCHANGED <<chain, chainId, made>>

Next == Create \/ Ask

Spec == Init /\ [][Next]_vars

-----------------------------------------------------------------------------
(* The mock holds the keys that KMS would have under an alias              *)
(* (mocks/mock_keys_service.rs:142-178).                                   *)
SameKeys == store = named /\ store \subseteq made

(* The key of the last request was there when it was asked.                *)
WasThere == asked.key \in store \/ (asked.op = "delete" /\ mock = Ok("deleted"))

(* An Ethereum signature whose v has no room in it.                        *)
NoRoom(r) ==
  /\ chain = "ethereum" /\ r.op = "sign" /\ r.signs # "badHash"
  /\ V(chainId, r.parity) > 255

(* What a mock is known to answer otherwise with the key there: it signs   *)
(* where there is no room for v, does not sign without a chain id, and has *)
(* another error for a bad hash.                                           *)
MockDiffers(r) ==
  \/ NoRoom(r)
  \/ r.signs = "chainless"
  \/ r.signs = "badHash" /\ chain # "cosmos"

(* The mock answers like production wherever the key exists, just not in   *)
(* what MockDiffers lists, and lists alike in every case (services/mocks   *)
(* against the services they stand for): no other test with existing keys  *)
(* says something else of KMS.  Without the key, or for a bad hash,        *)
(* neither signs, whatever its error.                                      *)
AlikeWithKeys ==
  /\ WasThere \/ asked.op \in {"create", "list"}
       => (mock = production <=> ~MockDiffers(asked))
  /\ asked.op = "sign" /\ (~WasThere \/ asked.signs = "badHash")
       => "signed" \notin {mock.status, production.status}

(* Whatever succeeds in a test of Ethereum or Cosmos succeeds on KMS, but  *)
(* for signatures whose v has no room: with a chain id from 110 on, every  *)
(* or every other signature of a test has none on KMS.                     *)
SuccessCarriesOver ==
  /\ chain # "casper" /\ ~NoRoom(asked)
  /\ mock.status \in {"valid", "deleted", "signed", "listed"}
  => production = mock

=============================================================================
