------------------------- MODULE TransactionSigning -------------------------
(***************************************************************************)
(* POST /signTransaction and /signTransactionHash with several keys        *)
(* (routes.rs), and what the services of the three chains do for each key. *)
(*                                                                         *)
(* One API process; its mutex is held from Start to the answer, so there   *)
(* is one request at a time.  Meanwhile the chain moves on: accounts are   *)
(* opened, other transactions advance their sequence, keys stop being      *)
(* usable.  A Cosmos signature covers the account number and sequence the  *)
(* handler looked up, the others cover the transaction alone; an Ethereum  *)
(* signature ends in the byte v of EthRecovery.                            *)
(***************************************************************************)
EXTENDS EthRecovery, Sequences, FiniteSets, SequencesExt

CONSTANTS
  Chains,        \* the modes a process may have: "casper", "ethereum", "cosmos"
  Name,          \* the strings requests name keys by: addresses, public keys
  Signer,        \* the keys, by their addresses
  SignerOf,      \* the key a name resolves to
  NumberOf,      \* the account number the chain gives a signer's account
  EthChainId,    \* the numbers ETH_CHAIN_ID may be set to
  MaxKeys,       \* distinct names a request may carry (10 in routes.rs)
  MaxSequence,   \* bound on the sequences of accounts
  MaxSignatures  \* bound on the signatures of a transaction sent again

ASSUME ChainAssumption == Chains \subseteq {"casper", "ethereum", "cosmos"}
ASSUME NameAssumption == SignerOf \in [Name -> Signer] /\ IsFiniteSet(Name)
ASSUME NumberAssumption == NumberOf \in [Signer -> Nat] /\ EthChainId \subseteq Nat
ASSUME LimitAssumption ==
  MaxKeys \in Nat /\ MaxSequence \in Nat /\ MaxSignatures \in Nat

VARIABLES
  mode,     \* blockchain_mode of the process
  chainId,  \* its eth_chain_id, which no other mode looks at
  account,  \* account[s]: the account of s on the Cosmos chain
  usable,   \* the signers whose key KMS will resolve and sign with
  step,     \* "idle", "next", "resolve", "lookup" or "sign"
  request,  \* the request being served, or the last one
  todo,     \* names still to sign with
  signer,   \* the key being signed with
  info,     \* the account information found for it
  tx,       \* the transaction, with the signatures made so far
  answer,   \* the last answer: its status and the transaction it carries
  since     \* history: account when the request was started

config == <<mode, chainId>>
chain  == <<mode, chainId, account, usable>>
vars   == <<mode, chainId, account, usable, step, request, todo, signer, info, tx, answer,
            since>>

Account == [open : BOOLEAN, keyKnown : BOOLEAN, sequence : 0..MaxSequence]

Info == [number : Nat, sequence : 0..MaxSequence]
NoInfo == [number |-> 0, sequence |-> 0]

(* A signature, the account data it covers (NoInfo except for Cosmos) and  *)
(* its last byte (0 except for Ethereum).                                  *)
Signature == [by : Signer, covers : Info, v : 0..255]

(* auth and broadcast are the fields of the same name of a Cosmos answer:  *)
(* the account data it shows, and the signature of its broadcast_request.  *)
Unsigned == [signatures |-> <<>>, auth |-> NoInfo, broadcast |-> <<>>]

Request == [op : {"hash", "transaction"}, names : SUBSET Name,
            wellFormed : BOOLEAN, base : {Unsigned, answer.tx}]

Say(status, t) == [status |-> status, tx |-> t]

Init ==
  /\ mode \in Chains
  /\ chainId \in IF mode = "ethereum" THEN { ParsedChainId(n) : n \in EthChainId }
                                      ELSE {DefaultEthChainId}
  /\ account = [s \in Signer |->
                  [open |-> FALSE, keyKnown |-> FALSE, sequence |-> 0]]
  /\ usable = Signer
  /\ step = "idle"
  /\ request = [op |-> "hash", names |-> {}, wellFormed |-> TRUE, base |-> Unsigned]
  /\ todo = {}
  /\ signer \in Signer
  /\ info = NoInfo
  /\ tx = Unsigned
  /\ answer = Say("none", Unsigned)
  /\ since = account

-----------------------------------------------------------------------------
(* The chain and the account at KMS, while requests are served.  Only for  *)
(* Cosmos does anything look at the chain.                                 *)

OpenAccount(s) ==
  /\ mode = "cosmos" /\ ~account[s].open
  /\ account' = [account EXCEPT ![s].open = TRUE]
  /\ UNCHANGED <<config, usable, step, request, todo, signer, info, tx, answer, since>>

(* Another transaction of s is accepted: from now on its key is on chain.  *)
Advance(s) ==
  /\ account[s].open /\ account[s].sequence < MaxSequence
  /\ account' = [account EXCEPT ![s].keyKnown = TRUE, ![s].sequence = @ + 1]
  /\ UNCHANGED <<config, usable, step, request, todo, signer, info, tx, answer, since>>

LoseKey(s) ==
  /\ s \in usable
  /\ usable' = usable \ {s}
  /\ UNCHANGED <<config, account, step, request, todo, signer, info, tx, answer, since>>

-----------------------------------------------------------------------------
(* The handler.                                                            *)

Return(status, t) ==
  /\ step' = "idle"
  /\ answer' = Say(status, t)
  /\ todo' = {}
  /\ info' = NoInfo
  /\ tx' = Unsigned
  /\ UNCHANGED <<chain, request, signer, since>>

(* The first error ends the request; signatures already made are dropped.  *)
Fail == Return("failed", Unsigned)

(* Names are taken as strings: a key named twice, once by its address and  *)
(* once by its public key, is signed with twice.  A client may send the    *)
(* transaction of an earlier answer to have it signed by more keys.        *)
Start ==
  /\ step = "idle"
  /\ \E r \in Request :
       /\ r.op = "hash" => r.base = Unsigned
       /\ request' = r
       /\ IF Cardinality(r.names) > MaxKeys
            THEN /\ answer' = Say("rejected", Unsigned)
                 /\ UNCHANGED <<step, todo, tx>>
            ELSE /\ Len(r.base.signatures) + Cardinality(r.names) <= MaxSignatures
                 /\ step' = "next"
                 /\ todo' = r.names
                 /\ tx' = r.base
                 /\ answer' = Say("none", Unsigned)
  /\ since' = account
  /\ UNCHANGED <<chain, signer, info>>

Await(s) == step' = s /\ UNCHANGED <<chain, request, answer, since>>

(* Defect: the name itself, unresolved, is taken for the address.          *)
NextNameUnresolved ==
  /\ step = "next"
  /\ \E n \in todo :
       /\ todo' = todo \ {n}
       /\ signer' = n
       /\ Await(IF mode = "casper" THEN "sign" ELSE "resolve")
       /\ UNCHANGED <<info, tx>>

(* The loop takes the names in the order of a HashSet, which is any order. *)
(* A transaction is parsed for every name, so for no name it is not.       *)
NextName ==
  /\ step = "next"
  /\ \E n \in todo :
       IF request.wellFormed
         THEN /\ todo' = todo \ {n}
              /\ signer' = SignerOf[n]
              /\ Await(IF mode = "casper" THEN "sign" ELSE "resolve")
              /\ UNCHANGED <<info, tx>>
         ELSE Fail

(* The public key is fetched from KMS.                                     *)
ResolvePublicKey ==
  /\ step = "resolve"
  /\ signer \in usable
  /\ Await(IF mode = "cosmos" /\ request.op = "transaction"
             THEN "lookup" ELSE "sign")
  /\ UNCHANGED <<todo, signer, info, tx>>

(* The chain's REST service answers with the account: it must show the     *)
(* public key of the signer.                                               *)
LookupFinds ==
  /\ step = "lookup"
  /\ account[signer].open
  /\ IF account[signer].keyKnown
       THEN /\ info' = [number |-> NumberOf[signer],
                        sequence |-> account[signer].sequence]
            /\ Await("sign")
            /\ UNCHANGED <<todo, signer, tx>>
       ELSE Fail

(* Defect: instead of the default, the account data that the transaction   *)
(* came with is used.                                                      *)
LookupFallsBack ==
  /\ step = "lookup"
  /\ info' = request.base.auth
  /\ Await("sign")
  /\ UNCHANGED <<todo, signer, tx>>

(* Every other outcome, an account that is not found or a service that     *)
(* does not answer, gives the default account.                             *)
LookupDefaults ==
  /\ step = "lookup"
  /\ info' = NoInfo
  /\ Await("sign")
  /\ UNCHANGED <<todo, signer, tx>>

(* What a signature made now covers: build_auth_info takes the sequence,   *)
(* and SignDoc::new is given the sequence for the account number too.      *)
Covered == [number |-> info.sequence, sequence |-> info.sequence]

NewSignature(v) == [by |-> signer, covers |-> Covered, v |-> v]

(* Defect: the broadcast request keeps the signature of the first signer.  *)
WithFirstBroadcast(v) ==
  [signatures |-> Append(tx.signatures, NewSignature(v)),
   auth       |-> info,
   broadcast  |-> IF tx.broadcast = <<>> THEN <<NewSignature(v)>> ELSE tx.broadcast]

WithNewSignature(v) ==
  [signatures |-> Append(tx.signatures, NewSignature(v)),
   auth       |-> info,
   broadcast  |-> IF mode = "cosmos" /\ request.op = "transaction"
                    THEN <<NewSignature(v)>> ELSE <<>>]

(* The last byte of a signature: for Ethereum what recover_v gave, if that *)
(* makes a whole signature, and otherwise none.  A signature that cannot   *)
(* be completed is an error (CallFails).                                   *)
LastByte ==
  IF mode = "ethereum"
    THEN { text.value : text \in { t \in AppendedText(chainId) : ValidSignatureLength(t) } }
    ELSE {0}

(* KMS signs, the signature verifies, and the next name is signed on top.  *)
SignWithKms ==
  /\ step = "sign"
  /\ signer \in usable
  /\ \E v \in LastByte : tx' = WithNewSignature(v)
  /\ info' = NoInfo
  /\ Await("next")
  /\ UNCHANGED <<todo, signer>>

(* Defect: the key whose call failed is left out, the others sign.         *)
CallFailsSkipsKey ==
  /\ step \in {"resolve", "lookup", "sign"}
  /\ Await("next")
  /\ info' = NoInfo
  /\ UNCHANGED <<todo, signer, tx>>

(* Defect: a key whose call failed is tried again from its beginning.      *)
CallFailsRetries ==
  /\ step \in {"resolve", "lookup", "sign"}
  /\ Await("resolve")
  /\ info' = NoInfo
  /\ UNCHANGED <<todo, signer, tx>>

(* KMS refuses a key that is gone; any call may fail, and so may what is   *)
(* done with its reply.                                                    *)
CallFails == step \in {"resolve", "lookup", "sign"} /\ Fail

Finish ==
  /\ step = "next"
  /\ todo = {}
  /\ Return("ok", tx)

(* The client goes away, or the process is restarted: nothing is answered. *)
Abandon == step # "idle" /\ Return("none", Unsigned)

Handler ==
  \/ NextName \/ ResolvePublicKey \/ LookupFinds \/ LookupDefaults
  \/ SignWithKms \/ CallFails \/ Finish

Next ==
  \/ \E s \in Signer : OpenAccount(s) \/ Advance(s) \/ LoseKey(s)
  \/ Start \/ Handler \/ Abandon

Spec == Init /\ [][Next]_vars

(* The handler is polled whenever its call has returned, KMS and the REST  *)
(* service answer or fail, and the client waits for the answer.            *)
FairSpec == Spec /\ WF_vars(Handler)

-----------------------------------------------------------------------------
(* Properties                                                              *)

Transaction == [signatures : Seq(Signature), auth : Info, broadcast : Seq(Signature)]

TypeOK ==
  /\ mode \in Chains /\ chainId \in 0..255
  /\ account \in [Signer -> Account]
  /\ usable \subseteq Signer
  /\ step \in {"idle", "next", "resolve", "lookup", "sign"}
  /\ request.op \in {"hash", "transaction"} /\ request.names \subseteq Name
  /\ request.base \in Transaction
  /\ todo \subseteq request.names
  /\ signer \in Signer
  /\ info \in Info
  /\ tx \in Transaction
  /\ answer.status \in {"none", "ok", "failed", "rejected"}
  /\ answer.tx \in Transaction
  /\ since \in [Signer -> Account]

(* The signatures of the current request, or of the last answer, and at    *)
(* which places are those that were made for it.                           *)
Signatures == IF step = "idle" THEN answer.tx.signatures ELSE tx.signatures
Made       == Len(request.base.signatures) + 1 .. Len(Signatures)

MadeBy(s) == Cardinality({ i \in Made : Signatures[i].by = s })

NamesOf(s) == { n \in request.names : SignerOf[n] = s }

(* An answer is all or nothing: it keeps the signatures the transaction    *)
(* came with and adds one for each name asked for, in whatever order the   *)
(* set of names is walked and whatever fails or changes in between.        *)
AllOrNothing ==
  answer.status = "ok" =>
    /\ IsPrefix(request.base.signatures, answer.tx.signatures)
    /\ \A s \in Signer : MadeBy(s) = Cardinality(NamesOf(s))

(* What a Cosmos answer shows is what can be broadcast: the broadcast      *)
(* request carries the last signature, made over the sequence that         *)
(* auth_info shows, also when the transaction was signed by several keys.  *)
AnswerConsistent ==
  answer.tx.broadcast # <<>> =>
    /\ answer.tx.broadcast = <<Last(answer.tx.signatures)>>
    /\ answer.tx.broadcast[1].covers.sequence = answer.tx.auth.sequence

(* A signature is not made over account data from before the request: the  *)
(* sequence was the account's at some time since the request began, or it  *)
(* is the default.                                                         *)
SequenceTimely ==
  \A i \in Made :
    LET sig == Signatures[i]
    IN  sig.covers.sequence = 0
        \/ sig.covers.sequence \in since[sig.by].sequence .. account[sig.by].sequence

(* An Ethereum signature that is answered is whole: from its last byte the *)
(* receiver reads the chain id of the process.  A recovery that failed and *)
(* was only logged, and a v that does not fit a byte (chain ids from 110), *)
(* never get out (ethereum_keys_service.rs:252-270).                       *)
RecoversChainId ==
  mode = "ethereum" => \A i \in Made : ChainIdOf(Signatures[i].v) = chainId

(* What a request has yet to do, at most: names to take, and calls to make *)
(* for the name in hand.                                                   *)
Work ==
  4 * Cardinality(todo)
    + CASE step = "resolve" -> 3 [] step = "lookup" -> 2 [] step = "sign" -> 1
        [] OTHER -> 0

(* Every reply brings a request nearer to its answer, and no outcome of a  *)
(* call is tried again: a request holds the mutex for three stages at most *)
(* for each of its names, of which the route lets no more than ten pass    *)
(* (routes.rs:225).                                                        *)
WorkRunsOut ==
  [][/\ step # "idle" /\ step' # "idle" => Work' < Work
     /\ step = "idle" /\ step' # "idle" => Work' <= 4 * MaxKeys]_<<step, todo>>

(* Every request is answered or abandoned: the loop over names ends.       *)
Answered == (step # "idle") ~> (step = "idle")

(* OVERVIEW.md: Cosmos transactions require account_number and sequence    *)
(* for signing.  A signature made from looked-up account data covers the   *)
(* number of that account.                                                 *)
SignsAccountNumber ==
  \A i \in Made :
    Signatures[i].covers.sequence # 0 => Signatures[i].covers.number = NumberOf[Signatures[i].by]

(* cosmos_keys_service.rs, fetch_account_info: an account that does not    *)
(* exist gives the default account, any other failure is an error.         *)
DefaultsOnlyWhenAbsent ==
  mode = "cosmos" /\ request.op = "transaction" =>
    \A i \in Made :
      since[Signatures[i].by].open => Signatures[i].covers.sequence >= since[Signatures[i].by].sequence

=============================================================================
