# kms-secp256k1-api in TLA+

Formal models of the kms-secp256k1-api service: an HTTP API (Rust, axum) that
creates secp256k1 keys in AWS KMS, names them by their Ethereum, Casper or
Cosmos address, signs hashes and transactions with them, verifies signatures,
lists and deletes keys.  The modules are checked with TLC on small instances,
and every safety property of them is proved with TLAPS for every instance.

All paths below are relative to the repository; `src/` is its Rust crate.

## 1. The system

| Part | State | Operations | Talks to |
|---|---|---|---|
| HTTP routes (`src/routes.rs`, `src/lib.rs`) | `AppState`: the configuration and one `Arc<Mutex<Box<dyn KeysServiceTrait>>>` for the whole process | `createKey`, `signTransactionHash`, `signTransaction`, `verifySignature`, `deleteKey`, `listKeys` (the last two mounted by mode) | the keys service, under the mutex, from the first statement of a handler to its answer |
| Chain services (`ethereum_`, `casper_`, `cosmos_keys_service.rs`) | none between calls | resolve the name of a key, sign and verify afterwards, wrap the transaction | `KeysService`; Cosmos: the REST service of the chain |
| `KeysService` (`keys_service.rs`) | owns the two below | create key and alias, sign, verify, verify via KMS, delete, list | KMS client, crypto service |
| AWS KMS client (`aws_kms_client_service.rs`) | four SDK clients (create, sign, delete, list credentials) | one to three KMS calls per operation, each awaited | AWS KMS, with the SDK's retries |
| Crypto service, WASM loader (`crypto_service.rs`, `wasm_loader.rs`) | one WASM instance and its memory | address derivation, encodings, verification, recovery id | the WASM module, through allocated strings |
| Configuration (`config.rs`, `constants.rs`) | read once | modes, credentials of the four clients, chain ids | environment |
| Errors (`error.rs`) | none | HTTP status of each error | |
| Test doubles (`services/mocks/`) | an in-memory map of keys | the traits above, in `TESTING_MODE` | |
| MCP server (`mcp/`) | a pid file, docker containers | start and stop a host API or a compose stack, forward tools to HTTP | processes, docker, the API |
| Docker (`docker/`) | | images, LocalStack bootstrap | |

The durable state is the KMS account: keys (absent, enabled, pending deletion)
and aliases, which name a key by its chain address.  The service stores nothing
else.  Every API process pointed at the account shares it, and their mutexes
know nothing of each other.

What is hard about it:

* *Nothing is atomic.* Creating a key is CreateKey, GetPublicKey, CreateAlias;
  deleting one is DescribeKey, DeleteAlias, ScheduleKeyDeletion.  No step is
  undone when a later one fails, and there is no journal.
* *Handlers are dropped.* hyper drops the future of a handler whose client went
  away: the mutex is released at whatever `await` it was at, and a call already
  sent may still take effect.  A crash does the same to all handlers of a
  process.
* *Calls are sent again.* The SDK resends a call whose reply it did not get;
  none of the mutating calls is idempotent.
* *State is read and then used.* The alias is resolved to a key id before each
  signature, verification and deletion; the account of a Cosmos signer is
  looked up before its signature; a page of aliases is worked off key by key.
* *Everything of a process queues* for one mutex, held across all awaits.
* *Signing with several keys* walks a `HashSet` of strings, in any order, each
  answer being the transaction the next key signs.

For each part, what makes it correct:

* routes: one call at a time per process, every request is answered, several
  keys are all or nothing;
* key management: an alias never names another key than the one its address is
  derived from; success is reported only for what happened; keys are stranded
  only by faults;
* Cosmos: signatures cover the account number and a current sequence, the
  answer agrees with the transaction to be broadcast;
* listing: complete for keys that stay, sound for keys that are shown;
* WASM boundary: what is allocated is freed, with its own size;
* Ethereum: a signature that is answered is whole, and is for the chain the
  process is configured for;
* configuration: a client never gets another client's identity, and a chain
  never another chain's service;
* MCP: at most one host API, and the pid file names it.

`PROJECT.json` lists the hazards line by line with the properties that cover
them.

## 2. Modules

| Module | What it is |
|---|---|
| `KeyCustody` | abstract specification: a key is unmade, unnamed, named or retired, and a success told to a client coincides with one change of one key |
| `KmsAccount` | abstract specification: keys as in `KeyCustody`, and the aliases left behind on retired keys; no clients |
| `KeyLifecycle` | several API processes against one KMS account: create, sign with one key, verify, verify via KMS, delete, call by call |
| `KeyLifecycle_proofs` | types, mutual exclusion, the queue of the mutex, faithful aliases, truthful answers, causes of failures, the number and permanence of orphans, dangling aliases: proved |
| `KeyLifecycle_refinement` | `KeyLifecycle` implements `KeyCustody` and `KmsAccount`, proved |
| `MCKeyLifecycle` | instances for TLC |
| `EthRecovery` | used by `TransactionSigning` and `TestingStore`; operators: the chain id as it is parsed, the text of v that is appended to an Ethereum signature, and which length is accepted |
| `TransactionSigning` (`MCTransactionSigning`) | `signTransaction` and `signTransactionHash` with several keys, the Cosmos account lookup, the last byte of Ethereum signatures |
| `KeyListing` | `listKeys` while other processes, as `KmsAccount` allows, create and delete keys |
| `WasmBridge` (`MCWasmBridge`) | the calls of the crypto service into its WASM instance, and the memory they leave behind |
| `Startup` (`MCStartup`) | from the environment and `.env` to the credentials of each client and the routes that are mounted |
| `TestingStore` (`MCTestingStore`) | the services of `TESTING_MODE` next to the services they stand for |
| `TransactionSigning_proofs`, `KeyListing_proofs`, `WasmBridge_proofs`, `Startup_proofs`, `TestingStore_proofs`, `HostApi_proofs` | the safety properties of each of these modules, proved |
| `HostApi` (`MCHostApi`) | `kms_api_start` and `kms_api_stop` of the MCP server: the pid file and the processes of the host |

`KeyListing` is composed with the rest through `KmsAccount`: its environment is
that specification, step for step, and `KeyLifecycle` is checked and proved to
implement it (`ImplementsAccount`, `AccountImplemented`).  So what holds of the
listing holds next to any number of processes, with all their faults.

### KeyLifecycle

| Model | Code |
|---|---|
| `keyState`, `alias` | the KMS account |
| `holder`, `ahead` | the tokio mutex of `AppState.keys_service`, which is fair (`lib.rs:49`) |
| `pc[r]` | the `await` the handler of connection `r` is at: the mutex or one KMS call |
| `keyId[r]`, `pub[r]` | its local variables `key_id` and `public_key` |
| `alive[r]` | FALSE when the handler is gone and its call is still on its way |
| `Arrive`, `Acquire`, `Begin` | a request is accepted, `lock().await` returns, the parameters are checked |
| `Kms...` | KMS executes one call, and the handler runs to its next call or its answer |
| `KmsRefuses` | the state of the account forbids the call (no such alias, alias exists, key pending deletion): every `map_err` of the clients |
| `FindsFlaw` | the call is served, and what the handler now knows tells it that it cannot sign: on Cosmos a body or fee that does not parse, looked at after GetPublicKey; on Ethereum a hash behind `0x`, decoded after DescribeKey, or a `v` of three digits after Sign |
| `CallFails` | the call fails for another reason, or its reply is unusable |
| `LoseReply`, in each mutating call | the call took effect and the handler does not know: it is sent again, or reported failed |
| `Disconnect`, `Crash`, `Vanish`, `Abandoned` | dropped handlers, and what becomes of their call |

A KMS call and its reply are one step, since the handler only waits in between
and nobody else sees the reply; the reply's loss and the handler's end are the
separate cases above.  Addresses and public keys are the same value for the
model: an address is derived from a public key, and `AddressOf` is injective
(`KeyAssumption`) as 160-bit hashes are taken to be.  `FetchesPublicKey` is the
one difference between the chains that matters here: Casper requests name keys
by public key and none is fetched.  A signature is the key that made it (or
`NoKey`: garbage, or of a key outside the account).  Of what is to be signed a
request says only after which call it will prove unsignable, if at all (`flaw`;
`FlawFound` names the calls that can show it).  That is settled when the request
is made, by the request and by the chain id of the process, or open until the
signature is there (the parity with chain id 110): either way it is a cause that
lies in the request, with the key and its alias intact.

### TransactionSigning

One request at a time (its process's mutex, proved for `KeyLifecycle`).  `tx` is
the transaction with the signatures made so far; a signature records its signer
and the account data it covers.  `Name` has an address and a public key of the
same signer, because requests name keys both ways and the set of names is a set
of strings.  The steps are the awaits of the services: `ResolvePublicKey`
(DescribeKey and GetPublicKey), `LookupFinds` / `LookupDefaults` (the REST
service), `SignWithKms` (DescribeKey, Sign and the verification afterwards).
`OpenAccount`, `Advance` and `LoseKey` are the chain and KMS moving on.

`chainId` is the `eth_chain_id` of the configuration.  A signature also records
its last byte `v`, which is 0 except for Ethereum: there KMS returns r and s,
`recover_v` a text, and what is appended must make 65 whole bytes
(`LastByte`, from `EthRecovery`).  The text is modelled by its number of digits
and its value, because one digit and three digits are the cases that go wrong.
A signature that cannot be completed is an error like any other (`CallFails`).

### KeyListing

`unread` and `page` are the paginator (`ReadPage` may cover any part of the
aliases, in any order), `current` the alias between DescribeKey and
GetPublicKey.  `leftover` holds keys pending deletion whose alias is still
there; `DanglingAliasNeedsFault` of `KeyLifecycle` says how they come about.
`steady`, `seen` and `calm` are history variables for the properties.

### WasmBridge

One instance lives as long as its process, its calls are synchronous and made
under the mutex of the process, so they never overlap: the model is one call at
a time, and any number of them in a row.  `memory` is the linear memory as a
set of blocks with their contents; `input`, `output` and `text` are the
pointers and the string a call holds; `at` is its place in the list of stages of
its function, because five functions put the same eight statements in three
orders (`InvokeWasmStrFunc`, `AddressCosmos`, `RecoverV`, `Verify`,
`VerifyEip155`).  The module itself is external: it may return a result, the
description of an error, a null pointer, or trap, and after a trap its own
allocations stay.

### Startup

`env` and `file` are the environment and the `.env` file, as functions on the ten
credential variables; a value is "unset", "empty" or the name of the source it
is from.  What is read is the variable and its source (`Text`), so texts read
from different variables differ, and a client that is given another one's id or
secret can be told from one that is given its own.  `ReadPairs` has the names as
`config.rs:353-356` has them; `Resolve` hands the pairs to the fields of
`AwsConfig`, `FromStaticCredentials` the fields to the clients.  `features` and
`blockchainMode` are the chains the binary was built with and the one it is
asked for.  `LoadDotenv`, `Resolve` or `Exit`, `CreateApp`, `CreateTestingApp` or
`Panic` are the stages of `main`.  `identity` says whom each client acts as: the
role of the process, or an id and a secret.

### TestingStore

Each request is put to the mock and, over the same keys, to the service on KMS,
and both answers are kept (`mock`, `production`); `store` is the map of the
mock, `named` the aliases of KMS.  The production side is a summary of
`KeyLifecycle` without faults and interference, which is what a test sees.
Errors are told apart by the status `KmsError::status` gives them: a mock that
does not find a key is a 404, a DescribeKey that fails a 500, a signature of the
wrong length a 400.  What is signed is sound, a bad hash, or an Ethereum
transaction without a `chainId` (`Payload`); `chainId` is that of the
configuration, from which production makes v and which the mock ignores.
`MockDiffers` lists the cases in which the two are known to answer otherwise with
the key there.

### HostApi

`proc` is the process table (an API that starts, runs, has a signal pending, is
a zombie; a foreign process; nothing), `child` the processes the MCP server of
now has spawned, `pidFile` the file, `pc[s]` and `pid[s]` a call in progress.
Each look at the file and each `kill` is a step.  Building the binary is within
"build", between the check and the spawn.  A child is never waited for, so it
stays a zombie as long as its MCP server lives.

## 3. What TLC checks

| Run | Instance | Shows |
|---|---|---|
| `create_delete` | 2 processes, 3 connections, 2 keys, 2 faults | types; one call per process; aliases name the right key; each fault strands at most one key, and without faults no interleaving does; a stranded key stays stranded; only a lost reply leaves an alias on a key pending deletion |
| `answers` | 2 processes, 2 connections, all operations, 2 keys, 1 fault | success is reported only for what is true; without a fault a request fails only for a cause (no key, no alias, an unreadable signature, or what was sent cannot be signed), and never between two of its changes; refinement of `KeyCustody` and `KmsAccount` |
| `progress` | 1 process, 3 connections, 1 key, 1 fault, fairness | every request is answered or its client goes away; a free mutex has a first waiter who can take it, a held one a handler at work |
| `signing` | each chain; `ETH_CHAIN_ID` 1, 110, 137; 3 names of 2 keys, up to 2 per request, sequences to 2, 2 signatures; fairness | all or nothing, also on top of an earlier answer; the broadcast request agrees with the answer; sequences are from the time of the request; an Ethereum signature is whole and for the chain of the process; the loop over the names ends, and each step brings that nearer |
| `account_number` | expected to fail | the signature covers the sequence in place of the account number |
| `lookup_failure` | expected to fail | an existing account is signed for with sequence 0 when its lookup fails |
| `listing` | 3 keys, 1 other alias, fairness | complete for keys that keep their alias, sound, fails only if a call did or a key was deleted meanwhile, and ends, no page or alias being looked at twice |
| `wasm_memory` | 5 blocks, 2 strings | a call that returns no error gives back all it took, answers from its own argument, and only failed calls can use the memory up |
| `startup` | 8 variables in 4 pairs, each pair unset, set, half-set or empty in the process and unset or set in `.env`; all modes; a Casper and an Ethereum binary, asked for Ethereum or for nothing known | all clients act as the role, or each with what its own two variables hold, and with `DOTENV_DISABLE` nothing of `.env`; no access key shadows the role; mounted routes have their client; a process of production serves exactly with the credentials documented and no other chain, one of tests at least without credentials |
| `testing_store` | 3 keys, each chain; `ETH_CHAIN_ID` 1, 109, 110, 111, 137, 256; sound and bad hashes, Ethereum transactions without `chainId` | the mock holds the keys production would name, answers alike where the key exists in exactly the cases outside `MockDiffers`, signs nothing without the key or for a bad hash, and what succeeds with it (Ethereum, Cosmos) succeeds in production unless v has no room |
| `host_api` | 2 sessions, 2 pids, restarts of the MCP server | only APIs are signalled until a restart; an API that runs is in the pid file unless calls overlap |
| `host_api_zombie` | expected to fail | "already running" is said of a zombie |

Why the bounds are enough.  Interference on a key needs two processes, and
overtaking at a mutex three connections; two keys let a request meet a key that
is not its own.  Key ids are not used again, so two keys allow one to be
created, deleted and its address asked for while the other is created.  Two
faults are needed for an orphan next to a fault that must not add another.
What the small instance leaves open for the safety properties is closed by the
proofs, which have no bounds at all (`MaxFaults` is any number).  A request
with two of three names, of two keys, has every case of the loop: one key under
two names, two keys, one of them failing; the limit is two instead of ten so
that exceeding it happens.  Of the chain ids, 1 always fits one byte of v, 110 only
with one of its two parities (255, 256), and 137 never; `testing_store` adds 109
and 111, the last that always fits and the first that never does, and 256,
which is no u8.  In `answers` any request to sign may prove unsignable after any
of the three calls that can show it; the other two runs have no such requests
(`FlawFound` is empty), since they are about creations and deletions, and about
who waits for whom.  `answers` is checked up to renaming of keys with their
addresses and of connections with their processes (`Renamings`), none of which
the model treats apart; its properties are safety only.

Five blocks are one more than the largest call needs (three inputs and a
result), so that a block lost to a failed call can be the one that is missing.
The environments of `startup` have every kind of pair the code tells apart, a
half-set one being the secret without its id; the id without its secret takes
the same branch and is left to the proofs, which have any environment.
Two pids let a foreign process take the pid of an API while another API runs.
The safety properties of `HostApi` are said with the conditions under which the
code has them, kept in two history variables: `KillsOnlyApis` while the MCP
server stays up, because the zombies it never reaps keep their pids, and
`RunningIsRecorded` while calls do not overlap.

Fairness.  `Fairness` of `KeyLifecycle`: a mutex that is free is granted to the
longest waiter (tokio's mutex is FIFO), a woken handler is polled, and KMS
answers or refuses a call.  The last is an assumption about the environment:
the code puts no timeout on a KMS call, so `Progress` is conditional on KMS
answering, and one call without an answer blocks its process.  Nothing is
assumed of clients, of stray calls, or of the chain.  In `TransactionSigning` and `KeyListing`
the steps of the one handler are weakly fair together, for the same reasons;
other processes are not.

Properties are tested against defects: the operators marked "Defect" are
variants of an action with a plausible bug, one for each property of each run
(`PROJECT.json`, "mutants"), and TLC refutes the property with each of them.

## 4. What is proved

Every invariant, action property and refinement of the passing runs is a
theorem, for every value of the constants that satisfies the assumptions named
where the constants are declared.  There are no bounds in the theorems:
`MaxFaults`, `MaxKeys` and `MaxSequence` are any numbers.  `PROJECT.json` lists
the theorems; these are the arguments.

**KeyLifecycle** (`TopologyAssumption`, `KeyAssumption`, `OpsAssumption`,
`FlawAssumption`, `BoundAssumption`; nothing is assumed finite).

1. `TypeCorrect`.  `TypeOK` alone is not inductive: the key id a call uses must
   be a key.  `TypeInv` adds that at each program counter the locals needed
   from there on are defined.
2. `MutualExclusion`, `[]OneCallPerProcess`.  `LockInv`: a connection is past the
   mutex with its handler alive only if it is the holder.
3. `AliasesFaithful`, `AnswersAreTruthful`: from one invariant, `KeyInv`.  An
   alias is right because CreateAlias carries an address that its handler
   derived from the very key it made (`KnowledgeInv`: what a handler holds in
   `keyId` and `pub` at each call is about one key, which exists, and the key
   resolved through an alias is that of the address asked for).  Answers are
   true because they are given from that knowledge.
4. `OrphansStay`: an orphan has no alias under its address, so no resolution
   reaches it, and no handler holds its id, so no call can name or retire it.
5. `OrphansAreBounded`.  Orphans and faults alone are not inductive: a fault
   today (a client that leaves while CreateKey is on its way) strands a key
   later, when no fault happens.  `OrphanInv` counts the calls without a handler
   that may yet strand a key (`Strays`) with the orphans, and says that both
   sets are finite and together not more than the faults.  Each step does one
   of four things (`Accounted`): it adds neither, it adds one orphan or one
   stray call and costs a fault, or it turns a stray call into an orphan.
6. `AliasesDoNotDangle`.  `OrderlyInv`: as long as no fault has happened all
   handlers are alive, every alias is of an enabled key, the key a handler is
   about to schedule for deletion has no alias any more, and the key a handler is
   about to name is enabled and nobody else's.  The last is what a resent
   CreateAlias breaks.
7. `MutexIsNeverStuck`.  `QueueInv`: the waiters are finitely many, whoever a
   waiter waits for is a waiter of its process, and waits only for some of those
   the first one waits for; `HolderInv`: the holder is alive and past the mutex;
   `StrayInv`: a call without a handler is one of those that change the account.
   A waiter with the fewest others ahead has none (`SomebodyIsFirst`, by the
   well-foundedness of `<`), also when requests were dropped from the middle of
   the queue.
8. `FailuresHaveCause`, an action property.  It needs, besides `OrderlyInv`, two
   invariants: `OnCourseInv` (what a handler is at belongs to the operation it was asked
   for, and it signs with the key of the address it was asked for) and `SoleInv` (as long
   as there was no fault, a key whose alias was removed is about to be
   scheduled by one handler only, and is still enabled).  So ScheduleKeyDeletion
   is never refused, nor is CreateAlias; any other refusal says that the alias
   is gone.  A handler that fails after a call that was served found the flaw
   its request came with (`FlawMet`).
9. `CustodyImplemented`: initial states map to initial states, each action maps
   to a step of `KeyCustody` or to none.  Besides `KeyInv` it needs `SilentInv`,
   that a connection whose request is in progress has no answer yet, so that a
   success told in a step is told in that step only.
10. `AccountImplemented`: the same for `KmsAccount`.  Four calls change the account
   (`CreateMoves`, `CreateAliasMoves`, `DeleteAliasMoves`, `ScheduleMoves`), whether
   their handler is told, retries or is gone; both refinements rest on these
   four lemmas.

**TransactionSigning** (`ChainAssumption`, `NameAssumption`: finitely many names,
each of one signer; `NumberAssumption`, `LimitAssumption`).  `Effect` sums up what
a step does to the signatures of the current request: it forgets them, keeps them,
or adds one of the signer of the moment.  Then:

1. `TypeCorrect`, with `StepInv`: between requests nothing is left of one, and
   account data is kept only until its signature is made.
2. `ChainIdRecovered`: `WholeSignature` computes that, of the texts the module may
   return, only two-digit ones make 65 bytes, and that these carry the chain
   id; for every u8.
3. `AnswersAreConsistent`: `ConsistentInv`, of the transaction in the making and
   of the answer.
4. `SequencesAreTimely`: `TimelyInv` adds that sequences only grow and that the
   account data a handler holds is from the time of its request.
5. `AnswersAllOrNothing`: `CountInv`.  For each signer the names taken so far are
   as many as the signatures made, plus one while its signature is being made;
   and when no name is left, the names taken are all the names.
6. `RequestsRunOut`: `Work` counts four for each name not yet taken, and the
   stages the name in hand has left; every step of the handler lessens it.

**KeyListing**.  `Inv` has what the walk still has to find (`FindsInv`: each steady
key is listed, in hand, on the page, or unread), what it has found, and that
without a deletion everything in hand is still there (`CalmInv`); the
properties follow at `Return`.  `WalksRunOut` counts four for each alias that is
unread, three for each on the page, and the calls left for the one in hand; here
the account is taken to be finite (`FinitenessAssumption`).  The environment is
any that takes steps of `KmsAccount`.

**WasmBridge** (block assumption: a free block is left for the largest call).  The
five functions are lists of stages; `CourseOfCalls` tabulates for each place in
each list how many inputs are held and what has become of the result, and
checks that the lists take and give back accordingly.  `CallInv` says that the
blocks in use are those of before the call, its inputs and its result, all
different; `CleanInv` that none are in use while no call has failed.

**Startup**.  `DecidedInv` and `BuiltInv` say what one stage leaves for the next:
each client that there is will be given, and then has, the texts of its own two
variables, or all are the role.  `PairRead` relates the pair that is read for a
client to those variables, which are named a second time, from the table of
`docs/OVERVIEW.md`, in `IdOf` and `KeyOf`.  `Decision` shows that
`resolve_aws_credentials`, which looks at pairs one after the other, decides as
`DocumentedCredentials`, which looks at all variables at once; `ServesAsDocumented`
adds the mode and the chain (`Compiled`).

**TestingStore**.  `SameKeys` is inductive; with the same keys `SameAnswer` compares
the two services request by request.  `RoomForV` computes that v has two digits
exactly up to 255, for any chain id, and `SameSignature` compares what is signed.

**HostApi**.  `HeldInv`: as long as there was no restart, every pid in the file or
in a variable of a call is a child, so that it cannot have been given to another
process.  `RecordInv`: while calls have not overlapped, the one call in progress
knows what the file holds and whether that process lives.

What stays with TLC is liveness: `Progress`, `Answered`, `Terminates`, which the
prover cannot treat (fairness is said with ENABLED).  Their safety halves are
proved: a mutex that somebody waits for can be taken (`MutexIsNeverStuck`), and
who holds it comes nearer to the end with every step (`RequestsRunOut`,
`WalksRunOut`).

## 5. What the models say about the code

* Every fault at the wrong moment strands one enabled key that no endpoint can
  reach again: `OrphansBoundedByFaults` bounds the damage, `OrphanIsForever`
  says nothing repairs it.  Without faults, no interleaving of processes does.
* Racing deletions are safe: at most the one that removed the alias reports the
  deletion, the other fails.
* `account_number`: `SignDoc::new` gets the sequence as the account number
  (`cosmos_keys_service.rs:177`); the tests use an account where both are 0.
* `lookup_failure`: `fetch_account_info` documents an error for a failed request
  and returns the default account (`cosmos_keys_service.rs:585`).
* A key named by its address and by its public key in one request is signed
  with twice, and a request with no keys is answered with its own transaction;
  `AllOrNothing` counts names, not keys, as the code does.
* A funded Cosmos account that never sent a transaction has no public key on
  chain, so its first transaction is refused (`cosmos_keys_service.rs:162`).
* Every failed call into the WASM module may leave its strings allocated for the
  life of the process; calls without an error leave nothing
  (`ExhaustionNeedsError`, `MemoryReturned`).  An error that the module reports
  as a string is returned as `Ok`, although the comments of `address_eth` and
  `address_cosmos` say otherwise (`crypto_service.rs:118`, `:138`).
* Credentials are resolved before `TESTING_MODE` is looked at (`config.rs:108`), so
  that a half-set pair, or an `AWS_ACCESS_KEY_ID` in the environment of a
  developer, stops a process that needs none, although `docs/OVERVIEW.md` says
  "no credentials needed" (162) and "Not required" (231).  `StartsAsDocumented`
  therefore says of `TESTING_MODE` only that a process without any credentials
  starts; it does not call the code's demands the documentation's.  A pair that is half-set in the process and complete
  in `.env` is merged to a pair of both sources, and the process starts with it.
* "All endpoints work exactly as they would in production" (`docs/OVERVIEW.md:164`)
  is not true of `TESTING_MODE`.  With the key there, there are three differences,
  and `AlikeWithKeys` says that there are no others in what is modelled: the Ethereum mock signs with
  any `ETH_CHAIN_ID`, where production refuses a v of three digits
  (`mock_ethereum_keys_service.rs:65-115`); it refuses a transaction without a
  `chainId`, which its wallet signs for chain 1 and its verification then does not
  recognise (`:177-190`), where production signs; and a bad hash is a 400 in the
  mocks of Ethereum and Casper, a 500 in production.  About keys that are not there
  more differs: deleting one is `false` against an error, signing with one is a
  404 against a 500.
* An Ethereum process with a chain id above 110 cannot sign: v has three
  hexadecimal digits and the signature is refused as no whole bytes; with 110 it
  depends on the parity.  This happens with the key, its alias and KMS intact, so
  `FailuresNeedCause` counts it among the causes.  What is answered is right (`RecoversChainId`).  A
  failure of `recover_v` is only logged, and it is the check of the length that
  turns it into an error.
* An `ETH_CHAIN_ID` that is no u8 is silently 1 (`config.rs:163`), and the hash is
  computed with the transaction's own `chainId` (`ethereum_keys_service.rs:153`);
  nothing compares the two, and v is then for the main net.
* `BLOCKCHAIN_MODE` with a word that is no chain is silently Casper
  (`config.rs:118`).  `kms_api_start` builds the binary with the feature it is
  given but always asks it for Casper (`mcp/src/ops.rs:379`): with another
  feature the API ends in the panic of `ensure_blockchain_feature`, and the text
  says it was started.
* `docs/OVERVIEW.md:506` gives `cosmoshub-4` as the default of `COSMOS_CHAIN_ID`;
  it is `testing` (`constants.rs:13`).
* `host_api_zombie`: a child that ended is never waited for, `kill -0` finds it,
  and `kms_api_start` says it is running (`ops.rs:351`).
* The pid file is checked and written without holding anything, so two starts
  side by side leave an API that no file names; and a pid is trusted however old
  the file is, so that after a restart of the MCP server a foreign process may
  be signalled.  Waiting for the child would cure the zombies and bring the
  second to life without a restart (mutant `EndsAndIsReaped`): the cure needs
  the file to be removed as well.

## 6. Not modelled

Left out for good: formats and wording of requests, answers, errors and logs;
the OpenAPI document; Docker and build files; cryptography; the JavaScript under
`docs/api-rust/`, which rustdoc generates and which is no part of the service.

Left out because nothing interesting depends on it: the docker compose tools of
the MCP server run one command each and keep no state, its HTTP tools forward
one request each; `MockKmsClientService` returns constants; port, address,
region and the Cosmos names of the configuration are passed on as they are.  Of
the error mapping there is what requests about keys end in (`TestingStore`); other
errors are "failed".

Whether an Ethereum transaction names a chain at all is modelled, for the mock
that stumbles on it.  The fields of a transaction are data otherwise: that the chain id in it is the one of the
process is checked nowhere, in the code as in the models.

What may be added: one specification of a listing and the handlers of
`KeyLifecycle` side by side, which would turn the composition through
`KmsAccount` (two theorems now, put together here in words) into one theorem; the state machine of one compose stack of the MCP server,
should it come to keep state; a timeout around KMS calls, should the code get
one, which would make `Progress` unconditional.
