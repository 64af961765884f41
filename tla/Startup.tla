------------------------------- MODULE Startup -------------------------------
(***************************************************************************)
(* What an API process does before it serves: it merges the .env file into *)
(* its environment, decides on the credentials of its clients              *)
(* (config.rs, try_from_env), builds the service and its KMS clients       *)
(* (create_keys_service, AWSKmsClientService::new) and mounts the routes   *)
(* (create_app).  The steps are sequential; what is hard is the number of  *)
(* environments, and that the decision and its use are far apart.          *)
(*                                                                         *)
(* An environment says of each variable that it is "unset", "empty", or    *)
(* which source has set it.  The text read from a variable is known by the *)
(* name and the source: no two are alike.  The modes are taken as they are *)
(* after the merge.                                                        *)
(***************************************************************************)
EXTENDS FiniteSets

CONSTANTS
  ProcessEnv,   \* the environments a process may be started with
  FileEnv,      \* the environments a .env file may hold
  Build,        \* the sets of Cargo features a binary may have
  ModeName      \* what BLOCKCHAIN_MODE may name, or "other"

Client   == {"create", "sign", "delete", "list"}
Optional == {"delete", "list"}

Chain == {"casper", "ethereum", "cosmos"}

KmsVariable == {"KMS_CREATE_ID", "KMS_CREATE_KEY", "KMS_SIGN_ID", "KMS_SIGN_KEY",
                "KMS_DELETE_ID", "KMS_DELETE_KEY", "KMS_LIST_ID", "KMS_LIST_KEY"}
AwsVariable == {"AWS_ACCESS_KEY_ID", "AWS_SECRET_ACCESS_KEY"}
Variable    == KmsVariable \cup AwsVariable

Value == {"unset", "empty", "process", "file"}

ASSUME EnvAssumption ==
  /\ ProcessEnv \subseteq [Variable -> Value \ {"file"}]
  /\ FileEnv \subseteq [Variable -> Value \ {"process"}]

ASSUME ChainAssumption ==
  /\ \A b \in Build : b # {} /\ b \subseteq Chain
  /\ ModeName \subseteq Chain \cup {"other"}

VARIABLES
  env,              \* the environment of the process
  file,             \* the variables in its .env file
  dotenvDisable,    \* DOTENV_DISABLE is set
  mode,             \* the modes that are on: testing, aws, delete, list
  features,         \* the chains that the binary was built with
  blockchainMode,   \* the chain BLOCKCHAIN_MODE names; "other": none of them
  stage,
  config,           \* AwsConfig: the credentials decided on
  identity,         \* whom each KMS client that was built acts as
  routes            \* the optional routes that are mounted

input == <<file, dotenvDisable, mode, features, blockchainMode>>
vars  == <<env, file, dotenvDisable, mode, features, blockchainMode,
           stage, config, identity, routes>>

NonEmpty(x) == env[x] \notin {"unset", "empty"}

(* Credentials are two texts; the others are from no variable: None of an  *)
(* Option, AwsCreds::default(), and what the SDK finds for the role.       *)
Text(x)  == [of |-> x, from |-> env[x]]
Other(s) == [id |-> [of |-> "none", from |-> s], secret |-> [of |-> "none", from |-> s]]
None     == Other("None")
Default  == Other("default")
Role     == Other("role")

NoConfig == [create |-> None, sign |-> None, delete |-> None, list |-> None,
             useDefault |-> FALSE]

Init ==
  /\ env \in ProcessEnv /\ file \in FileEnv
  /\ dotenvDisable \in BOOLEAN
  /\ mode \in SUBSET {"testing", "aws", "delete", "list"}
  /\ features \in Build /\ blockchainMode \in ModeName
  /\ stage = "dotenv"
  /\ config = NoConfig
  /\ identity = [c \in {} |-> Role]
  /\ routes = {}

-----------------------------------------------------------------------------
(* A variable that the process has, even empty, is not taken from the file.*)
LoadDotenv ==
  /\ stage = "dotenv"
  /\ env' = IF dotenvDisable THEN env
            ELSE [x \in Variable |-> IF env[x] = "unset" THEN file[x] ELSE env[x]]
  /\ stage' = "credentials"
  /\ UNCHANGED <<input, config, identity, routes>>

(* read_cred_pair: both, neither, or an error.                             *)
ReadCredPair(x, y) ==
  CASE NonEmpty(x) /\ NonEmpty(y)   -> [found |-> "some", creds |-> [id |-> Text(x), secret |-> Text(y)]]
    [] ~NonEmpty(x) /\ ~NonEmpty(y) -> [found |-> "none", creds |-> None]
    [] OTHER                        -> [found |-> "half", creds |-> None]

(* Defect: a line copied and half adapted, the key of create for sign. *)
ReadPairsMixed ==
  [create |-> ReadCredPair("KMS_CREATE_ID", "KMS_CREATE_KEY"),
   sign   |-> ReadCredPair("KMS_SIGN_ID", "KMS_CREATE_KEY"),
   delete |-> ReadCredPair("KMS_DELETE_ID", "KMS_DELETE_KEY"),
   list   |-> ReadCredPair("KMS_LIST_ID", "KMS_LIST_KEY")]

ReadPairs ==
  [create |-> ReadCredPair("KMS_CREATE_ID", "KMS_CREATE_KEY"),
   sign   |-> ReadCredPair("KMS_SIGN_ID", "KMS_SIGN_KEY"),
   delete |-> ReadCredPair("KMS_DELETE_ID", "KMS_DELETE_KEY"),
   list   |-> ReadCredPair("KMS_LIST_ID", "KMS_LIST_KEY")]

(* Defect: an access key of the SDK without its secret goes unnoticed. *)
ShadowedByPair == NonEmpty("AWS_ACCESS_KEY_ID") /\ NonEmpty("AWS_SECRET_ACCESS_KEY")

(* refuse_shadowing_aws_env_creds: either of the two is refused.           *)
Shadowed == NonEmpty("AWS_ACCESS_KEY_ID") \/ NonEmpty("AWS_SECRET_ACCESS_KEY")

(* resolve_aws_credentials, the two ways that succeed: no pair at all, or  *)
(* the pairs of all clients that there will be.                            *)
DefaultChain == (\A c \in Client : ReadPairs[c].found = "none") /\ ~Shadowed

(* Defect: the pair of a mode that is off is not looked at. *)
StaticKeysEnabled ==
  \A c \in {"create", "sign"} \cup (Optional \cap mode) : ReadPairs[c].found = "some"

StaticKeys ==
  /\ \A c \in Client : ReadPairs[c].found # "half"
  /\ ReadPairs.create.found = "some" /\ ReadPairs.sign.found = "some"
  /\ \A c \in Optional \cap mode : ReadPairs[c].found = "some"

When(m, creds) == IF m \in mode THEN creds ELSE None

Resolve ==
  /\ stage = "credentials"
  /\ \/ /\ DefaultChain
        /\ config' = [create |-> Default, sign |-> Default,
                      delete |-> When("delete", Default), list |-> When("list", Default),
                      useDefault |-> TRUE]
     \/ /\ StaticKeys
        /\ LET pairs == ReadPairs
           IN  config' = [create |-> pairs.create.creds, sign |-> pairs.sign.creds,
                          delete |-> When("delete", pairs.delete.creds),
                          list |-> When("list", pairs.list.creds),
                          useDefault |-> FALSE]
  /\ stage' = "service"
  /\ UNCHANGED <<env, input, identity, routes>>

(* Every `?` and Err: the error is logged, exit(1).                        *)
Exit ==
  /\ stage = "credentials" /\ ~DefaultChain /\ ~StaticKeys
  /\ stage' = "exited"
  /\ UNCHANGED <<env, input, config, identity, routes>>

(* The chain served: what is unset or not a chain stands for the default.  *)
Blockchain == IF blockchainMode \in Chain THEN blockchainMode ELSE "casper"

(* ensure_blockchain_feature: the binary was built for this chain.         *)
Supported == Blockchain \in features

(* AWSKmsClientService::new: the role for all clients, or each with the    *)
(* credentials of the configuration; an optional client only if there are  *)
(* any.                                                                    *)
FromDefaultChain == [c \in { c \in Client : config[c] # None } |-> Role]

FromStaticCredentials ==
  LET acts == [create |-> config.create, sign |-> config.sign,
               delete |-> config.delete, list |-> config.list]
  IN  [c \in { c \in Client : acts[c] # None } |-> acts[c]]

(* Defect: the routes are mounted before the credentials are looked at. *)
CreateAppWithAllRoutes ==
  /\ stage = "service" /\ Supported /\ "testing" \notin mode /\ "aws" \in mode
  /\ identity' = IF config.useDefault THEN FromDefaultChain ELSE FromStaticCredentials
  /\ routes' = Optional
  /\ stage' = "serving"
  /\ UNCHANGED <<env, input, config>>

CreateApp ==
  /\ stage = "service" /\ Supported /\ "testing" \notin mode /\ "aws" \in mode
  /\ identity' = IF config.useDefault THEN FromDefaultChain ELSE FromStaticCredentials
  /\ routes' = Optional \cap mode
  /\ stage' = "serving"
  /\ UNCHANGED <<env, input, config>>

(* The services of services/mocks have no client.                          *)
CreateTestingApp ==
  /\ stage = "service" /\ Supported /\ "testing" \in mode
  /\ routes' = Optional \cap mode
  /\ stage' = "serving"
  /\ UNCHANGED <<env, input, config, identity>>

(* UnsupportedMode: the expect of create_keys_service panics, as does a    *)
(* chain that was not compiled in.                                         *)
Panic ==
  /\ stage = "service"
  /\ ~Supported \/ mode \cap {"testing", "aws"} = {}
  /\ stage' = "exited"
  /\ UNCHANGED <<env, input, config, identity, routes>>

Next == LoadDotenv \/ Resolve \/ Exit \/ CreateApp \/ CreateTestingApp \/ Panic

Spec == Init /\ [][Next]_vars

-----------------------------------------------------------------------------
(* The variables of a client in docs/OVERVIEW.md (449-456).                *)
IdOf  == [create |-> "KMS_CREATE_ID", sign |-> "KMS_SIGN_ID",
          delete |-> "KMS_DELETE_ID", list |-> "KMS_LIST_ID"]
KeyOf == [create |-> "KMS_CREATE_KEY", sign |-> "KMS_SIGN_KEY",
          delete |-> "KMS_DELETE_KEY", list |-> "KMS_LIST_KEY"]

(* Every client of a serving process acts as the role of the process, or   *)
(* every one with an access key and a secret from the two variables that   *)
(* are its own, through reading, deciding and building (config.rs:353-403, *)
(* aws_kms_client_service.rs:70-138).  With DOTENV_DISABLE nothing that a  *)
(* client acts with is from a leftover .env file.                          *)
OwnIdentity ==
  (stage = "serving" /\ "testing" \notin mode) =>
    /\ \/ \A c \in DOMAIN identity : identity[c] = Role
       \/ \A c \in DOMAIN identity :
            identity[c].id.of = IdOf[c] /\ identity[c].secret.of = KeyOf[c]
    /\ dotenvDisable => \A c \in DOMAIN identity :
         identity[c].id.from # "file" /\ identity[c].secret.from # "file"

(* A process that acts as its role has no access key in its environment,   *)
(* where the SDK would find it before the role (config.rs:321-338).        *)
RoleNotShadowed ==
  (stage = "serving" /\ \E c \in DOMAIN identity : identity[c] = Role)
    => \A x \in AwsVariable : ~NonEmpty(x)

(* The routes that are mounted have a client to do their work, which       *)
(* delete_key and list_keys of the client look for only when they are      *)
(* called (lib.rs:181-187, aws_kms_client_service.rs:298-301).             *)
RoutesHaveClients ==
  (stage = "serving" /\ "testing" \notin mode) => routes \subseteq DOMAIN identity

(* The credentials docs/OVERVIEW.md (466-468) asks for: static keys, a     *)
(* pair for create, for sign and for the modes that are on; or the role,   *)
(* no KMS_* variable (the text says no required one, the error messages    *)
(* none) and no AWS access key.  No pair is half set.                      *)
DocumentedCredentials ==
  /\ \A c \in Client : NonEmpty(IdOf[c]) = NonEmpty(KeyOf[c])
  /\ \/ \A c \in {"create", "sign"} \cup (Optional \cap mode) : NonEmpty(IdOf[c])
     \/ \A x \in Variable : ~NonEmpty(x)

(* The binary has the chain asked for, Casper for what is no chain.        *)
Compiled == blockchainMode \in features \/ (blockchainMode = "other" /\ "casper" \in features)

(* With TESTING_MODE off a process serves exactly with the credentials     *)
(* documented, after the merge with .env (config.rs:349-409), with         *)
(* AWS_MODE on and the chain compiled in (lib.rs:160).  With TESTING_MODE  *)
(* on it starts where no credentials are given at all, as in the example   *)
(* of docs/OVERVIEW.md (169-176).  That it does not look at those that are *)
(* given (162, 231) is not true of the code, which decides on them before  *)
(* it looks at the mode (config.rs:108), and not stated here.              *)
StartsAsDocumented ==
  /\ "testing" \notin mode =>
       /\ stage = "serving" => DocumentedCredentials /\ Compiled /\ "aws" \in mode
       /\ stage = "exited"  => ~(DocumentedCredentials /\ Compiled /\ "aws" \in mode)
  /\ "testing" \in mode =>
       /\ stage = "serving" => Compiled
       /\ stage = "exited"  => ~Compiled \/ \E x \in Variable : NonEmpty(x)

=============================================================================
