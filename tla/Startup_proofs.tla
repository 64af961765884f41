---------------------------- MODULE Startup_proofs ----------------------------
(***************************************************************************)
(* Proofs about Startup, for any environment of the process and any .env   *)
(* file.  The decision on the credentials and their use are two steps: the *)
(* invariant says what the first has left for the second.                  *)
(***************************************************************************)
EXTENDS Startup, TLAPS

Stage == {"dotenv", "credentials", "service", "serving", "exited"}

(* Types, as far as the decision depends on them, and where the values of  *)
(* the environment are from.                                               *)
Types ==
  /\ \A x \in Variable : env[x] \in Value /\ file[x] \in Value
  /\ dotenvDisable => \A x \in Variable : env[x] # "file"
  /\ stage = "dotenv" => \A x \in Variable : env[x] # "file"
  /\ mode \subseteq {"testing", "aws", "delete", "list"}
  /\ features \subseteq Chain /\ blockchainMode \in ModeName
  /\ stage \in Stage

(* The clients that there will be, and the credentials that are their own. *)
Enabled == { c \in Client : c \in Optional => c \in mode }

Own(c) == [id |-> Text(IdOf[c]), secret |-> Text(KeyOf[c])]

(* What Resolve has decided, and what CreateApp makes of it.               *)
DecidedInv ==
  stage = "service" =>
    /\ \A c \in Client \ Enabled : config[c] = None
    /\ \/ /\ DefaultChain /\ config.useDefault
          /\ \A c \in Enabled : config[c] = Default
       \/ /\ StaticKeys /\ ~config.useDefault
          /\ \A c \in Enabled : config[c] = Own(c)

BuiltInv ==
  /\ stage = "serving" =>
       /\ DefaultChain \/ StaticKeys
       /\ Supported
       /\ "testing" \in mode \/ "aws" \in mode
       /\ routes = Optional \cap mode
       /\ "testing" \in mode => DOMAIN identity = {}
       /\ "testing" \notin mode =>
            /\ DOMAIN identity = Enabled
            /\ \/ DefaultChain /\ \A c \in Enabled : identity[c] = Role
               \/ StaticKeys /\ \A c \in Enabled : identity[c] = Own(c)
  /\ stage \in {"dotenv", "credentials", "service"} => DOMAIN identity = {}
  /\ stage = "exited" =>
       \/ ~DefaultChain /\ ~StaticKeys
       \/ ~Supported
       \/ "testing" \notin mode /\ "aws" \notin mode

Inv == Types /\ DecidedInv /\ BuiltInv

-----------------------------------------------------------------------------
(* read_cred_pair, for the pair of each client.                            *)
LEMMA Names ==
  /\ IdOf.create = "KMS_CREATE_ID" /\ KeyOf.create = "KMS_CREATE_KEY"
  /\ IdOf.sign   = "KMS_SIGN_ID"   /\ KeyOf.sign   = "KMS_SIGN_KEY"
  /\ IdOf.delete = "KMS_DELETE_ID" /\ KeyOf.delete = "KMS_DELETE_KEY"
  /\ IdOf.list   = "KMS_LIST_ID"   /\ KeyOf.list   = "KMS_LIST_KEY"
  /\ \A c \in Client : IdOf[c] \in KmsVariable /\ KeyOf[c] \in KmsVariable
  /\ KmsVariable = { IdOf[c] : c \in Client } \cup { KeyOf[c] : c \in Client }
  /\ Client = {"create", "sign", "delete", "list"}
  BY DEF IdOf, KeyOf, Client, KmsVariable

LEMMA PairRead ==
  ASSUME NEW c \in Client
  PROVE  /\ ReadPairs[c].found \in {"some", "none", "half"}
         /\ ReadPairs[c].found = "some" <=> NonEmpty(IdOf[c]) /\ NonEmpty(KeyOf[c])
         /\ ReadPairs[c].found = "none" <=> ~NonEmpty(IdOf[c]) /\ ~NonEmpty(KeyOf[c])
         /\ ReadPairs[c].found = "some" => ReadPairs[c].creds = Own(c)
<1>1. ReadPairs[c] = ReadCredPair(IdOf[c], KeyOf[c])
  BY Names DEF ReadPairs
<1>2. CASE NonEmpty(IdOf[c]) /\ NonEmpty(KeyOf[c])
  BY <1>1, <1>2 DEF ReadCredPair, Own
<1>3. CASE ~NonEmpty(IdOf[c]) /\ ~NonEmpty(KeyOf[c])
  BY <1>1, <1>3 DEF ReadCredPair
<1>4. CASE NonEmpty(IdOf[c]) /\ ~NonEmpty(KeyOf[c])
  BY <1>1, <1>4 DEF ReadCredPair
<1>5. CASE ~NonEmpty(IdOf[c]) /\ NonEmpty(KeyOf[c])
  BY <1>1, <1>5 DEF ReadCredPair
<1> QED BY <1>2, <1>3, <1>4, <1>5

(* Credentials of different origin are different.                          *)
LEMMA Apart ==
  /\ None # Default /\ None # Role
  /\ \A c \in Client : Own(c) # None /\ Own(c) # Role
<1>1. None.id.from = "None" /\ Default.id.from = "default" /\ Role.id.from = "role"
  BY DEF None, Default, Role, Other
<1>2. ASSUME NEW c \in Client PROVE Own(c).id.of # "none"
  BY Names DEF Own, Text, KmsVariable
<1>3. None.id.of = "none" /\ Role.id.of = "none"
  BY DEF None, Role, Other
<1> QED BY <1>1, <1>2, <1>3

LEMMA InitInv == Init => Inv
<1> SUFFICES ASSUME Init PROVE Inv
  OBVIOUS
<1>1. env \in [Variable -> Value \ {"file"}] /\ file \in [Variable -> Value]
  BY EnvAssumption DEF Init
<1>2. /\ mode \subseteq {"testing", "aws", "delete", "list"} /\ stage = "dotenv"
      /\ features \subseteq Chain /\ blockchainMode \in ModeName
  BY ChainAssumption DEF Init
<1>3. Types
  BY <1>1, <1>2 DEF Types, Stage
<1> QED BY <1>2, <1>3 DEF Init, Inv, DecidedInv, BuiltInv

LEMMA LoadInv == Inv /\ LoadDotenv => Inv'
<1> SUFFICES ASSUME Inv, LoadDotenv PROVE Inv'
  OBVIOUS
<1>1. /\ UNCHANGED <<file, dotenvDisable, mode, features, blockchainMode, identity>>
      /\ stage = "dotenv" /\ stage' = "credentials"
  BY DEF LoadDotenv, input
<1>2. CASE dotenvDisable
  BY <1>1, <1>2 DEF LoadDotenv, Inv, Types, Stage, DecidedInv, BuiltInv
<1>3. CASE ~dotenvDisable
  <2>1. \A x \in Variable : env'[x] = IF env[x] = "unset" THEN file[x] ELSE env[x]
    BY <1>3 DEF LoadDotenv
  <2>2. Types'
    BY <1>1, <1>3, <2>1 DEF Inv, Types, Stage
  <2> QED BY <1>1, <2>2 DEF Inv, DecidedInv, BuiltInv
<1> QED BY <1>2, <1>3

(* What Resolve and its successors see does not change any more.           *)
Seen == <<env, dotenvDisable, file, mode, features, blockchainMode>>

LEMMA Unchanged ==
  ASSUME UNCHANGED Seen
  PROVE  /\ DefaultChain' = DefaultChain /\ StaticKeys' = StaticKeys
         /\ Enabled' = Enabled /\ Supported' = Supported
         /\ \A c : Own(c)' = Own(c)
  BY DEF Seen, DefaultChain, StaticKeys, Shadowed, ReadPairs, ReadCredPair, NonEmpty, Text,
         Enabled, Supported, Blockchain, Own

LEMMA ResolveInv == Inv /\ (Resolve \/ Exit) => Inv'
<1> SUFFICES ASSUME Inv, Resolve \/ Exit PROVE Inv'
  OBVIOUS
<1>1. UNCHANGED Seen /\ UNCHANGED identity /\ stage = "credentials"
      /\ stage' \in {"service", "exited"}
  BY DEF Resolve, Exit, input, Seen
<1>2. Types'
  BY <1>1 DEF Seen, Inv, Types, Stage
<1>3. CASE Resolve /\ DefaultChain /\ config'.useDefault
  <2>1. stage' = "service"
    BY <1>3 DEF Resolve
  <2>2. config' = [create |-> Default, sign |-> Default,
                   delete |-> When("delete", Default), list |-> When("list", Default),
                   useDefault |-> TRUE]
    BY <1>3 DEF Resolve
  <2>3. \A c \in Client : config'[c] = IF c \in Enabled THEN Default ELSE None
    BY <2>2, Names DEF When, Enabled, Optional
  <2>4. DecidedInv'
    BY <1>1, <1>3, <2>3, Unchanged DEF DecidedInv, Enabled
  <2> QED BY <1>1, <1>2, <2>1, <2>4 DEF Inv, BuiltInv
<1>4. CASE Resolve /\ StaticKeys /\ ~config'.useDefault
  <2>1. stage' = "service"
    BY <1>4 DEF Resolve
  <2>2. config' = [create |-> ReadPairs.create.creds, sign |-> ReadPairs.sign.creds,
                   delete |-> When("delete", ReadPairs.delete.creds),
                   list |-> When("list", ReadPairs.list.creds),
                   useDefault |-> FALSE]
    BY <1>4 DEF Resolve
  <2>3. \A c \in Client : config'[c] = IF c \in Enabled THEN ReadPairs[c].creds ELSE None
    BY <2>2, Names DEF When, Enabled, Optional
  <2>4. \A c \in Enabled : ReadPairs[c].found = "some"
    BY <1>4, Names DEF StaticKeys, Enabled, Optional
  <2>5. \A c \in Enabled : ReadPairs[c].creds = Own(c)
    BY <2>4, PairRead DEF Enabled
  <2>6. DecidedInv'
    BY <1>1, <1>4, <2>3, <2>5, Unchanged DEF DecidedInv, Enabled
  <2> QED BY <1>1, <1>2, <2>1, <2>6 DEF Inv, BuiltInv
<1>5. CASE Exit
  <2>1. ~DefaultChain /\ ~StaticKeys /\ stage' = "exited"
    BY <1>5 DEF Exit
  <2> QED BY <1>1, <1>2, <2>1, Unchanged DEF Inv, DecidedInv, BuiltInv
<1>6. ASSUME Resolve
      PROVE  (DefaultChain /\ config'.useDefault) \/ (StaticKeys /\ ~config'.useDefault)
  BY <1>6 DEF Resolve
<1> QED BY <1>3, <1>4, <1>5, <1>6

LEMMA CreateInv == Inv /\ (CreateApp \/ CreateTestingApp \/ Panic) => Inv'
<1> SUFFICES ASSUME Inv, CreateApp \/ CreateTestingApp \/ Panic PROVE Inv'
  OBVIOUS
<1>1. UNCHANGED Seen /\ stage = "service" /\ stage' \in {"serving", "exited"}
  BY DEF CreateApp, CreateTestingApp, Panic, input, Seen
<1>2. Types'
  BY <1>1 DEF Seen, Inv, Types, Stage
<1>3. DecidedInv'
  BY <1>1 DEF DecidedInv
<1>4. CASE CreateApp
  <2>1. /\ identity' = IF config.useDefault THEN FromDefaultChain ELSE FromStaticCredentials
        /\ routes' = Optional \cap mode /\ stage' = "serving" /\ "testing" \notin mode
        /\ "aws" \in mode /\ Supported
    BY <1>4 DEF CreateApp
  <2>2. \A c \in Client : config[c] # None <=> c \in Enabled
    BY <1>1, Apart DEF Inv, DecidedInv, Enabled
  <2>3. ASSUME config.useDefault PROVE BuiltInv'
    <3>1. identity' = [c \in Enabled |-> Role]
      BY <2>1, <2>2, <2>3 DEF FromDefaultChain, Enabled
    <3>2. DefaultChain
      BY <1>1, <2>3 DEF Inv, DecidedInv
    <3> QED BY <1>1, <2>1, <3>1, <3>2, Unchanged DEF Seen, BuiltInv
  <2>4. ASSUME ~config.useDefault PROVE BuiltInv'
    <3> DEFINE acts == [create |-> config.create, sign |-> config.sign,
                        delete |-> config.delete, list |-> config.list]
    <3>1. \A c \in Client : acts[c] = config[c]
      BY Names
    <3>2. identity' = [c \in { c \in Client : acts[c] # None } |-> acts[c]]
      BY <2>1, <2>4 DEF FromStaticCredentials
    <3> HIDE DEF acts
    <3>3. { c \in Client : acts[c] # None } = Enabled
      BY <2>2, <3>1 DEF Enabled
    <3>4. StaticKeys /\ \A c \in Enabled : config[c] = Own(c)
      BY <1>1, <2>4 DEF Inv, DecidedInv
    <3>5. DOMAIN identity' = Enabled /\ \A c \in Enabled : identity'[c] = Own(c)
      BY <3>1, <3>2, <3>3, <3>4 DEF Enabled
    <3> QED BY <1>1, <2>1, <3>4, <3>5, Unchanged DEF Seen, BuiltInv
  <2>5. BuiltInv'
    BY <2>3, <2>4
  <2> QED BY <1>2, <1>3, <2>5 DEF Inv
<1>5. CASE CreateTestingApp
  <2>1. DefaultChain \/ StaticKeys
    BY <1>1 DEF Inv, DecidedInv
  <2>2. /\ routes' = Optional \cap mode /\ stage' = "serving" /\ "testing" \in mode /\ Supported
        /\ DOMAIN identity' = {}
    BY <1>5 DEF CreateTestingApp, Inv, BuiltInv
  <2> QED BY <1>1, <1>2, <1>3, <2>1, <2>2, Unchanged DEF Seen, Inv, BuiltInv
<1>6. CASE Panic
  <2>1. stage' = "exited" /\ (~Supported \/ ("testing" \notin mode /\ "aws" \notin mode))
    BY <1>6 DEF Panic
  <2> QED BY <1>1, <1>2, <1>3, <2>1, Unchanged DEF Seen, Inv, BuiltInv
<1> QED BY <1>4, <1>5, <1>6

LEMMA StutterInv == Inv /\ UNCHANGED vars => Inv'
<1> SUFFICES ASSUME Inv, UNCHANGED vars PROVE Inv'
  OBVIOUS
<1>1. UNCHANGED Seen /\ UNCHANGED <<stage, config, identity, routes>>
  BY DEF vars, Seen
<1> QED BY <1>1, Unchanged DEF Seen, Inv, Types, DecidedInv, BuiltInv

LEMMA Invariant == Spec => []Inv
<1>1. Inv /\ [Next]_vars => Inv'
  BY LoadInv, ResolveInv, CreateInv, StutterInv DEF Next
<1> QED BY <1>1, InitInv, PTL DEF Spec

-----------------------------------------------------------------------------
(* Every KMS client of a serving process has the access key and the secret *)
(* of its own two variables, or all act as the role; with DOTENV_DISABLE   *)
(* none is from the .env file (config.rs:353-403).                         *)
THEOREM OneIdentityEach == Spec => []OwnIdentity
<1>1. Inv => OwnIdentity
  <2> SUFFICES ASSUME Inv, stage = "serving", "testing" \notin mode
               PROVE  /\ \/ \A c \in DOMAIN identity : identity[c] = Role
                         \/ \A c \in DOMAIN identity :
                              identity[c].id.of = IdOf[c] /\ identity[c].secret.of = KeyOf[c]
                      /\ dotenvDisable => \A c \in DOMAIN identity :
                           identity[c].id.from # "file" /\ identity[c].secret.from # "file"
    BY DEF OwnIdentity
  <2>1. DOMAIN identity = Enabled /\ Enabled \subseteq Client
    BY DEF Inv, BuiltInv, Enabled
  <2>2. CASE \A c \in Enabled : identity[c] = Role
    <3>1. Role.id.from = "role" /\ Role.secret.from = "role"
      BY DEF Role, Other
    <3> QED BY <2>1, <2>2, <3>1
  <2>3. CASE \A c \in Enabled : identity[c] = Own(c)
    <3>1. \A c : /\ Own(c).id.of = IdOf[c] /\ Own(c).secret.of = KeyOf[c]
                 /\ Own(c).id.from = env[IdOf[c]] /\ Own(c).secret.from = env[KeyOf[c]]
      BY DEF Own, Text
    <3>2. dotenvDisable => \A c \in Client : env[IdOf[c]] # "file" /\ env[KeyOf[c]] # "file"
      BY Names DEF Inv, Types, Variable
    <3> QED BY <2>1, <2>3, <3>1, <3>2
  <2> QED BY <2>2, <2>3 DEF Inv, BuiltInv
<1> QED BY <1>1, Invariant, PTL

(* A process that acts as its role has no other access key that the SDK    *)
(* could find first (config.rs:321-338).                                   *)
THEOREM NoKeyBeforeRole == Spec => []RoleNotShadowed
<1>1. Inv => RoleNotShadowed
  <2> SUFFICES ASSUME BuiltInv, stage = "serving", NEW c \in DOMAIN identity, identity[c] = Role
               PROVE  \A x \in AwsVariable : ~NonEmpty(x)
    BY DEF Inv, RoleNotShadowed
  <2>1. "testing" \notin mode /\ DOMAIN identity = Enabled
    BY DEF BuiltInv
  <2>2. DefaultChain
    BY <2>1, Apart DEF BuiltInv, Enabled
  <2> QED BY <2>2 DEF DefaultChain, Shadowed, AwsVariable
<1> QED BY <1>1, Invariant, PTL

(* A mounted route finds the client it works with (lib.rs:181-187).        *)
THEOREM ClientForEveryRoute == Spec => []RoutesHaveClients
<1>1. Inv => RoutesHaveClients
  BY DEF Inv, BuiltInv, RoutesHaveClients, Enabled, Optional, Client
<1> QED BY <1>1, Invariant, PTL

(* resolve_aws_credentials decides as the documentation does, in all its   *)
(* cases.                                                                  *)
LEMMA Decision == DocumentedCredentials <=> DefaultChain \/ StaticKeys
<1> DEFINE NoHalf == \A c \in Client : NonEmpty(IdOf[c]) = NonEmpty(KeyOf[c])
           Given(c) == NonEmpty(IdOf[c])
<1>1. \A c : NonEmpty(IdOf[c]) \in BOOLEAN /\ NonEmpty(KeyOf[c]) \in BOOLEAN
  BY DEF NonEmpty
<1>2. NoHalf <=> \A c \in Client : ReadPairs[c].found # "half"
  BY PairRead DEF NonEmpty
<1>3. NoHalf => \A c \in Client : ReadPairs[c].found = "some" <=> Given(c)
  BY PairRead DEF NonEmpty
<1>4. DefaultChain <=> NoHalf /\ \A x \in Variable : ~NonEmpty(x)
  <2>1. (\A x \in AwsVariable : ~NonEmpty(x)) <=> ~Shadowed
    BY DEF AwsVariable, Shadowed
  <2>2. (\A x \in KmsVariable : ~NonEmpty(x)) <=> \A c \in Client : ReadPairs[c].found = "none"
    BY PairRead, Names
  <2>3. (\A x \in KmsVariable : ~NonEmpty(x)) => NoHalf
    BY Names DEF NonEmpty
  <2> QED BY <2>1, <2>2, <2>3 DEF DefaultChain, Variable
<1>5. StaticKeys <=> NoHalf /\ \A c \in {"create", "sign"} \cup (Optional \cap mode) : Given(c)
  <2>1. {"create", "sign"} \cup (Optional \cap mode) \subseteq Client
    BY DEF Client, Optional
  <2> QED BY <1>2, <1>3, <2>1 DEF StaticKeys, Client
<1> QED BY <1>4, <1>5 DEF DocumentedCredentials

LEMMA CompiledIsSupported == Types => (Compiled <=> Supported)
  BY ChainAssumption DEF Types, Compiled, Supported, Blockchain, Chain

(* With TESTING_MODE off a process serves in exactly the environments that *)
(* docs/OVERVIEW.md (466-468) describes, for every combination of what is  *)
(* set, empty, half set or left out; with TESTING_MODE on it starts where  *)
(* no credentials are given (config.rs:349-409).                           *)
THEOREM ServesAsDocumented == Spec => []StartsAsDocumented
<1>1. Inv => StartsAsDocumented
  <2> SUFFICES ASSUME Inv PROVE StartsAsDocumented
    OBVIOUS
  <2>1. Compiled <=> Supported
    BY CompiledIsSupported DEF Inv
  <2>2. stage = "serving" => /\ DocumentedCredentials /\ Compiled
                             /\ "testing" \in mode \/ "aws" \in mode
    BY <2>1, Decision DEF Inv, BuiltInv
  <2>3. stage = "exited" => \/ ~DocumentedCredentials \/ ~Compiled
                            \/ "testing" \notin mode /\ "aws" \notin mode
    BY <2>1, Decision DEF Inv, BuiltInv
  <2>4. (\A x \in Variable : ~NonEmpty(x)) => DocumentedCredentials
    BY Names DEF DocumentedCredentials, Variable, NonEmpty
  <2> QED BY <2>2, <2>3, <2>4 DEF StartsAsDocumented
<1> QED BY <1>1, Invariant, PTL

=============================================================================
