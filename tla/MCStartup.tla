------------------------------ MODULE MCStartup ------------------------------
(* Instances of Startup for TLC.                                           *)
EXTENDS Startup

(* The environment with pairs[c] for the client c, and shadow for the SDK. *)
P(id, secret) == [id |-> id, secret |-> secret]

Env(pairs, shadow) ==
  [x \in Variable |->
     CASE x = "AWS_ACCESS_KEY_ID"     -> shadow.id
       [] x = "AWS_SECRET_ACCESS_KEY" -> shadow.secret
       [] OTHER -> LET c == CHOOSE c \in Client : x \in {IdOf[c], KeyOf[c]}
                   IN  IF x = IdOf[c] THEN pairs[c].id ELSE pairs[c].secret]

(* Nothing, a pair, half a pair, an empty pair; in .env a pair or nothing. *)
ProcessPair == { P("unset", "unset"), P("process", "process"), P("unset", "process"), P("empty", "empty") }
FilePair    == { P("unset", "unset"), P("file", "file") }

MCProcessEnv ==
  { Env(pairs, shadow) : pairs \in [Client -> ProcessPair],
      shadow \in { P("unset", "unset"), P("process", "process"), P("empty", "unset") } }
MCFileEnv ==
  { Env(pairs, shadow) : pairs \in [Client -> FilePair],
      shadow \in { P("unset", "unset"), P("file", "unset") } }

(* The default build and another one, asked for its own chain or another's.*)
MCBuild    == { {"casper"}, {"ethereum"} }
MCModeName == { "ethereum", "other" }
=============================================================================
