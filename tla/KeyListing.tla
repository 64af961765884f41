----------------------------- MODULE KeyListing -----------------------------
(***************************************************************************)
(* GET /listKeys: a walk over the aliases of the KMS account, page by      *)
(* page, with two more calls for every alias (aws_kms_client_service.rs,   *)
(* list_keys).  The walk is not a snapshot: the mutex of its process holds *)
(* back that process only, and meanwhile other processes create and delete *)
(* keys.  What they can do is KmsAccount, which KeyLifecycle implements.   *)
(***************************************************************************)
EXTENDS KmsAccount, Naturals, FiniteSets

CONSTANT
  Foreign    \* other aliases of the account: of AWS, of symmetric keys

ASSUME KeyAssumption == NoKey \notin Key /\ Foreign \cap Key = {} /\ NoKey \notin Foreign

ASSUME FinitenessAssumption == IsFiniteSet(Key) /\ IsFiniteSet(Foreign)

VARIABLES
  step,      \* "idle", "page", "describe" or "publicKey"
  unread,    \* aliases that no page has covered yet
  page,      \* aliases of the page read last, still to be looked at
  current,   \* the alias being looked at
  listed,    \* the keys found so far
  answer,    \* the last answer: its status and the keys it lists
  steady,    \* history: keys named ever since the walk began
  seen,      \* history: keys named at some time since the walk began
  calm       \* history: since it began no alias or key was lost, no call failed

walk    == <<step, unread, page, current, listed, answer>>
history == <<steady, seen, calm>>
vars    == <<custody, leftover, step, unread, page, current, listed, answer,
             steady, seen, calm>>

Say(status, K) == [status |-> status, keys |-> K]

Init ==
  /\ AccountInit
  /\ step = "idle"
  /\ unread = {} /\ page = {} /\ current = NoKey /\ listed = {}
  /\ answer = Say("none", {})
  /\ steady = {} /\ seen = {} /\ calm = TRUE

(* A step of another process.                                              *)
OtherProcess ==
  /\ AccountNext
  /\ steady' = steady \cap Named'
  /\ seen' = seen \cup Named'
  /\ calm' = (calm /\ Named \subseteq Named' /\ Aliased \subseteq Aliased')
  /\ UNCHANGED walk

-----------------------------------------------------------------------------
(* The mutex is acquired, and the paginator set up.                        *)
Start ==
  /\ step = "idle"
  /\ step' = "page"
  /\ unread' = Key \cup Foreign
  /\ answer' = Say("none", {})
  /\ steady' = Named /\ seen' = Named /\ calm' = TRUE
  /\ UNCHANGED <<account, page, current, listed>>

Return(status, K) ==
  /\ step' = "idle"
  /\ answer' = Say(status, K)
  /\ unread' = {} /\ page' = {} /\ current' = NoKey /\ listed' = {}
  /\ UNCHANGED <<account, steady, seen>>

Fail == Return("failed", {}) /\ UNCHANGED calm

(* Defect: only the first page is read.                                    *)
ReadFirstPage ==
  /\ step = "page" /\ page = {}
  /\ \E C \in (SUBSET unread) \ {{}} : page' = C \cap (Aliased \cup Foreign)
  /\ unread' = {}
  /\ UNCHANGED <<account, history, step, current, listed, answer>>

(* Defect: the marker of the next page is not handed back to KMS.          *)
ReadPageAgain ==
  /\ step = "page" /\ page = {}
  /\ \E C \in (SUBSET unread) \ {{}} : page' = C \cap (Aliased \cup Foreign)
  /\ UNCHANGED <<account, history, step, unread, current, listed, answer>>

(* ListAliases, up to the marker of the next page: which aliases a page    *)
(* covers is up to KMS.                                                    *)
ReadPage ==
  /\ step = "page" /\ page = {}
  /\ \E C \in (SUBSET unread) \ {{}} :
       /\ page' = C \cap (Aliased \cup Foreign)
       /\ unread' = unread \ C
  /\ UNCHANGED <<account, history, step, current, listed, answer>>

(* Aliases of AWS are skipped without a call, symmetric keys after one.    *)
SkipForeign ==
  /\ step = "page"
  /\ \E k \in page \cap Foreign : page' = page \ {k}
  /\ UNCHANGED <<account, history, step, unread, current, listed, answer>>

(* Defect: aliases of other keys are not skipped.                          *)
TakeAnyAlias ==
  /\ step = "page"
  /\ \E k \in page : page' = page \ {k} /\ current' = k
  /\ step' = "describe"
  /\ UNCHANGED <<account, history, unread, listed, answer>>

TakeAlias ==
  /\ step = "page"
  /\ \E k \in page \cap Key : page' = page \ {k} /\ current' = k
  /\ step' = "describe"
  /\ UNCHANGED <<account, history, unread, listed, answer>>

(* Defect: a key pending deletion, whose alias is there, fails the walk.   *)
DescribeOrFail ==
  /\ step = "describe"
  /\ \/ /\ current \in Named
        /\ step' = "publicKey"
        /\ UNCHANGED <<account, history, unread, page, current, listed, answer>>
     \/ current \notin Named /\ Fail

(* Defect: the key is listed without a look at its state.                  *)
ListUnchecked ==
  /\ step = "describe"
  /\ \/ /\ current \in Aliased
        /\ step' = "page"
        /\ listed' = listed \cup {current}
        /\ current' = NoKey
        /\ UNCHANGED <<account, history, unread, page, answer>>
     \/ current \notin Aliased /\ Fail

(* DescribeKey by the alias: a key that is not enabled is left out; if the *)
(* alias is gone by now, the whole walk fails.                             *)
DescribeKey ==
  /\ step = "describe"
  /\ \/ /\ current \in Named
        /\ step' = "publicKey"
        /\ UNCHANGED <<account, history, unread, page, current, listed, answer>>
     \/ /\ current \in leftover
        /\ step' = "page"
        /\ current' = NoKey
        /\ UNCHANGED <<account, history, unread, page, listed, answer>>
     \/ current \notin Aliased /\ Fail

(* GetPublicKey by the key id that the page gave, whatever became of the   *)
(* alias; a key pending deletion has no public key to give.                *)
GetPublicKey ==
  /\ step = "publicKey"
  /\ \/ /\ custody[current] \in {"named", "unnamed"}
        /\ step' = "page"
        /\ listed' = listed \cup {current}
        /\ current' = NoKey
        /\ UNCHANGED <<account, history, unread, page, answer>>
     \/ custody[current] = "retired" /\ Fail

(* A call fails, for a reason of its own.                                  *)
CallFails ==
  /\ step # "idle"
  /\ Return("failed", {})
  /\ calm' = FALSE

(* The client goes away, or the process stops.                             *)
Abandon ==
  /\ step # "idle"
  /\ Return("none", {})
  /\ UNCHANGED calm

(* An empty list is answered with 404.                                     *)
Finish ==
  /\ step = "page" /\ page = {} /\ unread = {}
  /\ Return(IF listed = {} THEN "not_found" ELSE "ok", listed)
  /\ UNCHANGED calm

Walk ==
  ReadPage \/ SkipForeign \/ TakeAlias \/ DescribeKey \/ GetPublicKey \/ Finish

Next == OtherProcess \/ Start \/ Walk \/ CallFails \/ Abandon

Spec == Init /\ [][Next]_vars

(* KMS answers every call, and the client waits.                           *)
FairSpec == Spec /\ WF_vars(Walk)

-----------------------------------------------------------------------------
(* Properties                                                              *)

TypeOK ==
  /\ custody \in [Key -> Keys!Custody]
  /\ leftover \subseteq { k \in Key : custody[k] = "retired" }
  /\ step \in {"idle", "page", "describe", "publicKey"}
  /\ unread \subseteq Key \cup Foreign /\ page \subseteq Key \cup Foreign
  /\ current \in Key \cup {NoKey}
  /\ listed \subseteq Key
  /\ answer.status \in {"none", "ok", "not_found", "failed"} /\ answer.keys \subseteq Key
  /\ steady \subseteq seen /\ seen \subseteq Key /\ calm \in BOOLEAN

Answered == answer.status \in {"ok", "not_found"}

(* A key that had its alias during the whole walk is in the list, whatever *)
(* was created and deleted around it; 404 means there was no such key.     *)
ListingComplete == Answered => steady \subseteq answer.keys

(* A listed key had its alias, and was enabled, at some time of the walk.  *)
ListingSound == Answered => answer.keys \subseteq seen

(* A walk fails only if a call did, or if meanwhile a key lost its alias   *)
(* or was retired: a deletion through another process fails a listing, an  *)
(* alias left behind by an earlier one does not.                           *)
FailsOnlyOnDeletion == answer.status = "failed" => ~calm

(* What a walk has yet to do, at most: pages to read, aliases to look at,  *)
(* calls to make for the alias in hand.                                    *)
Work ==
  4 * Cardinality(unread) + 3 * Cardinality(page)
    + CASE step = "describe" -> 2 [] step = "publicKey" -> 1 [] OTHER -> 0

(* Every reply brings the walk nearer to its end, and nothing that other   *)
(* processes do takes it further away: a page is not read again, an alias  *)
(* not looked at twice.  So the mutex is held for a bounded number of      *)
(* calls, however many keys come and go meanwhile.                         *)
WorkRunsOut ==
  [][/\ step # "idle" /\ step' # "idle" => Work' < Work
     /\ step = "idle" /\ step' # "idle" =>
          Work' <= 4 * Cardinality(Key \cup Foreign)]_walk

(* Every listing ends, however many keys come and go meanwhile.            *)
Terminates == (step # "idle") ~> (step = "idle")

=============================================================================
