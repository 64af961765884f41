--------------------------- MODULE KeyListing_proofs ---------------------------
(***************************************************************************)
(* Proofs about KeyListing, for any number of keys and aliases, pages of   *)
(* any size, and any creations and deletions around a walk.  The invariant *)
(* says where a walk may still find the keys it has to find, and, as long  *)
(* as no alias and no key is lost, that what it holds has an alias.        *)
(***************************************************************************)
EXTENDS KeyListing, FiniteSetTheorems, TLAPS

Custodies == {"unmade", "unnamed", "named", "retired"}

Types ==
  /\ custody \in [Key -> Custodies]
  /\ leftover \subseteq { k \in Key : custody[k] = "retired" }
  /\ step \in {"idle", "page", "describe", "publicKey"}
  /\ unread \subseteq Key \cup Foreign /\ page \subseteq Key \cup Foreign
  /\ current \in Key \cup {NoKey}
  /\ listed \subseteq Key
  /\ answer.status \in {"none", "ok", "not_found", "failed"} /\ answer.keys \subseteq Key
  /\ steady \subseteq seen /\ seen \subseteq Key /\ calm \in BOOLEAN

(* A walk that is under way has said nothing yet, and looks at a key.      *)
StepInv ==
  /\ step # "idle" => answer.status = "none"
  /\ step \in {"describe", "publicKey"} => current \in Key
  /\ step = "page" => current = NoKey
  /\ step = "idle" => page = {} /\ listed = {} /\ current = NoKey

(* What it still has to find, and what it has found.                       *)
FindsInv ==
  step # "idle" =>
    /\ steady \subseteq Named /\ Named \subseteq seen /\ listed \subseteq seen
    /\ \A k \in steady : k \in listed \/ k \in page \/ k \in unread \/ k = current
    /\ step = "publicKey" => current \in seen

(* What it holds is there to be described, unless something was lost.      *)
CalmInv ==
  (step # "idle" /\ calm) =>
    /\ page \cap Key \subseteq Aliased
    /\ step = "describe" => current \in Aliased
    /\ step = "publicKey" => current \in Named

AnswerInv == ListingComplete /\ ListingSound /\ FailsOnlyOnDeletion

Inv == Types /\ StepInv /\ FindsInv /\ CalmInv /\ AnswerInv

-----------------------------------------------------------------------------
(* The other processes.                                                    *)

(* A key is made, named, unnamed or retired, or an alias left behind goes. *)
LEMMA OthersMove ==
  ASSUME Types, OtherProcess
  PROVE  /\ custody' \in [Key -> Custodies]
         /\ leftover' \subseteq { k \in Key : custody'[k] = "retired" }
         /\ UNCHANGED walk
         /\ steady' = steady \cap Named' /\ seen' = seen \cup Named'
         /\ calm' = (calm /\ Named \subseteq Named' /\ Aliased \subseteq Aliased')
<1>1. CASE KeyMoves
  <2>1. PICK k \in Key : \E to \in {"unnamed", "named", "retired"} :
          /\ custody[k] # "retired" /\ custody' = [custody EXCEPT ![k] = to]
    BY <1>1 DEF KeyMoves, Keys!Mint, Keys!Name, Keys!Unname, Keys!Retire, Keys!Move
  <2>2. custody' \in [Key -> Custodies]
    BY <2>1 DEF Types, Custodies
  <2>3. \A j \in Key : custody[j] = "retired" => custody'[j] = "retired"
    BY <2>1 DEF Types
  <2>4. leftover' \subseteq { j \in Key : custody'[j] = "retired" }
    BY <1>1, <2>3 DEF KeyMoves, Types, Named
  <2> QED BY <2>2, <2>4 DEF OtherProcess, Named
<1>2. CASE LeftoverGoes
  BY <1>2 DEF OtherProcess, LeftoverGoes, Types, Named
<1> QED BY <1>1, <1>2 DEF OtherProcess, AccountNext

LEMMA OtherInv == Inv /\ OtherProcess => Inv'
<1> SUFFICES ASSUME Inv, OtherProcess PROVE Inv'
  OBVIOUS
<1>1. /\ custody' \in [Key -> Custodies]
      /\ leftover' \subseteq { k \in Key : custody'[k] = "retired" }
      /\ UNCHANGED <<step, unread, page, current, listed, answer>>
      /\ steady' = steady \cap Named' /\ seen' = seen \cup Named'
      /\ calm' = (calm /\ Named \subseteq Named' /\ Aliased \subseteq Aliased')
  BY OthersMove DEF Inv, walk
<1>2. Named' \subseteq Key
  BY DEF Named
<1>3. Types'
  BY <1>1, <1>2 DEF Inv, Types
<1>4. StepInv' /\ FindsInv'
  BY <1>1 DEF Inv, StepInv, FindsInv
<1>5. CalmInv'
  BY <1>1 DEF Inv, Types, CalmInv
<1>6. AnswerInv'
  BY <1>1 DEF Inv, Types, AnswerInv, ListingComplete, ListingSound, FailsOnlyOnDeletion, Answered
<1> QED BY <1>3, <1>4, <1>5, <1>6 DEF Inv

-----------------------------------------------------------------------------
(* The walk.                                                               *)

LEMMA StartInv == Inv /\ Start => Inv'
<1> SUFFICES ASSUME Inv, Start PROVE Inv'
  OBVIOUS
<1>1. /\ step' = "page" /\ unread' = Key \cup Foreign /\ answer' = Say("none", {})
      /\ steady' = Named /\ seen' = Named /\ calm' = TRUE
      /\ UNCHANGED <<custody, leftover, page, current, listed>>
  BY DEF Start, account
<1>2. Named \subseteq Key /\ Say("none", {}).status = "none" /\ Say("none", {}).keys = {}
  BY DEF Named, Say
<1>3. page' = {} /\ listed' = {} /\ current' = NoKey /\ Named' = Named
  BY <1>1 DEF Start, Inv, StepInv, Named
<1>4. Types'
  BY <1>1, <1>2, <1>3 DEF Inv, Types
<1>5. StepInv' /\ FindsInv' /\ CalmInv'
  BY <1>1, <1>2, <1>3 DEF StepInv, FindsInv, CalmInv
<1>6. AnswerInv'
  BY <1>1, <1>2 DEF AnswerInv, ListingComplete, ListingSound, FailsOnlyOnDeletion, Answered
<1> QED BY <1>4, <1>5, <1>6 DEF Inv

(* A walk ends: the answer has to be right, nothing else matters.          *)
LEMMA ReturnInv ==
  ASSUME Inv, NEW status \in {"none", "ok", "not_found", "failed"}, NEW K \in SUBSET Key,
         Return(status, K), calm' \in BOOLEAN,
         status \in {"ok", "not_found"} => steady \subseteq K /\ K \subseteq seen,
         status = "failed" => ~calm'
  PROVE  Inv'
<1>1. /\ step' = "idle" /\ answer' = Say(status, K)
      /\ unread' = {} /\ page' = {} /\ current' = NoKey /\ listed' = {}
      /\ UNCHANGED <<custody, leftover, steady, seen>>
  BY DEF Return, account
<1>2. Say(status, K).status = status /\ Say(status, K).keys = K
  BY DEF Say
<1>3. Types'
  BY <1>1, <1>2 DEF Inv, Types
<1>4. StepInv' /\ FindsInv' /\ CalmInv'
  BY <1>1 DEF StepInv, FindsInv, CalmInv
<1>5. AnswerInv'
  BY <1>1, <1>2 DEF AnswerInv, ListingComplete, ListingSound, FailsOnlyOnDeletion, Answered
<1> QED BY <1>3, <1>4, <1>5 DEF Inv

LEMMA FailInv ==
  ASSUME Inv, Fail, ~calm
  PROVE  Inv'
  BY ReturnInv DEF Fail, Inv, Types

(* A step of the walk in which the answer stays as it is.                  *)
LEMMA WalksOn ==
  ASSUME Inv, step # "idle", step' # "idle",
         UNCHANGED <<account, history, answer>>, Types', StepInv',
         \A k \in steady : k \in listed' \/ k \in page' \/ k \in unread' \/ k = current',
         listed' \subseteq seen, step' = "publicKey" => current' \in seen,
         calm => /\ page' \cap Key \subseteq Aliased
                 /\ step' = "describe" => current' \in Aliased
                 /\ step' = "publicKey" => current' \in Named
  PROVE  Inv'
<1>1. Named' = Named /\ Aliased' = Aliased /\ UNCHANGED <<steady, seen, calm, answer>>
  BY DEF Named, Aliased, account, history
<1>2. FindsInv'
  BY <1>1 DEF Inv, FindsInv
<1>3. CalmInv'
  BY <1>1 DEF CalmInv
<1>4. AnswerInv'
  BY <1>1 DEF Inv, AnswerInv, ListingComplete, ListingSound, FailsOnlyOnDeletion, Answered
<1> QED BY <1>2, <1>3, <1>4 DEF Inv

LEMMA PageInv == Inv /\ (ReadPage \/ SkipForeign \/ TakeAlias) => Inv'
<1> SUFFICES ASSUME Inv, ReadPage \/ SkipForeign \/ TakeAlias PROVE Inv'
  OBVIOUS
<1>1. step = "page" /\ step' # "idle" /\ UNCHANGED <<account, history, listed, answer>>
  BY DEF ReadPage, SkipForeign, TakeAlias
<1>2. /\ UNCHANGED <<custody, leftover, steady, seen, calm, listed, answer>>
      /\ Named \subseteq Key /\ Foreign \cap Key = {} /\ current = NoKey
      /\ answer.status = "none"
  BY <1>1, KeyAssumption DEF account, history, Named, Inv, StepInv
<1>3. /\ steady \subseteq Named /\ listed \subseteq seen
      /\ \A k \in steady : k \in listed \/ k \in page \/ k \in unread
  BY <1>1, <1>2, KeyAssumption DEF Inv, FindsInv
<1>4. calm => page \cap Key \subseteq Aliased
  BY <1>1 DEF Inv, CalmInv
<1>5. CASE ReadPage
  <2>1. PICK C \in SUBSET unread : page' = C \cap (Aliased \cup Foreign) /\ unread' = unread \ C
    BY <1>5 DEF ReadPage
  <2>2. page = {} /\ UNCHANGED <<step, current>>
    BY <1>5 DEF ReadPage
  <2>3. Types' /\ StepInv'
    BY <1>1, <1>2, <2>1, <2>2 DEF Inv, Types, StepInv
  <2>4. page' \cap Key \subseteq Aliased
    BY <1>2, <2>1
  <2>5. \A k \in steady : k \in listed' \/ k \in page' \/ k \in unread'
    BY <1>2, <1>3, <2>1, <2>2 DEF Aliased
  <2> QED BY <1>1, <1>2, <1>3, <2>2, <2>3, <2>4, <2>5, WalksOn
<1>6. CASE SkipForeign
  <2>1. PICK k \in page \cap Foreign : page' = page \ {k}
    BY <1>6 DEF SkipForeign
  <2>2. UNCHANGED <<step, unread, current>>
    BY <1>6 DEF SkipForeign
  <2>3. Types' /\ StepInv'
    BY <1>1, <1>2, <2>1, <2>2 DEF Inv, Types, StepInv
  <2>4. calm => page' \cap Key \subseteq Aliased
    BY <1>4, <2>1
  <2>5. \A j \in steady : j \in listed' \/ j \in page' \/ j \in unread'
    BY <1>2, <1>3, <2>1, <2>2
  <2> QED BY <1>1, <1>2, <1>3, <2>2, <2>3, <2>4, <2>5, WalksOn
<1>7. CASE TakeAlias
  <2>1. PICK k \in page \cap Key : page' = page \ {k} /\ current' = k
    BY <1>7 DEF TakeAlias
  <2>2. step' = "describe" /\ UNCHANGED unread
    BY <1>7 DEF TakeAlias
  <2>3. Types' /\ StepInv'
    BY <1>1, <1>2, <2>1, <2>2 DEF Inv, Types, StepInv
  <2>4. calm => page' \cap Key \subseteq Aliased /\ current' \in Aliased
    BY <1>4, <2>1
  <2>5. \A j \in steady : j \in listed' \/ j \in page' \/ j \in unread' \/ j = current'
    BY <1>2, <1>3, <2>1, <2>2
  <2> QED BY <1>1, <1>2, <1>3, <2>2, <2>3, <2>4, <2>5, WalksOn
<1> QED BY <1>5, <1>6, <1>7

LEMMA DescribeInv == Inv /\ DescribeKey => Inv'
<1> SUFFICES ASSUME Inv, DescribeKey PROVE Inv'
  OBVIOUS
<1>1. step = "describe" /\ current \in Key
  BY DEF DescribeKey, Inv, StepInv
<1>2. /\ steady \subseteq Named /\ Named \subseteq seen /\ listed \subseteq seen
      /\ \A k \in steady : k \in listed \/ k \in page \/ k \in unread \/ k = current
      /\ answer.status = "none"
  BY <1>1 DEF Inv, FindsInv, StepInv
<1>3. calm => page \cap Key \subseteq Aliased /\ current \in Aliased
  BY <1>1 DEF Inv, CalmInv
<1>4. CASE current \notin Aliased /\ Fail
  BY <1>3, <1>4, FailInv
<1>5. CASE /\ current \in Named
           /\ step' = "publicKey"
           /\ UNCHANGED <<account, history, unread, page, current, listed, answer>>
  <2>1. Types' /\ StepInv'
    BY <1>1, <1>2, <1>5 DEF Inv, Types, StepInv, account, history
  <2> QED BY <1>1, <1>2, <1>3, <1>5, <2>1, WalksOn
<1>6. CASE /\ current \in leftover
           /\ step' = "page"
           /\ current' = NoKey
           /\ UNCHANGED <<account, history, unread, page, listed, answer>>
  <2>1. current \notin steady
    BY <1>2, <1>6 DEF Inv, Types, Named
  <2>2. Types' /\ StepInv'
    BY <1>1, <1>2, <1>6 DEF Inv, Types, StepInv, account, history
  <2> QED BY <1>1, <1>2, <1>3, <1>6, <2>1, <2>2, WalksOn
<1> QED BY <1>4, <1>5, <1>6 DEF DescribeKey

LEMMA PublicKeyInv == Inv /\ GetPublicKey => Inv'
<1> SUFFICES ASSUME Inv, GetPublicKey PROVE Inv'
  OBVIOUS
<1>1. step = "publicKey" /\ current \in Key
  BY DEF GetPublicKey, Inv, StepInv
<1>2. /\ listed \subseteq seen /\ current \in seen
      /\ \A k \in steady : k \in listed \/ k \in page \/ k \in unread \/ k = current
      /\ answer.status = "none"
  BY <1>1 DEF Inv, FindsInv, StepInv
<1>3. calm => page \cap Key \subseteq Aliased /\ current \in Named
  BY <1>1 DEF Inv, CalmInv
<1>4. CASE custody[current] = "retired" /\ Fail
  BY <1>3, <1>4, FailInv DEF Named
<1>5. CASE /\ step' = "page"
           /\ listed' = listed \cup {current}
           /\ current' = NoKey
           /\ UNCHANGED <<account, history, unread, page, answer>>
  <2>1. Types' /\ StepInv'
    BY <1>1, <1>2, <1>5 DEF Inv, Types, StepInv, account, history
  <2> QED BY <1>1, <1>2, <1>3, <1>5, <2>1, WalksOn
<1> QED BY <1>4, <1>5 DEF GetPublicKey

LEMMA EndInv == Inv /\ (Finish \/ CallFails \/ Abandon) => Inv'
<1> SUFFICES ASSUME Inv, Finish \/ CallFails \/ Abandon PROVE Inv'
  OBVIOUS
<1>1. listed \subseteq Key /\ calm \in BOOLEAN
  BY DEF Inv, Types
<1>2. CASE Finish
  <2>1. step = "page" /\ page = {} /\ unread = {} /\ calm' = calm
    BY <1>2 DEF Finish
  <2>2. steady \subseteq listed /\ listed \subseteq seen
    BY <2>1, KeyAssumption DEF Inv, Types, StepInv, FindsInv
  <2>3. PICK status \in {"ok", "not_found"} : Return(status, listed)
    BY <1>2 DEF Finish
  <2> QED BY <1>1, <2>1, <2>2, <2>3, ReturnInv
<1>3. CASE CallFails
  BY <1>3, ReturnInv DEF CallFails
<1>4. CASE Abandon
  BY <1>1, <1>4, ReturnInv DEF Abandon
<1> QED BY <1>2, <1>3, <1>4

LEMMA NextInv == Inv /\ [Next]_vars => Inv'
<1>1. Inv /\ UNCHANGED vars => Inv'
  BY DEF vars, Inv, Types, StepInv, FindsInv, CalmInv, AnswerInv, ListingComplete, ListingSound,
     FailsOnlyOnDeletion, Answered, Named, Aliased
<1> QED BY <1>1, OtherInv, StartInv, PageInv, DescribeInv, PublicKeyInv, EndInv DEF Next, Walk

LEMMA InitInv == Init => Inv
<1> SUFFICES ASSUME Init PROVE Inv
  OBVIOUS
<1>1. custody = [k \in Key |-> "unmade"]
  BY DEF Init, AccountInit, Keys!Init
<1>2. Say("none", {}).status = "none" /\ Say("none", {}).keys = {}
  BY DEF Say
<1> QED BY <1>1, <1>2 DEF Init, AccountInit, Inv, Types, Custodies, StepInv, FindsInv, CalmInv, AnswerInv,
        ListingComplete, ListingSound, FailsOnlyOnDeletion, Answered

LEMMA Invariant == Spec => []Inv
  BY InitInv, NextInv, PTL DEF Spec

-----------------------------------------------------------------------------
(* Every variable has its type; an alias that was left behind is that of a *)
(* retired key (list_keys).                                                *)
THEOREM TypeCorrect == Spec => []TypeOK
<1>1. Inv => TypeOK
  BY DEF Inv, Types, Custodies, TypeOK, Keys!Custody
<1> QED BY <1>1, Invariant, PTL

(* However aliases are spread over pages, and whatever is created and      *)
(* deleted around the walk, a listing has every key that was there all the *)
(* time (aws_kms_client_service.rs, list_keys).                            *)
THEOREM NothingIsMissed == Spec => []ListingComplete
<1>1. Inv => ListingComplete
  BY DEF Inv, AnswerInv
<1> QED BY <1>1, Invariant, PTL

(* A listing has no key that was at no time of the walk an enabled key     *)
(* with an alias (aws_kms_client_service.rs, list_keys).                   *)
THEOREM NothingIsInvented == Spec => []ListingSound
<1>1. Inv => ListingSound
  BY DEF Inv, AnswerInv
<1> QED BY <1>1, Invariant, PTL

(* Aliases left behind by earlier deletions do not fail a listing, and     *)
(* neither do creations; only a loss during the walk, or a failed call.    *)
THEOREM FailuresHaveACause == Spec => []FailsOnlyOnDeletion
<1>1. Inv => FailsOnlyOnDeletion
  BY DEF Inv, AnswerInv
<1> QED BY <1>1, Invariant, PTL

-----------------------------------------------------------------------------
(* The work a walk has left.                                               *)

LEMMA FiniteWork ==
  ASSUME NEW S \in SUBSET (Key \cup Foreign)
  PROVE  IsFiniteSet(S) /\ Cardinality(S) \in Nat
<1>1. IsFiniteSet(Key \cup Foreign)
  BY FinitenessAssumption, FS_Union
<1>2. IsFiniteSet(S)
  BY <1>1, FS_Subset
<1> QED BY <1>2, FS_CardinalityType

(* A page takes at least as many aliases off those that are unread as it   *)
(* has, and an alias that is looked at leaves its page.                    *)
LEMMA WalkWorks == Inv /\ Walk /\ step' # "idle" => Work' < Work
<1> SUFFICES ASSUME Inv, Walk, step' # "idle" PROVE Work' < Work
  OBVIOUS
<1>1. /\ unread \subseteq Key \cup Foreign /\ page \subseteq Key \cup Foreign
      /\ Cardinality(unread) \in Nat /\ Cardinality(page) \in Nat
      /\ IsFiniteSet(unread) /\ IsFiniteSet(page)
  BY FiniteWork DEF Inv, Types
<1>2. \A status, K : ~Return(status, K)
  BY DEF Return
<1>3. CASE ReadPage
  <2>1. PICK C \in SUBSET unread :
          C # {} /\ page' = C \cap (Aliased \cup Foreign) /\ unread' = unread \ C
    BY <1>3 DEF ReadPage
  <2>2. /\ IsFiniteSet(C) /\ Cardinality(C) \in Nat /\ Cardinality(C) # 0
        /\ Cardinality(unread') = Cardinality(unread) - Cardinality(C)
    <3>1. C \subseteq Key \cup Foreign /\ unread \cap C = C
      BY <1>1, <2>1
    <3>2. IsFiniteSet(C) /\ Cardinality(C) \in Nat
      BY <3>1, FiniteWork
    <3>3. Cardinality(C) # 0
      BY <2>1, <3>2, FS_EmptySet
    <3>4. Cardinality(unread \ C) = Cardinality(unread) - Cardinality(unread \cap C)
      BY <1>1, FS_Difference
    <3> QED BY <2>1, <3>1, <3>2, <3>3, <3>4
  <2>3. Cardinality(page') \in Nat /\ Cardinality(page') <= Cardinality(C)
    BY <2>1, <2>2, FS_Subset, FS_CardinalityType
  <2>4. Cardinality(unread') \in Nat
    BY <1>1, <2>1, FiniteWork
  <2>5. step = "page" /\ step' = "page"
    BY <1>3 DEF ReadPage
  <2> QED BY <1>1, <2>2, <2>3, <2>4, <2>5 DEF Work
<1>4. CASE SkipForeign \/ TakeAlias
  <2>1. PICK k \in page : page' = page \ {k}
    BY <1>4 DEF SkipForeign, TakeAlias
  <2>2. Cardinality(page') = Cardinality(page) - 1
    BY <1>1, <2>1, FS_RemoveElement
  <2>3. unread' = unread /\ step = "page" /\ step' \in {"page", "describe"}
    BY <1>4 DEF SkipForeign, TakeAlias
  <2> QED BY <1>1, <2>2, <2>3 DEF Work
<1>5. CASE DescribeKey
  <2>1. /\ step = "describe" /\ step' \in {"publicKey", "page"}
        /\ unread' = unread /\ page' = page
    BY <1>2, <1>5 DEF DescribeKey, Fail
  <2> QED BY <1>1, <2>1 DEF Work
<1>6. CASE GetPublicKey
  <2>1. step = "publicKey" /\ step' = "page" /\ unread' = unread /\ page' = page
    BY <1>2, <1>6 DEF GetPublicKey, Fail
  <2> QED BY <1>1, <2>1 DEF Work
<1>7. ~Finish
  BY <1>2 DEF Finish
<1> QED BY <1>3, <1>4, <1>5, <1>6, <1>7 DEF Walk

(* No walk makes more calls than the aliases there can be account for, and *)
(* other processes add none: the safety half of Terminates.                *)
THEOREM WalksRunOut == Spec => WorkRunsOut
<1> DEFINE Shrinks == /\ step # "idle" /\ step' # "idle" => Work' < Work
                      /\ step = "idle" /\ step' # "idle" =>
                           Work' <= 4 * Cardinality(Key \cup Foreign)
<1>1. ASSUME Inv, Next PROVE Shrinks \/ UNCHANGED walk
  <2>1. CASE OtherProcess
    BY <2>1 DEF OtherProcess
  <2>2. CASE Start
    <3>1. /\ step = "idle" /\ step' = "page" /\ unread' = Key \cup Foreign
          /\ page' = {}
      BY <1>1, <2>2 DEF Start, Inv, StepInv
    <3>2. Work' = 4 * Cardinality(Key \cup Foreign)
      BY <3>1, FS_EmptySet, FiniteWork DEF Work
    <3>3. Cardinality(Key \cup Foreign) \in Nat
      BY FiniteWork
    <3> QED BY <3>1, <3>2, <3>3
  <2>3. CASE Walk
    BY <1>1, <2>3, WalkWorks DEF Walk, ReadPage, SkipForeign, TakeAlias, DescribeKey,
       GetPublicKey, Finish
  <2>4. CASE CallFails \/ Abandon
    BY <2>4 DEF CallFails, Abandon, Return
  <2> QED BY <1>1, <2>1, <2>2, <2>3, <2>4 DEF Next
<1>2. Inv /\ [Next]_vars => [Shrinks]_walk
  BY <1>1 DEF vars, walk
<1> QED BY <1>2, Invariant, PTL DEF Spec, WorkRunsOut

=============================================================================
