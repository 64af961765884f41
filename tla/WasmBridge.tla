------------------------------ MODULE WasmBridge ------------------------------
(***************************************************************************)
(* The calls of CryptoService into the one WASM instance of its process.   *)
(* A string goes in through memory that the host gets from the module's    *)
(* alloc, a string comes out in a block of the module's own, and the host  *)
(* gives both back with free.  The calls are synchronous and made under    *)
(* the mutex of the process, so they never overlap; what matters is what a *)
(* long sequence of them leaves in a memory that nothing ever resets.      *)
(*                                                                         *)
(* The module is external: its functions return a string, a string that    *)
(* describes an error, a null pointer, or trap.  Lengths are left out: the *)
(* one place where the code is not exact about them, the terminating byte  *)
(* of a returned string, is within the slack of the module's allocator.    *)
(***************************************************************************)
EXTENDS Naturals, Sequences, FiniteSets

CONSTANTS
  Block,     \* the allocations that fit below 2^31, where pointers are positive
  String,    \* the strings a caller may pass
  NoBlock    \* a null pointer

(* There is room for more than the three inputs of one call.               *)
ASSUME MemoryAssumption ==
  /\ NoBlock \notin Block /\ String # {}
  /\ \A b1, b2, b3 \in Block \cup {NoBlock} : Block \ {b1, b2, b3} # {}

VARIABLES
  memory,   \* memory[b]: what a block holds, Garbage when it is not allocated
  fn, arg,  \* the function called last and what it was given
  at,       \* the stage the call is at; 0: no call
  input,    \* pointers to the input strings
  output,   \* the pointer the module returned
  text,     \* result_str, or the number that verify returns
  answer,   \* what the last call returned: a text or KmsError
  before,   \* history: the blocks in use when the call began
  failed    \* history: some call has returned an error

locals == <<input, output, text>>
vars   == <<memory, fn, arg, at, input, output, text, answer, before, failed>>

(* Defect: the input string is not given back. *)
InvokeKeepsInput == <<"alloc", "invoke", "notNull", "read", "freeOutput">>

(* Defect: the result is given back before it is copied. *)
FreesBeforeReading == <<"alloc", "alloc", "invoke", "freeInput", "freeInput",
                        "notNull", "freeOutput", "read">>

(* Defect: one of the three input strings is not given back. *)
RecoverKeepsInput == <<"alloc", "alloc", "alloc", "invoke", "freeInput", "freeInput",
                       "notNull", "read", "freeOutput">>

(* The stages of each function.  public_key, address_eth, convert and      *)
(* unconvert are invoke_wasm_str_func; the others have code of their own,  *)
(* which gives its inputs back before it looks at the result.              *)
InvokeWasmStrFunc == <<"alloc", "invoke", "notNull", "read", "freeOutput", "freeInput">>

AddressCosmos     == <<"alloc", "alloc", "invoke", "freeInput", "freeInput",
                       "notNull", "read", "freeOutput">>

RecoverV          == <<"alloc", "alloc", "alloc", "invoke",
                       "freeInput", "freeInput", "freeInput",
                       "notNull", "read", "freeOutput">>

Verify            == <<"alloc", "alloc", "alloc", "invoke",
                       "freeInput", "freeInput", "freeInput">>

VerifyEip155      == Verify

Stages == [invoke_wasm_str_func |-> InvokeWasmStrFunc, address_cosmos |-> AddressCosmos,
           recover_v |-> RecoverV, verify |-> Verify, verify_eip155 |-> VerifyEip155]

Function == DOMAIN Stages
ReturnsString(f) == f \notin {"verify", "verify_eip155"}

(* What a block holds: nothing that is allocated, an input, the result for *)
(* a string, the description of an error.                                  *)
Garbage      == <<"garbage">>
ErrorText    == <<"error">>
InputOf(s)   == <<"input", s>>
ResultFor(s) == <<"result", s>>
Content == {Garbage, ErrorText} \cup { InputOf(s) : s \in String }
                                \cup { ResultFor(s) : s \in String }

(* What a call returns when it fails.                                      *)
KmsError == <<"KmsError">>

Free == { b \in Block : memory[b] = Garbage }
Used == Block \ Free

At(stage) == at # 0 /\ Stages[fn][at] = stage

Init ==
  /\ memory = [b \in Block |-> Garbage]
  /\ fn = "verify" /\ arg \in String /\ at = 0
  /\ input = <<>> /\ output = NoBlock /\ text = Garbage
  /\ answer = KmsError /\ before = {} /\ failed = FALSE

(* On to the next stage; after the last one the call returns its text.     *)
Proceed(result) ==
  /\ IF at = Len(Stages[fn]) THEN at' = 0      /\ answer' = result
                              ELSE at' = at + 1 /\ answer' = answer
  /\ UNCHANGED <<fn, arg, before, failed>>

(* Every `?` and return Err: the pointers the call still held are lost.    *)
Err ==
  /\ at' = 0 /\ answer' = KmsError /\ failed' = TRUE
  /\ UNCHANGED <<fn, arg, before>>

(* Defect: the pointers of a call that failed are still there in the next. *)
BeginKeepsInput ==
  /\ at = 0
  /\ fn' \in Function /\ arg' \in String
  /\ at' = 1
  /\ input' = input /\ output' = NoBlock /\ text' = Garbage
  /\ before' = Used
  /\ UNCHANGED <<memory, answer, failed>>

Begin ==
  /\ at = 0
  /\ fn' \in Function /\ arg' \in String
  /\ at' = 1
  /\ input' = <<>> /\ output' = NoBlock /\ text' = Garbage
  /\ before' = Used
  /\ UNCHANGED <<memory, answer, failed>>

(* alloc, and the string is copied into the new block.                     *)
Alloc ==
  /\ At("alloc")
  /\ \E b \in Free : /\ memory' = [memory EXCEPT ![b] = InputOf(arg)]
                     /\ input' = Append(input, b)
  /\ Proceed(text)
  /\ UNCHANGED <<output, text>>

(* No room below 2^31: the pointer that alloc returns is negative.         *)
AllocFails ==
  /\ At("alloc") /\ Free = {}
  /\ Err
  /\ UNCHANGED <<memory, locals>>

(* The module leaves a string in a block of its own: the result, or the    *)
(* description of an error.                                                *)
ModuleReturnsString ==
  /\ At("invoke") /\ ReturnsString(fn)
  /\ \E b \in Free, c \in {ResultFor(memory[input[1]][2]), ErrorText} :
       /\ memory' = [memory EXCEPT ![b] = c]
       /\ output' = b
  /\ Proceed(text)
  /\ UNCHANGED <<input, text>>

ModuleReturnsNull ==
  /\ At("invoke") /\ ReturnsString(fn)
  /\ Proceed(text)
  /\ UNCHANGED <<memory, locals>>

(* verify and verify_eip155 return a number.                               *)
ModuleReturnsNumber ==
  /\ At("invoke") /\ ~ReturnsString(fn)
  /\ text' = ResultFor(memory[input[1]][2])
  /\ Proceed(text')
  /\ UNCHANGED <<memory, input, output>>

(* A trap; what the module had allocated for itself stays allocated.       *)
ModuleTraps ==
  /\ At("invoke")
  /\ \E left \in SUBSET Free :
       /\ Cardinality(left) <= 1
       /\ memory' = [b \in Block |-> IF b \in left THEN ErrorText ELSE memory[b]]
  /\ Err
  /\ UNCHANGED locals

(* The host gives up when it got no pointer.                               *)
CheckNotNull ==
  /\ At("notNull")
  /\ IF output = NoBlock THEN Err ELSE Proceed(text)
  /\ UNCHANGED <<memory, locals>>

(* The string is read up to its terminator; it may not be UTF-8.           *)
Read ==
  /\ At("read")
  /\ \/ text' = memory[output] /\ Proceed(text')
     \/ text' = text /\ Err
  /\ UNCHANGED <<memory, input, output>>

FreeOutput ==
  /\ At("freeOutput")
  /\ memory' = [memory EXCEPT ![output] = Garbage]
  /\ Proceed(text)
  /\ UNCHANGED locals

FreeInput ==
  /\ At("freeInput")
  /\ memory' = [memory EXCEPT ![Head(input)] = Garbage]
  /\ input' = Tail(input)
  /\ Proceed(text)
  /\ UNCHANGED <<output, text>>

Next ==
  \/ Begin \/ Alloc \/ AllocFails
  \/ ModuleReturnsString \/ ModuleReturnsNull \/ ModuleReturnsNumber \/ ModuleTraps
  \/ CheckNotNull \/ Read \/ FreeOutput \/ FreeInput

Spec == Init /\ [][Next]_vars

-----------------------------------------------------------------------------
(* Types; pointers are to blocks.                                          *)
TypeOK ==
  /\ memory \in [Block -> Content]
  /\ fn \in Function /\ arg \in String
  /\ at = 0 \/ at \in DOMAIN Stages[fn]
  /\ input \in Seq(Block) /\ Len(input) <= 3
  /\ output \in Block \cup {NoBlock}
  /\ text \in Content /\ answer \in Content \cup {KmsError}
  /\ before \subseteq Block /\ failed \in BOOLEAN

(* A call that returns no error leaves in use exactly the blocks that were *)
(* in use before it (crypto_service.rs, the free calls of each function):  *)
(* nothing of its own is left, and nothing of another call is taken.       *)
MemoryReturned == (at = 0 /\ answer # KmsError) => Used = before

(* Whatever is answered comes from the string passed in this call, never   *)
(* from memory that was given back or left by another call                 *)
(* (crypto_service.rs:58-70: the result is copied before it is freed).     *)
AnswersItsArgument ==
  (at = 0 /\ answer # KmsError) => answer \in {ResultFor(arg), ErrorText}

(* However many calls are made, the memory is exhausted only if one of     *)
(* them has failed (the instance lives as long as the process).            *)
ExhaustionNeedsError ==
  ((At("alloc") \/ (At("invoke") /\ ReturnsString(fn))) /\ Free = {}) => failed

=============================================================================
