-------------------------- MODULE WasmBridge_proofs --------------------------
(***************************************************************************)
(* Proofs about WasmBridge, for any blocks and strings, and sequences of   *)
(* calls of any length.  A call is followed by two tables: how many input  *)
(* blocks it holds at each of its stages, and what it has of its result.   *)
(* From them comes an invariant that says, of every block in use, whether  *)
(* it was in use before the call, or is one of its inputs, or its result.  *)
(***************************************************************************)
EXTENDS WasmBridge, TLAPS

Inputs ==
  [invoke_wasm_str_func |-> <<0, 1, 1, 1, 1, 1>>,
   address_cosmos       |-> <<0, 1, 2, 2, 1, 0, 0, 0>>,
   recover_v            |-> <<0, 1, 2, 3, 3, 2, 1, 0, 0, 0>>,
   verify               |-> <<0, 1, 2, 3, 3, 2, 1>>,
   verify_eip155        |-> <<0, 1, 2, 3, 3, 2, 1>>]

Result ==
  [invoke_wasm_str_func |-> <<"none", "none", "unchecked", "block", "copied", "freed">>,
   address_cosmos       |-> <<"none", "none", "none", "unchecked", "unchecked", "unchecked",
                              "block", "copied">>,
   recover_v            |-> <<"none", "none", "none", "none", "unchecked", "unchecked",
                              "unchecked", "unchecked", "block", "copied">>,
   verify               |-> <<"none", "none", "none", "none", "number", "number", "number">>,
   verify_eip155        |-> <<"none", "none", "none", "none", "number", "number", "number">>]

Name == {"invoke_wasm_str_func", "address_cosmos", "recover_v", "verify", "verify_eip155"}

LEMMA FunctionNames == Function = Name
  BY DEF Function, Stages, Name

(* Whether stage i is the last of f.                                       *)
Ends(f, i) == i = Len(Stages[f])

(* How a stage moves along the tables.                                     *)
Course(f, i) ==
  LET n == Inputs[f][i]
      p == Result[f][i]
      stage == Stages[f][i]
  IN  /\ n \in 0..3
      /\ i \in 1..Len(Stages[f])
      /\ ~Ends(f, i) => i + 1 \in DOMAIN Stages[f]
      /\ stage = "alloc" =>
           n <= 2 /\ p = "none" /\ ~Ends(f, i)
           /\ Inputs[f][i + 1] = n + 1 /\ Result[f][i + 1] = "none"
      /\ stage = "invoke" =>
           n >= 1 /\ p = "none" /\ ~Ends(f, i) /\ Inputs[f][i + 1] = n
           /\ Result[f][i + 1] = IF ReturnsString(f) THEN "unchecked" ELSE "number"
      /\ stage = "notNull" =>
           p = "unchecked" /\ ~Ends(f, i)
           /\ Inputs[f][i + 1] = n /\ Result[f][i + 1] = "block"
      /\ stage = "read" =>
           p = "block" /\ ~Ends(f, i)
           /\ Inputs[f][i + 1] = n /\ Result[f][i + 1] = "copied"
      /\ stage = "freeOutput" =>
           /\ p = "copied"
           /\ IF Ends(f, i) THEN n = 0
                            ELSE Inputs[f][i + 1] = n /\ Result[f][i + 1] = "freed"
      /\ stage = "freeInput" =>
           /\ n >= 1 /\ p \in {"unchecked", "freed", "number"}
           /\ IF Ends(f, i) THEN n = 1 /\ p \in {"freed", "number"}
                            ELSE Inputs[f][i + 1] = n - 1 /\ Result[f][i + 1] = p

(* The tables are right about the code of each function.                   *)
LEMMA CourseOfCalls == \A f \in Name : \A i \in DOMAIN Stages[f] : Course(f, i)
<1> SUFFICES ASSUME NEW f \in Name, NEW i \in DOMAIN Stages[f] PROVE Course(f, i)
  OBVIOUS
<1>1. CASE f = "invoke_wasm_str_func"
  <2>1. Stages[f] = InvokeWasmStrFunc /\ Inputs[f] = <<0, 1, 1, 1, 1, 1>>
        /\ Result[f] = <<"none", "none", "unchecked", "block", "copied", "freed">>
        /\ ReturnsString(f)
    BY <1>1 DEF Stages, Inputs, Result, ReturnsString
  <2>2. Len(Stages[f]) = 6 /\ i \in 1..6
    BY <2>1 DEF InvokeWasmStrFunc
  <2> QED BY <2>1, <2>2 DEF Course, Ends, InvokeWasmStrFunc
<1>2. CASE f = "address_cosmos"
  <2>1. Stages[f] = AddressCosmos /\ Inputs[f] = <<0, 1, 2, 2, 1, 0, 0, 0>>
        /\ Result[f] = <<"none", "none", "none", "unchecked", "unchecked", "unchecked",
                         "block", "copied">>
        /\ ReturnsString(f)
    BY <1>2 DEF Stages, Inputs, Result, ReturnsString
  <2>2. Len(Stages[f]) = 8 /\ i \in 1..8
    BY <2>1 DEF AddressCosmos
  <2> QED BY <2>1, <2>2 DEF Course, Ends, AddressCosmos
<1>3. CASE f = "recover_v"
  <2>1. Stages[f] = RecoverV /\ Inputs[f] = <<0, 1, 2, 3, 3, 2, 1, 0, 0, 0>>
        /\ Result[f] = <<"none", "none", "none", "none", "unchecked", "unchecked",
                         "unchecked", "unchecked", "block", "copied">>
        /\ ReturnsString(f)
    BY <1>3 DEF Stages, Inputs, Result, ReturnsString
  <2>2. Len(Stages[f]) = 10 /\ i \in 1..10
    BY <2>1 DEF RecoverV
  <2> QED BY <2>1, <2>2 DEF Course, Ends, RecoverV
<1>4. CASE f \in {"verify", "verify_eip155"}
  <2>1. Stages[f] = Verify /\ Inputs[f] = <<0, 1, 2, 3, 3, 2, 1>>
        /\ Result[f] = <<"none", "none", "none", "none", "number", "number", "number">>
        /\ ~ReturnsString(f)
    BY <1>4 DEF Stages, Inputs, Result, ReturnsString, VerifyEip155
  <2>2. Len(Stages[f]) = 7 /\ i \in 1..7
    BY <2>1 DEF Verify
  <2> QED BY <2>1, <2>2 DEF Course, Ends, Verify
<1> QED BY <1>1, <1>2, <1>3, <1>4 DEF Name

-----------------------------------------------------------------------------
(* Sequences of pointers.                                                  *)

Pointers(s) == { s[i] : i \in DOMAIN s }
Distinct(s) == \A i, j \in DOMAIN s : s[i] = s[j] => i = j

LEMMA AppendPointer ==
  ASSUME NEW s \in Seq(Block), NEW b \in Block, Distinct(s), b \notin Pointers(s)
  PROVE  /\ Append(s, b) \in Seq(Block) /\ Len(Append(s, b)) = Len(s) + 1
         /\ Distinct(Append(s, b)) /\ Pointers(Append(s, b)) = Pointers(s) \cup {b}
  BY DEF Distinct, Pointers

LEMMA TailPointers ==
  ASSUME NEW s \in Seq(Block), Len(s) >= 1, Distinct(s)
  PROVE  /\ Tail(s) \in Seq(Block) /\ Len(Tail(s)) = Len(s) - 1
         /\ Head(s) \in Pointers(s) /\ Head(s) \in Block
         /\ Distinct(Tail(s)) /\ Pointers(Tail(s)) = Pointers(s) \ {Head(s)}
<1>1. Head(s) = s[1] /\ 1 \in DOMAIN s /\ s # <<>>
  OBVIOUS
<1>2. Tail(s) \in Seq(Block) /\ Len(Tail(s)) = Len(s) - 1
      /\ \A i \in 1..Len(s) - 1 : Tail(s)[i] = s[i + 1]
  BY <1>1
<1>3. DOMAIN s = 1..Len(s) /\ DOMAIN Tail(s) = 1..Len(s) - 1
  BY <1>2
<1>4. Distinct(Tail(s))
  BY <1>2, <1>3 DEF Distinct
<1>5. Pointers(Tail(s)) \subseteq Pointers(s) \ {Head(s)}
  BY <1>1, <1>2, <1>3 DEF Distinct, Pointers
<1>6. ASSUME NEW b \in Pointers(s), b # Head(s) PROVE b \in Pointers(Tail(s))
  <2>1. PICK i \in DOMAIN s : b = s[i]
    BY <1>6 DEF Pointers
  <2>2. i - 1 \in 1..Len(s) - 1 /\ Tail(s)[i - 1] = b
    BY <1>1, <1>2, <1>3, <1>6, <2>1
  <2> QED BY <1>3, <2>2 DEF Pointers
<1>7. Head(s) \in Pointers(s) /\ Head(s) \in Block
  BY <1>1, <1>3 DEF Pointers
<1>8. Pointers(s) \ {Head(s)} \subseteq Pointers(Tail(s))
  BY <1>6
<1> QED BY <1>2, <1>4, <1>5, <1>7, <1>8

-----------------------------------------------------------------------------
(* The invariant.                                                          *)

Types ==
  /\ memory \in [Block -> Content]
  /\ fn \in Name /\ arg \in String
  /\ at = 0 \/ at \in DOMAIN Stages[fn]
  /\ input \in Seq(Block) /\ Distinct(input) /\ Len(input) <= 3
  /\ output \in Block \cup {NoBlock}
  /\ text \in Content /\ answer \in Content \cup {KmsError}
  /\ before \subseteq Block /\ failed \in BOOLEAN

(* The block of the result, once the module has returned it.               *)
OwnOutput == Result[fn][at] \in {"unchecked", "block", "copied"} /\ output # NoBlock

Answers == {ResultFor(arg), ErrorText}

(* The blocks in use are those of before, the inputs and the result.       *)
InUse(b) == b \in before \/ b \in Pointers(input) \/ (OwnOutput /\ b = output)

CallInv ==
  at # 0 =>
    /\ Len(input) = Inputs[fn][at]
    /\ \A b \in Pointers(input) : memory[b] = InputOf(arg) /\ b \notin before
    /\ Result[fn][at] = "none" => output = NoBlock
    /\ Result[fn][at] \in {"block", "copied"} => output # NoBlock
    /\ OwnOutput => output \notin before \cup Pointers(input) /\ memory[output] \in Answers
    /\ \A b \in Block : memory[b] # Garbage <=> InUse(b)
    /\ Result[fn][at] \in {"copied", "freed", "number"} => text \in Answers

(* While no call has failed, none has left anything behind.                *)
CleanInv == ~failed => before = {} /\ (at = 0 => Used = {})

Inv == Types /\ CallInv /\ CleanInv /\ MemoryReturned /\ AnswersItsArgument

LEMMA Contents ==
  /\ \A s \in String : InputOf(s) \in Content /\ ResultFor(s) \in Content
                         /\ InputOf(s) # Garbage /\ ResultFor(s) # Garbage
                         /\ InputOf(s)[2] = s
                         /\ ResultFor(s) # KmsError
  /\ ErrorText \in Content /\ ErrorText # Garbage /\ Garbage \in Content
  /\ ErrorText # KmsError /\ Garbage # KmsError
  BY DEF Content, InputOf, ResultFor, ErrorText, Garbage, KmsError

LEMMA InitInv == Init => Inv
<1> SUFFICES ASSUME Init PROVE Inv
  OBVIOUS
<1>1. Types
  <2>1. input \in Seq(Block) /\ Distinct(input) /\ Len(input) <= 3
    BY DEF Init, Distinct
  <2>2. memory \in [Block -> Content] /\ text \in Content
    BY Contents DEF Init
  <2> QED BY <2>1, <2>2 DEF Init, Types, Name
<1>2. Used = {}
  BY DEF Init, Used, Free
<1> QED BY <1>1, <1>2 DEF Init, Inv, CallInv, CleanInv, MemoryReturned, AnswersItsArgument

LEMMA BeginInv == Inv /\ Begin => Inv'
<1> SUFFICES ASSUME Inv, Begin PROVE Inv'
  OBVIOUS
<1>1. fn' \in Name /\ at' = 1 /\ arg' \in String
  BY FunctionNames DEF Begin
<1>2. 1 \in DOMAIN Stages[fn'] /\ Inputs[fn'][1] = 0 /\ Result[fn'][1] = "none"
  BY <1>1 DEF Name, Stages, Inputs, Result, InvokeWasmStrFunc, AddressCosmos, RecoverV,
     Verify, VerifyEip155
<1>3. Types'
  BY <1>1, <1>2, Contents DEF Inv, Types, Begin, Distinct, Used
<1>4. Pointers(input') = {} /\ ~OwnOutput'
  BY <1>1, <1>2 DEF Begin, Pointers, OwnOutput
<1>5. CallInv'
  BY <1>1, <1>2, <1>4 DEF Begin, CallInv, InUse, Used, Free
<1>6. CleanInv'
  BY <1>1 DEF Inv, CleanInv, Begin
<1> QED BY <1>1, <1>3, <1>5, <1>6 DEF Inv, MemoryReturned, AnswersItsArgument

(* An error ends the call with no promise about the memory.                *)
LEMMA ErrInv ==
  ASSUME Inv, Err, UNCHANGED <<input, output>>, text' \in Content,
         memory' \in [Block -> Content]
  PROVE  Inv'
  BY DEF Inv, Types, Err, CallInv, CleanInv, MemoryReturned, AnswersItsArgument

(* Where a stage leads that ends without an error.                         *)
LEMMA Onward ==
  ASSUME Inv, at # 0, NEW res, Proceed(res)
  PROVE  /\ Course(fn, at) /\ fn \in Name /\ UNCHANGED <<fn, arg, before, failed>>
         /\ Ends(fn, at) => at' = 0 /\ answer' = res
         /\ ~Ends(fn, at) => /\ at' = at + 1 /\ answer' = answer
                             /\ at' \in DOMAIN Stages[fn] /\ at' # 0
<1>1. fn \in Name /\ at \in DOMAIN Stages[fn]
  BY DEF Inv, Types
<1>2. Course(fn, at)
  BY <1>1, CourseOfCalls
<1>3. ~Ends(fn, at) => at + 1 \in DOMAIN Stages[fn] /\ at + 1 # 0
  BY <1>2 DEF Course
<1> QED BY <1>1, <1>2, <1>3 DEF Proceed, Ends

LEMMA AllocInv == Inv /\ Alloc => Inv'
<1> SUFFICES ASSUME Inv, Alloc PROVE Inv'
  OBVIOUS
<1>1. PICK b \in Free : memory' = [memory EXCEPT ![b] = InputOf(arg)] /\ input' = Append(input, b)
  BY DEF Alloc
<1>2. at # 0 /\ Stages[fn][at] = "alloc" /\ Proceed(text) /\ UNCHANGED <<output, text>>
  BY DEF Alloc, At
<1>3. /\ Inputs[fn][at] <= 2 /\ Inputs[fn][at] \in 0..3 /\ Result[fn][at] = "none"
      /\ at' = at + 1 /\ at' # 0 /\ at' \in DOMAIN Stages[fn] /\ answer' = answer
      /\ UNCHANGED <<fn, arg, before, failed>>
      /\ Inputs[fn'][at'] = Inputs[fn][at] + 1 /\ Result[fn'][at'] = "none"
  BY <1>2, Onward DEF Course
<1>4. /\ b \in Block /\ memory[b] = Garbage
      /\ b \notin before /\ b \notin Pointers(input)
  BY <1>2, Contents DEF Free, Inv, Types, CallInv, InUse
<1>5. /\ input' \in Seq(Block) /\ Len(input') = Len(input) + 1
      /\ Distinct(input') /\ Pointers(input') = Pointers(input) \cup {b}
  BY <1>1, <1>4, AppendPointer DEF Inv, Types
<1>6. Len(input) = Inputs[fn][at]
  BY <1>2 DEF Inv, CallInv
<1>7. Types'
  <2>1. memory' \in [Block -> Content]
    BY <1>1, <1>4, Contents DEF Inv, Types
  <2>2. Len(input') <= 3
    BY <1>3, <1>5, <1>6
  <2> QED BY <1>2, <1>3, <1>5, <2>1, <2>2 DEF Inv, Types
<1>8. CallInv'
  <2>1. ~OwnOutput /\ ~OwnOutput'
    BY <1>3 DEF OwnOutput
  <2>2. \A c \in Block : memory'[c] = IF c = b THEN InputOf(arg) ELSE memory[c]
    BY <1>1, <1>4 DEF Inv, Types
  <2>3. arg \in String /\ InputOf(arg) # Garbage
    BY Contents DEF Inv, Types
  <2>4. Pointers(input') \subseteq Block
    BY <1>5 DEF Pointers
  <2>5. \A c \in Pointers(input') : memory'[c] = InputOf(arg') /\ c \notin before'
    BY <1>2, <1>3, <1>4, <1>5, <2>2, <2>4 DEF Inv, CallInv
  <2>6. \A c \in Block : memory'[c] # Garbage <=> InUse(c)'
    BY <1>2, <1>3, <1>5, <2>1, <2>2, <2>3 DEF Inv, CallInv, InUse
  <2>7. output' = NoBlock
    BY <1>2, <1>3 DEF Inv, CallInv
  <2> QED BY <1>3, <1>5, <1>6, <2>1, <2>5, <2>6, <2>7 DEF CallInv
<1> QED BY <1>3, <1>7, <1>8 DEF Inv, CleanInv, MemoryReturned, AnswersItsArgument

(* The string that the module finds in its first input is the argument.    *)
LEMMA FirstInput ==
  ASSUME Inv, At("invoke")
  PROVE  ResultFor(memory[input[1]][2]) = ResultFor(arg) /\ arg \in String
<1>1. at # 0 /\ fn \in Name /\ at \in DOMAIN Stages[fn] /\ Stages[fn][at] = "invoke"
  BY DEF Inv, Types, At
<1>2. Len(input) >= 1 /\ input \in Seq(Block)
  BY <1>1, CourseOfCalls DEF Course, Inv, CallInv, Types
<1>3. input[1] \in Pointers(input)
  BY <1>2 DEF Pointers
<1>4. memory[input[1]] = InputOf(arg) /\ arg \in String
  BY <1>1, <1>3 DEF Inv, CallInv, Types
<1> QED BY <1>4, Contents

LEMMA ModuleReturnsStringInv == Inv /\ ModuleReturnsString => Inv'
<1> SUFFICES ASSUME Inv, ModuleReturnsString PROVE Inv'
  OBVIOUS
<1>1. PICK b \in Free, c \in {ResultFor(arg), ErrorText} :
        memory' = [memory EXCEPT ![b] = c] /\ output' = b
  BY FirstInput DEF ModuleReturnsString
<1>2. /\ at # 0 /\ Stages[fn][at] = "invoke" /\ ReturnsString(fn) /\ Proceed(text)
      /\ UNCHANGED <<input, text>>
  BY DEF ModuleReturnsString, At
<1>3. /\ Result[fn][at] = "none"
      /\ at' = at + 1 /\ at' # 0 /\ at' \in DOMAIN Stages[fn] /\ answer' = answer
      /\ UNCHANGED <<fn, arg, before, failed>>
      /\ Inputs[fn'][at'] = Inputs[fn][at] /\ Result[fn'][at'] = "unchecked"
  BY <1>2, Onward DEF Course
<1>4. b \in Block /\ memory[b] = Garbage /\ c \in Content /\ c # Garbage
  BY <1>1, Contents DEF Free, Inv, Types
<1>5. b \notin before /\ b \notin Pointers(input)
  BY <1>2, <1>4 DEF Inv, CallInv, InUse
<1>6. Types'
  BY <1>1, <1>2, <1>3, <1>4 DEF Inv, Types
<1>7. CallInv'
  <2>1. ~OwnOutput
    BY <1>3 DEF OwnOutput
  <2>2. OwnOutput' /\ output' = b
    BY <1>1, <1>3, <1>4, MemoryAssumption DEF OwnOutput
  <2>3. \A x \in Block : memory'[x] = IF x = b THEN c ELSE memory[x]
    BY <1>1, <1>4 DEF Inv, Types
  <2>4. Pointers(input) \subseteq Block
    BY DEF Pointers, Inv, Types
  <2>5. Pointers(input') = Pointers(input)
    BY <1>2
  <2>6. \A x \in Pointers(input') : memory'[x] = InputOf(arg') /\ x \notin before'
    BY <1>2, <1>3, <1>5, <2>3, <2>4, <2>5 DEF Inv, CallInv
  <2>7. output' \notin before' \cup Pointers(input') /\ memory'[output'] \in Answers'
    BY <1>1, <1>3, <1>4, <1>5, <2>2, <2>3, <2>5 DEF Answers
  <2>8. \A x \in Block : memory'[x] # Garbage <=> InUse(x)'
    BY <1>2, <1>3, <1>4, <2>1, <2>2, <2>3, <2>5 DEF Inv, CallInv, InUse
  <2>9. Len(input') = Inputs[fn'][at']
    BY <1>2, <1>3 DEF Inv, CallInv
  <2> QED BY <1>3, <2>6, <2>7, <2>8, <2>9 DEF CallInv
<1> QED BY <1>3, <1>6, <1>7 DEF Inv, CleanInv, MemoryReturned, AnswersItsArgument

LEMMA ModuleReturnsNullInv == Inv /\ ModuleReturnsNull => Inv'
<1> SUFFICES ASSUME Inv, ModuleReturnsNull PROVE Inv'
  OBVIOUS
<1>1. /\ at # 0 /\ Stages[fn][at] = "invoke" /\ ReturnsString(fn) /\ Proceed(text)
      /\ UNCHANGED <<memory, input, output, text>>
  BY DEF ModuleReturnsNull, At, locals
<1>2. /\ Result[fn][at] = "none"
      /\ at' = at + 1 /\ at' # 0 /\ at' \in DOMAIN Stages[fn] /\ answer' = answer
      /\ UNCHANGED <<fn, arg, before, failed>>
      /\ Inputs[fn'][at'] = Inputs[fn][at] /\ Result[fn'][at'] = "unchecked"
  BY <1>1, Onward DEF Course
<1>3. output = NoBlock
  BY <1>1, <1>2 DEF Inv, CallInv
<1>4. ~OwnOutput /\ ~OwnOutput'
  BY <1>1, <1>2, <1>3 DEF OwnOutput
<1>5. Types'
  BY <1>1, <1>2 DEF Inv, Types
<1>6. CallInv'
  BY <1>1, <1>2, <1>4 DEF Inv, CallInv, InUse
<1> QED BY <1>2, <1>5, <1>6 DEF Inv, CleanInv, MemoryReturned, AnswersItsArgument

LEMMA ModuleReturnsNumberInv == Inv /\ ModuleReturnsNumber => Inv'
<1> SUFFICES ASSUME Inv, ModuleReturnsNumber PROVE Inv'
  OBVIOUS
<1>1. /\ at # 0 /\ Stages[fn][at] = "invoke" /\ ~ReturnsString(fn) /\ Proceed(text')
      /\ UNCHANGED <<memory, input, output>>
  BY DEF ModuleReturnsNumber, At
<1>2. text' = ResultFor(arg) /\ text' \in Content
  BY FirstInput, Contents DEF ModuleReturnsNumber
<1>3. /\ Result[fn][at] = "none"
      /\ at' = at + 1 /\ at' # 0 /\ at' \in DOMAIN Stages[fn] /\ answer' = answer
      /\ UNCHANGED <<fn, arg, before, failed>>
      /\ Inputs[fn'][at'] = Inputs[fn][at] /\ Result[fn'][at'] = "number"
  BY <1>1, Onward DEF Course
<1>4. ~OwnOutput /\ ~OwnOutput'
  BY <1>3 DEF OwnOutput
<1>5. Types'
  BY <1>1, <1>2, <1>3 DEF Inv, Types
<1>6. CallInv'
  BY <1>1, <1>2, <1>3, <1>4 DEF Inv, CallInv, InUse, Answers
<1> QED BY <1>3, <1>5, <1>6 DEF Inv, CleanInv, MemoryReturned, AnswersItsArgument

LEMMA FailuresInv == Inv /\ (AllocFails \/ ModuleTraps) => Inv'
<1>1. ASSUME Inv, AllocFails PROVE Inv'
  BY <1>1, ErrInv DEF AllocFails, locals, Inv, Types
<1>2. ASSUME Inv, ModuleTraps PROVE Inv'
  <2>1. memory' \in [Block -> Content]
    BY <1>2, Contents DEF ModuleTraps, Inv, Types
  <2> QED BY <1>2, <2>1, ErrInv DEF ModuleTraps, locals, Inv, Types
<1> QED BY <1>1, <1>2

LEMMA CheckNotNullInv == Inv /\ CheckNotNull => Inv'
<1> SUFFICES ASSUME Inv, CheckNotNull PROVE Inv'
  OBVIOUS
<1>1. at # 0 /\ Stages[fn][at] = "notNull" /\ UNCHANGED <<memory, input, output, text>>
  BY DEF CheckNotNull, At, locals
<1>2. CASE output = NoBlock
  BY <1>1, <1>2, ErrInv DEF CheckNotNull, Inv, Types
<1>3. CASE output # NoBlock
  <2>1. /\ Result[fn][at] = "unchecked"
        /\ at' = at + 1 /\ at' # 0 /\ at' \in DOMAIN Stages[fn] /\ answer' = answer
        /\ UNCHANGED <<fn, arg, before, failed>>
        /\ Inputs[fn'][at'] = Inputs[fn][at] /\ Result[fn'][at'] = "block"
    BY <1>1, <1>3, Onward DEF Course, CheckNotNull
  <2>2. OwnOutput /\ OwnOutput'
    BY <1>1, <1>3, <2>1 DEF OwnOutput
  <2>3. Types'
    BY <1>1, <2>1 DEF Inv, Types
  <2>4. CallInv'
    BY <1>1, <1>3, <2>1, <2>2 DEF Inv, CallInv, InUse, Answers
  <2> QED BY <2>1, <2>3, <2>4 DEF Inv, CleanInv, MemoryReturned, AnswersItsArgument
<1> QED BY <1>2, <1>3

LEMMA ReadInv == Inv /\ Read => Inv'
<1> SUFFICES ASSUME Inv, Read PROVE Inv'
  OBVIOUS
<1>1. at # 0 /\ Stages[fn][at] = "read" /\ UNCHANGED <<memory, input, output>>
  BY DEF Read, At
<1>2. CASE text' = text /\ Err
  BY <1>1, <1>2, ErrInv DEF Inv, Types
<1>3. CASE text' = memory[output] /\ Proceed(text')
  <2>1. /\ Result[fn][at] = "block"
        /\ at' = at + 1 /\ at' # 0 /\ at' \in DOMAIN Stages[fn] /\ answer' = answer
        /\ UNCHANGED <<fn, arg, before, failed>>
        /\ Inputs[fn'][at'] = Inputs[fn][at] /\ Result[fn'][at'] = "copied"
    BY <1>1, <1>3, Onward DEF Course
  <2>2. OwnOutput /\ output \in Block
    BY <1>1, <2>1 DEF OwnOutput, Inv, Types, CallInv
  <2>3. OwnOutput'
    BY <1>1, <2>1, <2>2 DEF OwnOutput
  <2>4. text' \in Answers /\ text' \in Content
    BY <1>1, <1>3, <2>2 DEF Inv, Types, CallInv
  <2>5. Types'
    BY <1>1, <2>1, <2>4 DEF Inv, Types
  <2>6. CallInv'
    BY <1>1, <2>1, <2>2, <2>3, <2>4 DEF Inv, CallInv, InUse, Answers, OwnOutput
  <2> QED BY <2>1, <2>5, <2>6 DEF Inv, CleanInv, MemoryReturned, AnswersItsArgument
<1> QED BY <1>2, <1>3 DEF Read

LEMMA FreeOutputInv == Inv /\ FreeOutput => Inv'
<1> SUFFICES ASSUME Inv, FreeOutput PROVE Inv'
  OBVIOUS
<1>1. /\ at # 0 /\ Stages[fn][at] = "freeOutput" /\ Proceed(text)
      /\ memory' = [memory EXCEPT ![output] = Garbage] /\ UNCHANGED <<input, output, text>>
  BY DEF FreeOutput, At, locals
<1>2. Result[fn][at] = "copied" /\ UNCHANGED <<fn, arg, before, failed>>
  BY <1>1, Onward DEF Course
<1>3. OwnOutput /\ output \in Block /\ text \in Answers
  BY <1>1, <1>2 DEF OwnOutput, Inv, Types, CallInv
<1>4. \A b \in Block : memory'[b] = IF b = output THEN Garbage ELSE memory[b]
  BY <1>1, <1>3 DEF Inv, Types
<1>5. memory' \in [Block -> Content]
  BY <1>1, <1>3, Contents DEF Inv, Types
<1>6. output \notin before \cup Pointers(input) /\ Pointers(input) \subseteq Block
  BY <1>1, <1>3 DEF Inv, CallInv, Types, Pointers
<1>7. \A b \in Block : memory'[b] # Garbage <=> (b \in before \/ b \in Pointers(input))
  BY <1>1, <1>3, <1>4, <1>6 DEF Inv, CallInv, InUse
<1>8. CASE Ends(fn, at)
  <2>1. at' = 0 /\ answer' = text /\ Inputs[fn][at] = 0
    BY <1>1, <1>8, Onward DEF Course
  <2>2. Pointers(input) = {}
    BY <1>1, <2>1 DEF Inv, CallInv, Types, Pointers
  <2>3. Used' = before'
    BY <1>2, <1>7, <2>2 DEF Used, Free, Inv, Types
  <2>4. Types'
    BY <1>1, <1>2, <1>3, <1>5, <2>1 DEF Inv, Types
  <2>5. CallInv' /\ MemoryReturned' /\ AnswersItsArgument'
    BY <1>2, <1>3, <2>1, <2>3 DEF CallInv, MemoryReturned, AnswersItsArgument, Answers
  <2> QED BY <1>2, <2>1, <2>3, <2>4, <2>5 DEF Inv, CleanInv
<1>9. CASE ~Ends(fn, at)
  <2>1. /\ at' = at + 1 /\ at' # 0 /\ at' \in DOMAIN Stages[fn] /\ answer' = answer
        /\ Inputs[fn'][at'] = Inputs[fn][at] /\ Result[fn'][at'] = "freed"
    BY <1>1, <1>9, Onward DEF Course
  <2>2. ~OwnOutput'
    BY <2>1 DEF OwnOutput
  <2>3. Types'
    BY <1>1, <1>2, <1>5, <2>1 DEF Inv, Types
  <2>4. CallInv'
    BY <1>1, <1>2, <1>3, <1>4, <1>6, <1>7, <2>1, <2>2 DEF Inv, CallInv, InUse, Answers
  <2> QED BY <1>2, <2>1, <2>3, <2>4 DEF Inv, CleanInv, MemoryReturned, AnswersItsArgument
<1> QED BY <1>8, <1>9

LEMMA FreeInputInv == Inv /\ FreeInput => Inv'
<1> SUFFICES ASSUME Inv, FreeInput PROVE Inv'
  OBVIOUS
<1>1. /\ at # 0 /\ Stages[fn][at] = "freeInput" /\ Proceed(text)
      /\ memory' = [memory EXCEPT ![Head(input)] = Garbage] /\ input' = Tail(input)
      /\ UNCHANGED <<output, text>>
  BY DEF FreeInput, At
<1>2. /\ Result[fn][at] \in {"unchecked", "freed", "number"}
      /\ UNCHANGED <<fn, arg, before, failed>>
      /\ Inputs[fn][at] \in 1..3 /\ Len(input) = Inputs[fn][at]
  BY <1>1, Onward DEF Course, Inv, CallInv
<1>3. /\ input' \in Seq(Block) /\ Len(input') = Len(input) - 1 /\ Distinct(input')
      /\ Head(input) \in Pointers(input) /\ Head(input) \in Block
      /\ Pointers(input') = Pointers(input) \ {Head(input)}
  BY <1>1, <1>2, TailPointers DEF Inv, Types
<1>4. \A b \in Block : memory'[b] = IF b = Head(input) THEN Garbage ELSE memory[b]
  BY <1>1, <1>3 DEF Inv, Types
<1>5. memory' \in [Block -> Content] /\ Pointers(input) \subseteq Block
  BY <1>1, <1>3, Contents DEF Inv, Types, Pointers
<1>6. Head(input) \notin before /\ (OwnOutput => output # Head(input))
  BY <1>1, <1>3 DEF Inv, CallInv
<1>7. \A b \in Block : memory'[b] # Garbage
                         <=> (b \in before \/ b \in Pointers(input') \/ (OwnOutput /\ b = output))
  BY <1>1, <1>3, <1>4, <1>6 DEF Inv, CallInv, InUse
<1>8. CASE Ends(fn, at)
  <2>1. at' = 0 /\ answer' = text /\ Inputs[fn][at] = 1 /\ Result[fn][at] \in {"freed", "number"}
    BY <1>1, <1>8, Onward DEF Course
  <2>2. Pointers(input') = {} /\ ~OwnOutput /\ text \in Answers
    BY <1>1, <1>2, <1>3, <2>1 DEF Inv, CallInv, Pointers, OwnOutput
  <2>3. Used' = before'
    BY <1>2, <1>7, <2>2 DEF Used, Free, Inv, Types
  <2>4. Types'
    BY <1>1, <1>2, <1>3, <1>5, <2>1 DEF Inv, Types
  <2>5. CallInv' /\ MemoryReturned' /\ AnswersItsArgument'
    BY <1>2, <2>1, <2>2, <2>3 DEF CallInv, MemoryReturned, AnswersItsArgument, Answers
  <2> QED BY <1>2, <2>1, <2>3, <2>4, <2>5 DEF Inv, CleanInv
<1>9. CASE ~Ends(fn, at)
  <2>1. /\ at' = at + 1 /\ at' # 0 /\ at' \in DOMAIN Stages[fn] /\ answer' = answer
        /\ Inputs[fn'][at'] = Inputs[fn][at] - 1 /\ Result[fn'][at'] = Result[fn][at]
    BY <1>1, <1>2, <1>9, Onward DEF Course
  <2>2. OwnOutput' <=> OwnOutput
    BY <1>1, <2>1 DEF OwnOutput
  <2>3. Types'
    BY <1>1, <1>2, <1>3, <1>5, <2>1 DEF Inv, Types
  <2>4. \A b \in Pointers(input') : memory'[b] = InputOf(arg') /\ b \notin before'
    BY <1>1, <1>2, <1>3, <1>4, <1>5 DEF Inv, CallInv
  <2>5. OwnOutput' => output' \notin before' \cup Pointers(input') /\ memory'[output'] \in Answers'
    BY <1>1, <1>2, <1>3, <1>4, <1>6, <2>2 DEF Inv, CallInv, Answers, OwnOutput, Types
  <2>6. \A b \in Block : memory'[b] # Garbage <=> InUse(b)'
    BY <1>1, <1>2, <1>7, <2>2 DEF InUse
  <2>7. Result[fn'][at'] \in {"copied", "freed", "number"} => text' \in Answers'
    BY <1>1, <1>2, <2>1 DEF Inv, CallInv, Answers
  <2>8. CallInv'
    BY <1>1, <1>2, <1>3, <2>1, <2>4, <2>5, <2>6, <2>7 DEF CallInv
  <2> QED BY <1>2, <2>1, <2>3, <2>8 DEF Inv, CleanInv, MemoryReturned, AnswersItsArgument
<1> QED BY <1>8, <1>9

-----------------------------------------------------------------------------
LEMMA NextInv == Inv /\ [Next]_vars => Inv'
<1> SUFFICES ASSUME Inv, [Next]_vars PROVE Inv'
  OBVIOUS
<1>1. CASE UNCHANGED vars
  BY <1>1 DEF vars, Inv, Types, CallInv, CleanInv, MemoryReturned, AnswersItsArgument,
     InUse, OwnOutput, Answers, Used, Free
<1>2. CASE Next
  BY <1>2, BeginInv, AllocInv, FailuresInv, ModuleReturnsStringInv, ModuleReturnsNullInv,
     ModuleReturnsNumberInv, CheckNotNullInv, ReadInv, FreeOutputInv, FreeInputInv DEF Next
<1> QED BY <1>1, <1>2

LEMMA Invariant == Spec => []Inv
  BY InitInv, NextInv, PTL DEF Spec

(* Every variable has its type, and what the host holds are pointers to    *)
(* blocks, however long the sequence of calls (crypto_service.rs).         *)
THEOREM TypeCorrect == Spec => []TypeOK
<1>1. Inv => TypeOK
  BY FunctionNames DEF Inv, Types, TypeOK
<1> QED BY <1>1, Invariant, PTL

(* A call that returns no error leaves the memory as it found it, for      *)
(* every function and whatever calls came before (crypto_service.rs).      *)
THEOREM NothingLeaks == Spec => []MemoryReturned
<1>1. Inv => MemoryReturned
  BY DEF Inv
<1> QED BY <1>1, Invariant, PTL

(* The text returned is the result for the argument of this very call, or  *)
(* the description of an error: nothing stale is ever read.                *)
THEOREM NothingStale == Spec => []AnswersItsArgument
<1>1. Inv => AnswersItsArgument
  BY DEF Inv
<1> QED BY <1>1, Invariant, PTL

(* As long as no call has failed, a call begins with an empty memory and   *)
(* holds at most three inputs, so that there is room for what it needs.    *)
LEMMA RoomForCall == Inv => ExhaustionNeedsError
<1> SUFFICES ASSUME Inv, At("alloc") \/ At("invoke"), Free = {}, ~failed PROVE FALSE
  BY DEF ExhaustionNeedsError
<1>1. at # 0 /\ fn \in Name /\ at \in DOMAIN Stages[fn] /\ Stages[fn][at] \in {"alloc", "invoke"}
  BY DEF Inv, Types, At
<1>2. Result[fn][at] = "none"
  BY <1>1, CourseOfCalls DEF Course
<1>3. before = {} /\ ~OwnOutput
  BY <1>2 DEF Inv, CleanInv, OwnOutput
<1>4. \A b \in Block : b \in Pointers(input)
  BY <1>1, <1>3 DEF Free, Inv, CallInv, InUse
<1>5. input \in Seq(Block) /\ Len(input) <= 3
  BY DEF Inv, Types
<1>6. \A i \in DOMAIN input : i \in {1, 2, 3} /\ input[i] \in Block
  BY <1>5
<1>7. PICK b1 \in Block \cup {NoBlock}, b2 \in Block \cup {NoBlock}, b3 \in Block \cup {NoBlock} :
        Pointers(input) \subseteq {b1, b2, b3}
  <2> DEFINE Nth(i) == IF i \in DOMAIN input THEN input[i] ELSE NoBlock
  <2>1. \A i \in {1, 2, 3} : Nth(i) \in Block \cup {NoBlock}
    BY <1>6
  <2>2. Pointers(input) \subseteq {Nth(1), Nth(2), Nth(3)}
    BY <1>6 DEF Pointers
  <2> HIDE DEF Nth
  <2> QED BY <2>1, <2>2
<1> QED BY <1>4, <1>7, MemoryAssumption

(* No sequence of calls, however long, exhausts the memory of the module   *)
(* unless one of them has failed (the instance is never reset).            *)
THEOREM NeverExhausted == Spec => []ExhaustionNeedsError
  BY RoomForCall, Invariant, PTL

=============================================================================
