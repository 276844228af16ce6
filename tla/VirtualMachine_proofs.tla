----------------------- MODULE VirtualMachine_proofs -----------------------
(* Theorems about VirtualMachine, for every set of well-formed modules,     *)
(* every word and stack size, and every memory limit.                       *)
EXTENDS VirtualMachine, SequenceTheorems, TLAPS

----------------------------------------------------------------------------
(* Words: every value an instruction can put in a register or in memory is a *)
(* word, or a byte.                                                          *)

(* A remainder by a positive number is below it. *)
LEMMA Mod ==
  ASSUME NEW x \in Int, NEW m \in Nat \ {0}
  PROVE  x % m \in 0..m - 1
  OBVIOUS

LEMMA WordModulusType == WordModulus \in Nat \ {0}
  BY WordsAssumption DEF WordModulus

(* static_cast<uint64_t> gives a 64-bit word whatever it converts. *)
LEMMA ToWordType ==
  ASSUME NEW x \in Int
  PROVE  ToWord(x) \in Word
  BY Mod, WordModulusType DEF ToWord, Word

LEMMA ByteWeightType ==
  ASSUME NEW n \in 0..WordBytes
  PROVE  ByteWeight[n] \in Nat \ {0}
  BY WordsAssumption

LEMMA SizeType ==
  ASSUME NEW n \in Size
  PROVE  n \in 0..WordBytes
  BY WordsAssumption DEF Size

LEMMA SignedType ==
  ASSUME NEW x \in Int, NEW n \in Size
  PROVE  Signed(x, n) \in Int
  <1>1. ByteWeight[n] \in Nat \ {0}
    BY ByteWeightType, SizeType
  <1>2. x % ByteWeight[n] \in Int
    BY <1>1, Mod
  <1> QED
    BY <1>1, <1>2 DEF Signed

LEMMA ExtendedType ==
  ASSUME NEW x \in Int, NEW n \in Size
  PROVE  Extended(x, n) \in Word
  BY SignedType, ToWordType DEF Extended

LEMMA QuotientType ==
  ASSUME NEW a \in Int, NEW b \in Int, b # 0
  PROVE  Quotient(a, b) \in Int /\ Remainder(a, b) \in Int
  <1> DEFINE abs(x) == IF x < 0 THEN -x ELSE x
  <1>1. abs(a) \in Int /\ abs(b) \in Nat \ {0}
    OBVIOUS
  <1>2. abs(a) \div abs(b) \in Int
    <2> HIDE DEF abs
    <2> QED BY <1>1
  <1>3. Quotient(a, b) \in Int
    BY <1>2 DEF Quotient
  <1> QED
    BY <1>3 DEF Remainder

(* A binary instruction that does not trap leaves a word. *)
LEMMA BinaryResultType ==
  ASSUME NEW n \in Size, NEW fn \in ArithmeticFn \cup ComparisonFn,
         NEW a \in Int, NEW b \in Int, Divides(fn, n, a, b)
  PROVE  BinaryResult(fn, n, a, b) \in Word
  <1>1. CASE fn \in ComparisonFn
    <2>1. BinaryResult(fn, n, a, b) \in {0, 1}
      BY <1>1 DEF BinaryResult
    <2>2. WordModulus > 1
      <3>1. WordModulus \in Nat \ {0} /\ WordModulus % 4 = 0
        BY WordModulusType, WordsAssumption DEF WordModulus
      <3>2. 1 % 4 = 1
        OBVIOUS
      <3> QED
        BY <3>1, <3>2
    <2> QED
      BY <2>1, <2>2, WordModulusType DEF Word
  <1>2. CASE fn \notin ComparisonFn
    <2>1. fn \in ArithmeticFn
      BY <1>2
    <2>2. fn \in {"div", "mod"} => b # 0
      BY DEF Divides
    <2>3. Arithmetic(fn, a, b) \in Int
      <3>1. CASE fn \in {"add", "sub", "mul"}
        BY <3>1 DEF Arithmetic
      <3>2. CASE fn \in {"div", "mod"}
        BY <3>2, <2>2, QuotientType DEF Arithmetic
      <3> QED
        BY <2>1, <3>1, <3>2 DEF ArithmeticFn
    <2> QED
      BY <1>2, <2>3, ExtendedType DEF BinaryResult
  <1> QED
    BY <1>1, <1>2

LEMMA UnaryResultType ==
  ASSUME NEW n \in Size, NEW fn, NEW a \in Int
  PROVE  UnaryResult(fn, n, a) \in Word
  BY ToWordType, ExtendedType DEF UnaryResult

(* What memcpy reads from bytes is a number. *)
LEMMA LoadBytesType ==
  ASSUME NEW n \in Size, NEW memory, NEW address \in Int, InMemory(memory, address, n),
         \A a \in DOMAIN memory : memory[a] \in Byte
  PROVE  LoadBytes(memory, address, n) \in Int
  <1> DEFINE part(k) == IF k < n THEN memory[address + k] * ByteWeight[k] ELSE 0
  <1>1. ASSUME NEW k \in 0..7
        PROVE  part(k) \in Int
    <2>1. CASE k < n
      <3>1. n \in Nat /\ n <= WordBytes /\ WordBytes \in Nat
        BY WordsAssumption DEF Size
      <3>2. address + k \in address..address + n - 1
        BY <2>1, <3>1
      <3>3. memory[address + k] \in Int
        BY <3>2, WordsAssumption DEF InMemory, Byte
      <3>4. ByteWeight[k] \in Int
        BY <2>1, <3>1, ByteWeightType
      <3> QED
        BY <2>1, <3>3, <3>4
    <2>2. CASE ~(k < n)
      BY <2>2
    <2> QED
      BY <2>1, <2>2
  <1>2. LoadBytes(memory, address, n) = part(0) + part(1) + part(2) + part(3)
                                          + part(4) + part(5) + part(6) + part(7)
    BY DEF LoadBytes
  <1>3. /\ part(0) \in Int /\ part(1) \in Int /\ part(2) \in Int /\ part(3) \in Int
        /\ part(4) \in Int /\ part(5) \in Int /\ part(6) \in Int /\ part(7) \in Int
    <2> HIDE DEF part
    <2> QED BY <1>1
  <1> HIDE DEF part
  <1> QED
    BY <1>2, <1>3

(* memcpy into memory leaves bytes, and as many as before. *)
LEMMA StoreBytesType ==
  ASSUME NEW D, NEW memory \in [D -> Byte], NEW n \in Size, NEW address \in Int,
         NEW v \in Word
  PROVE  StoreBytes(memory, address, n, v) \in [D -> Byte]
  <1>1. ASSUME NEW a \in D, a \in address..address + n - 1
        PROVE  ByteOf(v, a - address) \in Byte
    <2>1. a - address \in 0..WordBytes
      BY <1>1, WordsAssumption DEF Size
    <2>2. ByteWeight[a - address] \in Nat \ {0}
      BY <2>1, ByteWeightType
    <2>3. v \in Int
      BY WordModulusType DEF Word
    <2>4. v \div ByteWeight[a - address] \in Int
      BY <2>2, <2>3
    <2>5. ByteModulus \in Nat \ {0}
      BY WordsAssumption
    <2>6. (v \div ByteWeight[a - address]) % ByteModulus \in Byte
      <3> DEFINE q == v \div ByteWeight[a - address]
      <3>1. q \in Int
        BY <2>4
      <3> HIDE DEF q
      <3>2. q % ByteModulus \in Byte
        BY <3>1, <2>5, Mod DEF Byte
      <3> QED
        BY <3>2 DEF q
    <2> QED
      BY <2>6 DEF ByteOf
  <1> QED
    BY <1>1 DEF StoreBytes

(* However the offset spoils the tag, a pointer is a word. *)
LEMMA PointerToType ==
  ASSUME NEW s \in 0..3, NEW offset \in Int
  PROVE  PointerTo(s, offset) \in Word
  <1> DEFINE w == ToWord(offset)
             t == TwoBitOr(s, w \div SpaceSize)
  <1>1. w \in 0..WordModulus - 1 /\ WordModulus \in Nat \ {0} /\ WordModulus % 4 = 0
    BY ToWordType, WordModulusType, WordsAssumption DEF Word, WordModulus
  <1>2. SpaceSize \in Nat \ {0} /\ WordModulus = 4 * SpaceSize
    <2>1. WordModulus = 4 * (WordModulus \div 4) + (WordModulus % 4)
      BY <1>1
    <2> QED
      BY <1>1, <2>1 DEF SpaceSize
  <1>3. t \in 0..3
    BY DEF TwoBitOr
  <1>4. w % SpaceSize \in 0..SpaceSize - 1
    <2> HIDE DEF w
    <2> QED BY <1>1, <1>2, Mod
  <1>5. PointerTo(s, offset) = t * SpaceSize + (w % SpaceSize)
    BY DEF PointerTo
  <1> HIDE DEF w, t
  <1>6. t * SpaceSize \in {0, SpaceSize, 2 * SpaceSize, 3 * SpaceSize}
    BY <1>2, <1>3
  <1> QED
    BY <1>2, <1>4, <1>5, <1>6 DEF Word

----------------------------------------------------------------------------
(* Sequences and functions.                                                  *)

(* A function on 1..n is a sequence of length n. *)
LEMMA FunctionIsSequence ==
  ASSUME NEW S, NEW n \in Nat, NEW f \in [1..n -> S]
  PROVE  f \in Seq(S) /\ Len(f) = n /\ DOMAIN f = 1..n
  OBVIOUS

LEMMA SequenceIsFunction ==
  ASSUME NEW S, NEW s \in Seq(S)
  PROVE  Len(s) \in Nat /\ DOMAIN s = 1..Len(s) /\ s \in [1..Len(s) -> S]
  OBVIOUS

LEMMA UpdatedSequence ==
  ASSUME NEW S, NEW s \in Seq(S), NEW i \in 1..Len(s), NEW v \in S
  PROVE  /\ [s EXCEPT ![i] = v] \in Seq(S)
         /\ Len([s EXCEPT ![i] = v]) = Len(s)
  OBVIOUS

(* The machine is not at an instruction before a module is loaded. *)
LEMMA ModuleAt ==
  ASSUME IInv, NEW op \in Opcode, At(op)
  PROVE  /\ WellFormed(module)
         /\ instruction_pointer \in DOMAIN module.code
         /\ instruction_pointer \in Nat
         /\ Instruction \in Instructions
         /\ Instruction.op = op
         /\ WellFormedInstruction(module, instruction_pointer)
         /\ module.owner[instruction_pointer] \in 0..Len(module.functions)
  <1>1. module \in Modules
    BY DEF IInv, GuardHolds, At
  <1>2. WellFormed(module)
    BY <1>1, VirtualMachineAssumption
  <1>3. instruction_pointer \in DOMAIN module.code /\ Instruction.op = op
    BY DEF At
  <1>4. module.code \in Seq(Instructions)
    BY <1>2 DEF WellFormed, ModuleRecords
  <1>5. /\ Instruction \in Instructions /\ instruction_pointer \in Nat
    BY <1>3, <1>4, SequenceIsFunction DEF Instruction
  <1> QED
    BY <1>2, <1>3, <1>5 DEF WellFormed

(* RegistersOf is a size, and ReturnTypeOf a type. *)
LEMMA FunctionFacts ==
  ASSUME NEW m, WellFormed(m), NEW o \in 0..Len(m.functions)
  PROVE  /\ RegistersOf(m, o) \in Nat
         /\ ReturnTypeOf(m, o) \in ScalarType
  <1>1. m.functions \in Seq(FunctionEntries) /\ m.top_level_registers \in Nat
    BY DEF WellFormed, ModuleRecords
  <1>2. o # 0 => m.functions[o] \in FunctionEntries
    BY <1>1, SequenceIsFunction
  <1> QED
    BY <1>1, <1>2 DEF RegistersOf, ReturnTypeOf, FunctionEntries, ScalarType

(* The running instruction belongs to the topmost activation. *)
LEMMA TopIsActivation ==
  ASSUME IInv, NEW op \in Opcode, At(op)
  PROVE  /\ Floor \in Nat /\ Len(call_stack) \in Nat /\ Floor <= Len(call_stack)
         /\ status = "call" => Floor < Len(call_stack)
         /\ Len(call_stack) \in Activations
         /\ Floor + 1..Len(call_stack) \subseteq Activations
         /\ Activations \subseteq Floor..Len(call_stack)
  <1>1. /\ Running /\ Floor \in Nat /\ Len(call_stack) \in Nat
        /\ Floor <= Len(call_stack)
    BY SequenceIsFunction DEF IInv, TypeOK, GuardHolds, At, Floor
  <1>2. instruction_pointer \in Nat
    BY ModuleAt
  <1>3. status = "call" => Floor < Len(call_stack)
    BY <1>1, <1>2 DEF IInv, StubBelowFirstFrame, PositionAt, ExitStub
  <1> QED
    BY <1>1, <1>3 DEF Running, Activations

(* A register the running instruction names is in the register file. *)
LEMMA RegisterInFile ==
  ASSUME IInv, NEW op \in Opcode, At(op),
         NEW k \in Nat, k < RegistersOf(module, module.owner[instruction_pointer])
  PROVE  /\ base_register + k + 1 \in 1..Len(registers)
         /\ Register(k) \in Word
         /\ Register(k) \in Int
  <1>1. Len(call_stack) \in Activations
    BY TopIsActivation
  <1>2. base_register + RegistersOf(module, module.owner[instruction_pointer])
          <= Len(registers)
    BY <1>1 DEF IInv, WindowsInBounds, BaseAt, OwnerAt, PositionAt
  <1>3. RegistersOf(module, module.owner[instruction_pointer]) \in Nat
    BY ModuleAt, FunctionFacts
  <1>4. /\ base_register \in Nat /\ registers \in Seq(Word)
        /\ Len(registers) \in Nat /\ registers \in [1..Len(registers) -> Word]
    BY SequenceIsFunction DEF IInv, TypeOK
  <1>5. base_register + k + 1 \in 1..Len(registers)
    BY <1>2, <1>3, <1>4
  <1>6. Register(k) \in Word
    BY <1>4, <1>5 DEF Register
  <1> QED
    BY <1>5, <1>6, WordModulusType DEF Word

(* A step that stays in the running activation, whatever it writes there,    *)
(* keeps the invariant.                                                      *)
LEMMA LocalStep ==
  ASSUME IInv, NEW op \in Opcode, At(op), TypeOK',
         UNCHANGED <<module, base_register, call_stack, status, guard>>,
         Len(registers') = Len(registers),
         instruction_pointer' \in DOMAIN module.code,
         module.owner[instruction_pointer'] = module.owner[instruction_pointer]
  PROVE  IInv'
  <1>1. /\ Floor \in Nat /\ Len(call_stack) \in Nat /\ Floor <= Len(call_stack)
        /\ status = "call" => Floor < Len(call_stack)
        /\ Len(call_stack) \in Activations
        /\ Floor + 1..Len(call_stack) \subseteq Activations
        /\ Activations \subseteq Floor..Len(call_stack)
    BY TopIsActivation
  <1>2. Activations' = Activations /\ Floor' = Floor /\ Running' = Running
    BY DEF Activations, Floor, Running
  <1>3. \A k : BaseAt(k)' = BaseAt(k) /\ OwnerAt(k)' = OwnerAt(k)
    BY DEF BaseAt, OwnerAt, PositionAt
  <1>4. \A k : k # Len(call_stack) => PositionAt(k)' = PositionAt(k)
    BY DEF PositionAt
  <1>5. PositionAt(Len(call_stack))' = instruction_pointer'
    BY DEF PositionAt
  <1>6. WindowsInBounds'
    BY <1>1, <1>2, <1>3, <1>4, <1>5 DEF IInv, WindowsInBounds
  <1>7. ReturnsMatch'
    BY <1>1, <1>2, <1>3 DEF IInv, ReturnsMatch
  <1>8. StubBelowFirstFrame'
    BY <1>1, <1>2, <1>4 DEF IInv, StubBelowFirstFrame
  <1>9. GuardHolds'
    BY <1>1, <1>2, <1>3, <1>4, <1>5 DEF IInv, GuardHolds
  <1> QED
    BY <1>6, <1>7, <1>8, <1>9 DEF IInv

(* Outside run() and call() only the types are left to keep. *)
LEMMA IdleStep ==
  ASSUME TypeOK', status' \in {"idle", "undefined"}
  PROVE  IInv'
  <1>1. ~Running' /\ Activations' = {}
    BY DEF Running, Activations
  <1> QED
    BY <1>1 DEF IInv, WindowsInBounds, ReturnsMatch, StubBelowFirstFrame, GuardHolds, Running

(* The instruction after a straight-line one is in the same function. *)
LEMMA Successor ==
  ASSUME IInv, NEW op \in Opcode, At(op), op \notin {"jmp_i", "ret", "ret_void", "exit"}
  PROVE  /\ instruction_pointer + 1 \in DOMAIN module.code
         /\ module.owner[instruction_pointer + 1] = module.owner[instruction_pointer]
  BY ModuleAt DEF WellFormedInstruction, Instruction

LEMMA AssignStep ==
  ASSUME IInv, NEW op \in UsesDst \ {"call_i"}, At(op), NEW v \in Word, Assign(v)
  PROVE  IInv'
  <1>1. op \in Opcode /\ op \notin {"jmp_i", "ret", "ret_void", "exit"}
    BY DEF UsesDst, Opcode
  <1>2. /\ Instruction.dst \in Nat
        /\ Instruction.dst < RegistersOf(module, module.owner[instruction_pointer])
    BY <1>1, ModuleAt DEF WellFormedInstruction, Instruction, Instructions, UsesDst
  <1>3. base_register + Instruction.dst + 1 \in 1..Len(registers)
    BY <1>1, <1>2, RegisterInFile
  <1>4. registers' \in Seq(Word) /\ Len(registers') = Len(registers)
    BY <1>3, UpdatedSequence DEF IInv, TypeOK, Assign, WithRegister
  <1>5. instruction_pointer' = instruction_pointer + 1
    BY DEF Assign, Advance
  <1>6. TypeOK'
    BY <1>4, <1>5 DEF IInv, TypeOK, Assign, host
  <1> QED
    BY <1>1, <1>4, <1>5, <1>6, Successor, LocalStep DEF Assign, host

LEMMA UndefinedStep ==
  ASSUME IInv, BecomeUndefined
  PROVE  IInv'
  <1>1. TypeOK'
    BY DEF IInv, TypeOK, BecomeUndefined, machine
  <1> QED
    BY <1>1, IdleStep DEF BecomeUndefined

LEMMA ThrowStep ==
  ASSUME IInv, NEW frames, NEW base \in Nat, Throw(frames, base),
         frames \in Seq(CallFrames)
  PROVE  IInv'
  <1>1. NoGuard \in [instruction_pointer : Int, base_register : Nat, stack_pointer : Int,
                     call_stack_size : Nat, return_register : Nat \cup {NoRegister},
                     function : Nat, arguments : HostArguments \cup {<< >>}]
    BY DEF NoGuard, NoPosition
  <1>2. Result("exception", 0) \in [kind : ResultKind, value : Int]
    BY DEF Result, ResultKind
  <1>3. Floor \in Nat /\ Floor <= Len(call_stack)
    BY DEF IInv, TypeOK, GuardHolds, Throw, Floor
  <1>4. CallersFrames \in Seq(CallFrames)
    <2>1. call_stack \in [1..Len(call_stack) -> CallFrames] /\ Len(call_stack) \in Nat
      BY SequenceIsFunction DEF IInv, TypeOK
    <2>2. CallersFrames \in [1..Floor -> CallFrames]
      BY <1>3, <2>1 DEF CallersFrames, Floor
    <2> QED
      BY <1>3, <2>2, FunctionIsSequence
  <1>5. /\ module' \in Modules \cup {NoModule} /\ registers' \in Seq(Word)
        /\ stack' \in [0..StackSize - 1 -> Byte]
        /\ status' \in {"idle", "run", "call", "undefined"}
    BY DEF IInv, TypeOK, Throw
  <1>6. /\ guard' \in [instruction_pointer : Int, base_register : Nat, stack_pointer : Int,
                       call_stack_size : Nat, return_register : Nat \cup {NoRegister},
                       function : Nat, arguments : HostArguments \cup {<< >>}]
        /\ result' \in [kind : ResultKind, value : Int]
    BY <1>1, <1>2 DEF Throw
  <1>7. /\ instruction_pointer' \in Int /\ stack_pointer' \in Int /\ base_register' \in Nat
        /\ call_stack' \in Seq(CallFrames)
    <2>1. CASE status = "call"
      <3>1. /\ guard.instruction_pointer \in Int /\ guard.base_register \in Nat
            /\ guard.stack_pointer \in Int
        BY DEF IInv, TypeOK
      <3> QED
        BY <1>4, <2>1, <3>1 DEF Throw, RestoreHost
    <2>2. CASE status # "call"
      BY <2>2 DEF IInv, TypeOK, Throw
    <2> QED
      BY <2>1, <2>2
  <1>8. TypeOK'
    BY <1>5, <1>6, <1>7 DEF TypeOK
  <1> QED
    BY <1>8, IdleStep DEF Throw

----------------------------------------------------------------------------
(* One lemma per action. *)

(* The operands of the running instruction. *)
LEMMA OperandTypes ==
  ASSUME IInv, NEW op \in Opcode, At(op)
  PROVE  /\ Instruction.size \in Size /\ Instruction.imm \in Int
         /\ op \in UsesLhs => /\ Register(Instruction.lhs) \in Word
                              /\ Register(Instruction.lhs) \in Int
         /\ op \in UsesRhs => /\ Register(Instruction.rhs) \in Word
                              /\ Register(Instruction.rhs) \in Int
         /\ stack_pointer \in Int
  <1>1. /\ Instruction \in Instructions
        /\ op \in UsesLhs =>
             Instruction.lhs < RegistersOf(module, module.owner[instruction_pointer])
        /\ op \in UsesRhs =>
             Instruction.rhs < RegistersOf(module, module.owner[instruction_pointer])
    BY ModuleAt DEF WellFormedInstruction, Instruction
  <1> QED
    BY <1>1, RegisterInFile DEF Instructions, IInv, TypeOK

LEMMA MovImmediateStep == ASSUME IInv, MovImmediate PROVE IInv'
  <1>1. "mov_i" \in UsesDst \ {"call_i"} /\ "mov_i" \in Opcode
    BY DEF UsesDst, Opcode
  <1>2. ToWord(Instruction.imm) \in Word
    BY <1>1, OperandTypes, ToWordType DEF MovImmediate
  <1> QED
    BY <1>1, <1>2, AssignStep DEF MovImmediate

LEMMA MovStep == ASSUME IInv, Mov PROVE IInv'
  <1>1. "mov" \in UsesDst \ {"call_i"} /\ "mov" \in Opcode /\ "mov" \in UsesLhs
    BY DEF UsesDst, Opcode, UsesLhs
  <1>2. Register(Instruction.lhs) \in Word
    BY <1>1, OperandTypes DEF Mov
  <1> QED
    BY <1>1, <1>2, AssignStep DEF Mov

LEMMA LookupConstantStep == ASSUME IInv, LookupConstant PROVE IInv'
  <1>1. "lookup_k" \in UsesDst \ {"call_i"} /\ "lookup_k" \in Opcode
    BY DEF UsesDst, Opcode
  <1>2. Instruction.rhs \in DOMAIN module.constant_table
    BY <1>1, ModuleAt DEF LookupConstant, WellFormedInstruction, Instruction
  <1>3. module.constant_table \in Seq(Nat)
    BY <1>1, ModuleAt DEF LookupConstant, WellFormed, ModuleRecords
  <1>4. module.constant_table[Instruction.rhs] \in Int
    BY <1>2, <1>3, SequenceIsFunction
  <1>5. PointerTo(ConstantSpace, module.constant_table[Instruction.rhs]) \in Word
    BY <1>4, PointerToType DEF ConstantSpace
  <1> QED
    BY <1>1, <1>5, AssignStep DEF LookupConstant

LEMMA MovStackPointerStep == ASSUME IInv, MovStackPointer PROVE IInv'
  <1>1. "mov_sp_i" \in UsesDst \ {"call_i"} /\ "mov_sp_i" \in Opcode
    BY DEF UsesDst, Opcode
  <1>2. stack_pointer + Instruction.imm \in Int
    BY <1>1, OperandTypes DEF MovStackPointer
  <1>3. PointerTo(StackSpace, stack_pointer + Instruction.imm) \in Word
    BY <1>2, PointerToType DEF StackSpace
  <1> QED
    BY <1>1, <1>3, AssignStep DEF MovStackPointer

LEMMA UnaryStep == ASSUME IInv, Unary PROVE IInv'
  <1>1. "unary" \in UsesDst \ {"call_i"} /\ "unary" \in Opcode /\ "unary" \in UsesLhs
    BY DEF UsesDst, Opcode, UsesLhs
  <1>2. Instruction.size \in Size /\ Register(Instruction.lhs) \in Int
    BY <1>1, OperandTypes DEF Unary
  <1>3. UnaryResult(Instruction.fn, Instruction.size,
                    Signed(Register(Instruction.lhs), Instruction.size)) \in Word
    BY <1>2, SignedType, UnaryResultType
  <1> QED
    BY <1>1, <1>3, AssignStep DEF Unary

LEMMA BinaryStep == ASSUME IInv, Binary PROVE IInv'
  <1> DEFINE a == Signed(Register(Instruction.lhs), Instruction.size)
  <1>1. PICK op \in {"binary", "binary_k", "binary_i"} : At(op)
    BY DEF Binary
  <1>2. op \in UsesDst \ {"call_i"} /\ op \in Opcode /\ op \in UsesLhs
    BY DEF UsesDst, Opcode, UsesLhs
  <1>3. /\ Instruction.size \in Size /\ Instruction.imm \in Int
        /\ Instruction.op = op
        /\ Instruction.fn \in ArithmeticFn \cup ComparisonFn
    BY <1>1, <1>2, OperandTypes, ModuleAt DEF WellFormedInstruction, Instruction
  <1>4. a \in Int
    BY <1>1, <1>2, <1>3, OperandTypes, SignedType
  <1>5. RightOperand \in Int
    <2>1. CASE op = "binary"
      <3>1. Register(Instruction.rhs) \in Int
        BY <1>1, <1>2, <2>1, OperandTypes DEF UsesRhs
      <3> QED
        BY <1>3, <2>1, <3>1, SignedType DEF RightOperand
    <2>2. CASE op = "binary_k"
      <3> DEFINE at == module.constant_table[Instruction.rhs]
      <3>1. /\ Instruction.rhs \in DOMAIN module.constant_table
            /\ at + 1..at + Instruction.size \subseteq DOMAIN module.constant_data
            /\ module.constant_table \in Seq(Nat) /\ module.constant_data \in Seq(Byte)
        BY <1>1, <1>2, <2>2, ModuleAt
           DEF WellFormedInstruction, Instruction, WellFormed, ModuleRecords
      <3>2. at \in Nat
        BY <3>1, SequenceIsFunction
      <3>3. InMemory(module.constant_data, at + 1, Instruction.size)
        BY <1>3, <3>1, <3>2, WordsAssumption, SMTT(30) DEF InMemory, Size
      <3>4. \A k \in DOMAIN module.constant_data : module.constant_data[k] \in Byte
        BY <3>1, SequenceIsFunction
      <3>5. LoadBytes(module.constant_data, at + 1, Instruction.size) \in Int
        BY <1>3, <3>2, <3>3, <3>4, LoadBytesType
      <3> QED
        BY <1>3, <2>2, <3>5, SignedType DEF RightOperand
    <2>3. CASE op = "binary_i"
      BY <1>3, <2>3, SignedType DEF RightOperand
    <2> QED
      BY <2>1, <2>2, <2>3
  <1>6. CASE Divides(Instruction.fn, Instruction.size, a, RightOperand)
    <2>1. BinaryResult(Instruction.fn, Instruction.size, a, RightOperand) \in Word
      <3> HIDE DEF a
      <3> QED BY <1>3, <1>4, <1>5, <1>6, BinaryResultType
    <2> QED
      BY <1>1, <1>2, <1>6, <2>1, AssignStep DEF Binary
  <1>7. CASE ~Divides(Instruction.fn, Instruction.size, a, RightOperand)
    BY <1>7, UndefinedStep DEF Binary
  <1> QED
    BY <1>6, <1>7

LEMMA AllocaStep == ASSUME IInv, AllocaImmediate \/ Alloca PROVE IInv'
  <1>1. PICK op \in {"alloca_i", "alloca"} : At(op)
    BY DEF AllocaImmediate, Alloca
  <1>2. op \in Opcode /\ op \notin {"jmp_i", "ret", "ret_void", "exit"}
    BY DEF Opcode
  <1>3. Instruction.op = op /\ Instruction.imm \in Int /\ stack_pointer \in Int
    BY <1>1, <1>2, OperandTypes, ModuleAt
  <1>4. stack_pointer' \in Int
    <2>1. CASE AllocaImmediate
      BY <1>3, <2>1 DEF AllocaImmediate
    <2>2. CASE Alloca
      <3>1. op = "alloca"
        BY <1>3, <2>2 DEF Alloca, At
      <3>2. Register(Instruction.lhs) \in Int
        BY <1>1, <1>2, <3>1, OperandTypes DEF UsesLhs
      <3>3. Signed(Register(Instruction.lhs), WordBytes) \in Int
        BY <3>2, SignedType, WordsAssumption DEF Size
      <3> QED
        BY <1>3, <2>2, <3>3 DEF Alloca
    <2> QED
      BY <2>1, <2>2
  <1>5. /\ instruction_pointer' = instruction_pointer + 1
        /\ UNCHANGED <<registers, stack, base_register, call_stack, host>>
    BY DEF AllocaImmediate, Alloca, Advance
  <1>6. TypeOK'
    BY <1>4, <1>5 DEF IInv, TypeOK, host
  <1> QED
    BY <1>1, <1>2, <1>5, <1>6, Successor, LocalStep DEF host

(* A load from bytes assigns a word, or is undefined. *)
LEMMA LoadFromStep ==
  ASSUME IInv, NEW op \in {"load", "load_sp"}, At(op),
         NEW memory, \A a \in DOMAIN memory : memory[a] \in Byte,
         NEW address \in Int, LoadFrom(memory, address)
  PROVE  IInv'
  <1>1. op \in UsesDst \ {"call_i"} /\ op \in Opcode
    BY DEF UsesDst, Opcode
  <1>2. Instruction.size \in Size
    BY <1>1, OperandTypes
  <1>3. CASE InMemory(memory, address, Instruction.size)
    <2>1. LoadBytes(memory, address, Instruction.size) \in Int
      BY <1>2, <1>3, LoadBytesType
    <2>2. Extended(LoadBytes(memory, address, Instruction.size), Instruction.size) \in Word
      BY <1>2, <2>1, ExtendedType
    <2> QED
      BY <1>1, <1>3, <2>2, AssignStep DEF LoadFrom
  <1>4. CASE ~InMemory(memory, address, Instruction.size)
    BY <1>4, UndefinedStep DEF LoadFrom
  <1> QED
    BY <1>3, <1>4

LEMMA StoreToStep ==
  ASSUME IInv, NEW op \in {"store", "store_sp"}, At(op), NEW address \in Int,
         StoreTo(address)
  PROVE  IInv'
  <1>1. op \in UsesRhs /\ op \in Opcode /\ op \notin {"jmp_i", "ret", "ret_void", "exit"}
    BY DEF UsesRhs, Opcode
  <1>2. Instruction.size \in Size /\ Register(Instruction.rhs) \in Word
    BY <1>1, OperandTypes
  <1>3. CASE InMemory(stack, address, Instruction.size)
    <2>1. stack' \in [0..StackSize - 1 -> Byte]
      <3>1. stack \in [0..StackSize - 1 -> Byte]
        BY DEF IInv, TypeOK
      <3>2. StoreBytes(stack, address, Instruction.size, Register(Instruction.rhs))
              \in [0..StackSize - 1 -> Byte]
        BY <1>2, <3>1, StoreBytesType
      <3> QED
        BY <1>3, <3>2 DEF StoreTo
    <2>2. /\ instruction_pointer' = instruction_pointer + 1
          /\ UNCHANGED <<registers, stack_pointer, base_register, call_stack, host>>
      BY <1>3 DEF StoreTo, Advance
    <2>3. TypeOK'
      BY <2>1, <2>2 DEF IInv, TypeOK, host
    <2> QED
      BY <1>1, <2>2, <2>3, Successor, LocalStep DEF host
  <1>4. CASE ~InMemory(stack, address, Instruction.size)
    BY <1>4, UndefinedStep DEF StoreTo
  <1> QED
    BY <1>3, <1>4

(* An exception at the running instruction. *)
LEMMA ThrowHere ==
  ASSUME IInv, Throw(call_stack, base_register)
  PROVE  IInv'
  BY ThrowStep DEF IInv, TypeOK

LEMMA PointerType ==
  ASSUME NEW w \in Word
  PROVE  PointerOffset(w) \in Int
  <1>1. SpaceSize \in Nat \ {0}
    <2>1. WordModulus \in Nat \ {0} /\ WordModulus % 4 = 0
      BY WordModulusType, WordsAssumption DEF WordModulus
    <2> QED
      BY <2>1 DEF SpaceSize
  <1>2. w \in Int
    BY WordModulusType DEF Word
  <1> QED
    BY <1>1, <1>2, Mod DEF PointerOffset

LEMMA LoadStep == ASSUME IInv, Load PROVE IInv'
  <1> DEFINE w == Register(Instruction.lhs)
             address == PointerOffset(w) + Instruction.imm
  <1>1. At("load") /\ "load" \in Opcode /\ "load" \in UsesLhs
    BY DEF Load, Opcode, UsesLhs
  <1>2. address \in Int
    BY <1>1, OperandTypes, PointerType
  <1>3. /\ \A a \in DOMAIN module.constant_data : module.constant_data[a] \in Byte
        /\ \A a \in DOMAIN stack : stack[a] \in Byte
    <2>1. module.constant_data \in Seq(Byte)
      BY <1>1, ModuleAt DEF WellFormed, ModuleRecords
    <2>2. \A a \in DOMAIN module.constant_data : module.constant_data[a] \in Byte
      BY <2>1, SequenceIsFunction
    <2>3. \A a \in DOMAIN stack : stack[a] \in Byte
      BY DEF IInv, TypeOK
    <2> QED
      BY <2>2, <2>3
  <1>4. \/ LoadFrom(module.constant_data, address + 1)
        \/ LoadFrom(stack, address)
        \/ Throw(call_stack, base_register)
    BY DEF Load
  <1> HIDE DEF address
  <1>5. address + 1 \in Int
    BY <1>2
  <1> QED
    BY <1>1, <1>2, <1>3, <1>4, <1>5, LoadFromStep, ThrowHere

LEMMA StoreStep == ASSUME IInv, Store PROVE IInv'
  <1> DEFINE address == PointerOffset(Register(Instruction.lhs)) + Instruction.imm
  <1>1. At("store") /\ "store" \in Opcode /\ "store" \in UsesLhs
    BY DEF Store, Opcode, UsesLhs
  <1>2. address \in Int
    BY <1>1, OperandTypes, PointerType
  <1>3. StoreTo(address) \/ Throw(call_stack, base_register)
    BY DEF Store
  <1> HIDE DEF address
  <1> QED
    BY <1>1, <1>2, <1>3, StoreToStep, ThrowHere

LEMMA LoadStackPointerStep == ASSUME IInv, LoadStackPointer PROVE IInv'
  <1>1. At("load_sp") /\ "load_sp" \in Opcode
    BY DEF LoadStackPointer, Opcode
  <1>2. stack_pointer + Instruction.imm \in Int
    BY <1>1, OperandTypes
  <1>3. \A a \in DOMAIN stack : stack[a] \in Byte
    BY DEF IInv, TypeOK
  <1> QED
    BY <1>1, <1>2, <1>3, LoadFromStep DEF LoadStackPointer

LEMMA StoreStackPointerStep == ASSUME IInv, StoreStackPointer PROVE IInv'
  <1>1. At("store_sp") /\ "store_sp" \in Opcode
    BY DEF StoreStackPointer, Opcode
  <1>2. stack_pointer + Instruction.imm \in Int
    BY <1>1, OperandTypes
  <1> QED
    BY <1>1, <1>2, StoreToStep DEF StoreStackPointer

LEMMA JumpStep == ASSUME IInv, Jump \/ JumpNonZero PROVE IInv'
  <1>1. PICK op \in {"jmp_i", "jnz_i"} : At(op)
    BY DEF Jump, JumpNonZero
  <1>2. op \in Opcode
    BY DEF Opcode
  <1>3. /\ Instruction.op = op /\ Instruction.imm \in Int /\ instruction_pointer \in Nat
        /\ WellFormedInstruction(module, instruction_pointer)
    BY <1>1, <1>2, ModuleAt, OperandTypes
  <1>4. UNCHANGED <<registers, stack, stack_pointer, base_register, call_stack, host>>
    BY DEF Jump, JumpNonZero
  <1>5. \/ instruction_pointer' = instruction_pointer + 1 + Instruction.imm
        \/ op = "jnz_i" /\ instruction_pointer' = instruction_pointer + 1
    BY <1>1, <1>3 DEF Jump, JumpNonZero, At
  <1>6. /\ instruction_pointer' \in DOMAIN module.code
        /\ module.owner[instruction_pointer'] = module.owner[instruction_pointer]
    BY <1>3, <1>5 DEF WellFormedInstruction, Instruction
  <1>7. TypeOK'
    BY <1>3, <1>4, <1>5 DEF IInv, TypeOK, host
  <1> QED
    BY <1>1, <1>2, <1>4, <1>6, <1>7, LocalStep DEF host

----------------------------------------------------------------------------
(* Calls and returns. *)

(* The saved fields of a frame, and the window of a level, are numbers. *)
LEMMA FrameFields ==
  ASSUME IInv, NEW L \in Nat, L = Len(call_stack), NEW k \in 1..L
  PROVE  /\ call_stack[k] \in CallFrames
         /\ call_stack[k].return_address \in Int
         /\ call_stack[k].base_register \in Nat
         /\ call_stack[k].stack_pointer \in Int
         /\ call_stack[k].return_register \in Nat \cup {NoRegister}
  <1>1. call_stack[k] \in CallFrames
    <2>1. call_stack \in Seq(CallFrames)
      BY DEF IInv, TypeOK
    <2> QED
      BY <2>1, SequenceIsFunction
  <1> QED
    BY <1>1 DEF CallFrames

LEMMA BaseType ==
  ASSUME IInv, NEW L \in Nat, L = Len(call_stack), NEW k \in 0..L
  PROVE  BaseAt(k) \in Nat
  <1>1. CASE k = L
    BY <1>1 DEF BaseAt, IInv, TypeOK
  <1>2. CASE k # L
    <2>1. k + 1 \in 1..L
      BY <1>2
    <2> QED
      BY <1>2, <2>1, FrameFields DEF BaseAt
  <1> QED
    BY <1>1, <1>2

(* A grown register file holds words, and is as long as was asked. *)
LEMMA GrownType ==
  ASSUME IInv, NEW size \in Nat
  PROVE  /\ Grown(size) \in Seq(Word)
         /\ Len(Grown(size)) \in Nat
         /\ Len(Grown(size)) >= size /\ Len(Grown(size)) >= Len(registers)
         /\ Len(Grown(size)) = Len(registers) \/ Len(Grown(size)) = size
         /\ Len(registers) \in Nat
  <1>1. registers \in Seq(Word) /\ Len(registers) \in Nat
        /\ registers \in [1..Len(registers) -> Word]
    BY SequenceIsFunction DEF IInv, TypeOK
  <1>2. CASE size > Len(registers)
    <2>1. 0 \in Word
      BY WordModulusType DEF Word
    <2>2. Grown(size) \in [1..size -> Word]
      BY <1>1, <1>2, <2>1 DEF Grown
    <2>3. Grown(size) \in Seq(Word) /\ Len(Grown(size)) = size
      BY <2>2, FunctionIsSequence
    <2> QED
      BY <1>1, <1>2, <2>3
  <1>3. CASE ~(size > Len(registers))
    BY <1>1, <1>3 DEF Grown
  <1> QED
    BY <1>2, <1>3

LEMMA PushedFrames ==
  ASSUME IInv, NEW frame \in CallFrames
  PROVE  LET frames == Append(call_stack, frame)
         IN  /\ frames \in Seq(CallFrames)
             /\ Len(frames) = Len(call_stack) + 1
             /\ frames[Len(call_stack) + 1] = frame
             /\ \A k \in 1..Len(call_stack) : frames[k] = call_stack[k]
             /\ Len(call_stack) \in Nat
  BY DEF IInv, TypeOK, CallFrames

LEMMA CallFunctionStep == ASSUME IInv, CallFunction PROVE IInv'
  <1> DEFINE o == module.owner[instruction_pointer]
             f == module.functions[Instruction.callee]
             newBase == base_register + Instruction.lhs
             required == newBase + f.register_count
             dst == ReturnRegister
             frame == CallFrame(instruction_pointer + 1, base_register, stack_pointer, dst)
             frames == Append(call_stack, frame)
  <1>0. PICK L \in Nat : L = Len(call_stack)
    BY SequenceIsFunction DEF IInv, TypeOK
  <1>1. PICK op \in {"call_i", "call_void_i"} : At(op)
    BY DEF CallFunction
  <1>2. op \in Opcode /\ op \notin {"jmp_i", "ret", "ret_void", "exit"}
    BY DEF Opcode
  <1>3. /\ WellFormed(module) /\ Instruction.op = op /\ Instruction \in Instructions
        /\ instruction_pointer \in DOMAIN module.code
        /\ instruction_pointer \in Nat
        /\ o \in 0..Len(module.functions)
        /\ WellFormedInstruction(module, instruction_pointer)
    BY <1>1, <1>2, ModuleAt
  <1>4. /\ Instruction.callee \in DOMAIN module.functions
        /\ op = "call_i" => /\ f.return_type # VoidType
                            /\ Instruction.dst < RegistersOf(module, o)
        /\ op = "call_void_i" => f.return_type = VoidType
    BY <1>3 DEF WellFormedInstruction, Instruction, UsesDst
  <1>5. /\ f \in FunctionEntries
        /\ f.position \in DOMAIN module.code
        /\ module.owner[f.position] = Instruction.callee
        /\ Instruction.callee # 0
        /\ f.position \in Nat
    <2>1. module.functions \in Seq(FunctionEntries) /\ module.code \in Seq(Instructions)
      BY <1>3 DEF WellFormed, ModuleRecords
    <2>2. f \in FunctionEntries /\ Instruction.callee # 0
      BY <1>4, <2>1, SequenceIsFunction
    <2>3. f.position \in DOMAIN module.code /\ module.owner[f.position] = Instruction.callee
      BY <1>3, <1>4 DEF WellFormed
    <2> QED
      BY <2>1, <2>2, <2>3, SequenceIsFunction
  <1>6. /\ newBase \in Nat /\ required \in Nat /\ base_register \in Nat
        /\ dst \in Nat \cup {NoRegister}
        /\ newBase >= base_register
    <2>1. Instruction.lhs \in Nat /\ Instruction.dst \in Nat
      BY <1>3 DEF Instructions
    <2>2. f.register_count \in Nat
      BY <1>5 DEF FunctionEntries
    <2>3. base_register \in Nat
      BY DEF IInv, TypeOK
    <2>4. dst \in Nat \cup {NoRegister}
      BY <2>1, <2>3 DEF ReturnRegister
    <2> HIDE DEF f, dst
    <2> QED
      BY <2>1, <2>2, <2>3, <2>4
  <1>7. frame \in CallFrames
    BY <1>3, <1>6 DEF CallFrame, CallFrames, IInv, TypeOK
  <1>8. /\ frames \in Seq(CallFrames) /\ Len(frames) = L + 1 /\ frames[L + 1] = frame
        /\ \A k \in 1..L : frames[k] = call_stack[k]
        /\ L \in Nat
    BY <1>0, <1>7, PushedFrames
  <1>9. \/ Throw(call_stack, base_register)
        \/ Throw(frames, newBase)
        \/ /\ call_stack' = frames
           /\ base_register' = newBase
           /\ registers' = Grown(required)
           /\ instruction_pointer' = f.position
           /\ UNCHANGED <<stack, stack_pointer, host>>
    BY DEF CallFunction
  <1>10. CASE Throw(call_stack, base_register)
    BY <1>10, ThrowHere
  <1>11. CASE Throw(frames, newBase)
    BY <1>6, <1>8, <1>11, ThrowStep DEF CallFrames
  <1>12. CASE /\ call_stack' = frames
              /\ base_register' = newBase
              /\ registers' = Grown(required)
              /\ instruction_pointer' = f.position
              /\ UNCHANGED <<stack, stack_pointer, host>>
    <2>1. /\ Floor \in Nat /\ Floor <= L
          /\ status = "call" => Floor < L
          /\ L \in Activations
          /\ Floor + 1..L \subseteq Activations
          /\ Activations \subseteq Floor..L
      BY <1>0, <1>1, <1>2, TopIsActivation
    <2>2. /\ registers' \in Seq(Word) /\ Len(registers') \in Nat
          /\ Len(registers') >= required /\ Len(registers') >= Len(registers)
          /\ Len(registers) \in Nat
      BY <1>6, <1>12, GrownType
    <2>3. TypeOK'
      <3>1. call_stack' \in Seq(CallFrames)
        BY <1>8, <1>12
      <3>2. /\ instruction_pointer' \in Int /\ base_register' \in Nat
            /\ stack' = stack /\ stack_pointer' = stack_pointer /\ UNCHANGED host
        BY <1>5, <1>6, <1>12
      <3> QED
        BY <2>2, <3>1, <3>2 DEF IInv, TypeOK, host
    <2>4. Running' /\ Floor' = Floor /\ Len(call_stack') = L + 1
          /\ status' = status /\ module' = module /\ guard' = guard
      BY <1>0, <1>1, <1>8, <1>12 DEF host, At, Running, Floor
    <2>5. Activations' = Activations \cup {L + 1}
      BY <1>0, <1>1, <1>8, <2>1, <2>4 DEF At, Running, Activations
    <2>6. \A k \in 0..L - 1 : PositionAt(k)' = PositionAt(k)
      BY <1>0, <1>8, <1>12, <2>4 DEF PositionAt
    <2>7. PositionAt(L)' = instruction_pointer + 1 /\ PositionAt(L + 1)' = f.position
          /\ PositionAt(L) = instruction_pointer
      BY <1>0, <1>8, <1>12, <2>4 DEF PositionAt, CallFrame
    <2>8. \A k \in 0..L : BaseAt(k)' = BaseAt(k)
      BY <1>0, <1>8, <1>12, <2>4 DEF BaseAt, CallFrame
    <2>9. BaseAt(L + 1)' = newBase /\ BaseAt(L) = base_register
      BY <1>0, <1>8, <1>12, <2>4 DEF BaseAt
    <2>10. /\ instruction_pointer + 1 \in DOMAIN module.code
           /\ module.owner[instruction_pointer + 1] = o
      BY <1>1, <1>2, Successor
    <2>11. /\ \A k \in 0..L : OwnerAt(k)' = OwnerAt(k)
           /\ OwnerAt(L) = o
           /\ OwnerAt(L + 1)' = Instruction.callee
      BY <1>5, <1>8, <2>4, <2>6, <2>7, <2>10 DEF OwnerAt
    <2>12. /\ RegistersOf(module, Instruction.callee) = f.register_count
           /\ ReturnTypeOf(module, Instruction.callee) = f.return_type
      BY <1>5 DEF RegistersOf, ReturnTypeOf
    <2>13. WindowsInBounds'
      <3> SUFFICES ASSUME NEW k \in Activations'
                   PROVE  /\ PositionAt(k)' \in DOMAIN module.code
                          /\ BaseAt(k)' + RegistersOf(module, OwnerAt(k)') <= Len(registers')
        BY <2>4 DEF WindowsInBounds
      <3>1. CASE k = L + 1
        BY <1>5, <2>2, <2>7, <2>9, <2>11, <2>12, <3>1
      <3>2. CASE k # L + 1
        <4>1. k \in Activations /\ k \in 0..L
          BY <1>8, <2>1, <2>5, <3>2
        <4>2. /\ PositionAt(k) \in DOMAIN module.code
              /\ BaseAt(k) + RegistersOf(module, OwnerAt(k)) <= Len(registers)
          BY <4>1 DEF IInv, WindowsInBounds
        <4>3. PositionAt(k)' \in DOMAIN module.code
          BY <1>8, <2>6, <2>7, <2>10, <4>1, <4>2
        <4>4. BaseAt(k) + RegistersOf(module, OwnerAt(k)) \in Int
          <5>1. OwnerAt(k) \in 0..Len(module.functions)
            BY <1>3, <4>2 DEF OwnerAt, WellFormed
          <5>2. BaseAt(k) \in Nat
            BY <1>0, <4>1, BaseType
          <5> QED
            BY <1>3, <5>1, <5>2, FunctionFacts
        <4> QED
          BY <2>2, <2>8, <2>11, <4>1, <4>2, <4>3, <4>4
      <3> QED
        BY <3>1, <3>2
    <2>14. ReturnsMatch'
      <3> SUFFICES ASSUME NEW k \in Floor + 1..L + 1
                   PROVE  LET d == call_stack'[k].return_register
                          IN  /\ d = NoRegister <=> ReturnTypeOf(module, OwnerAt(k)') = VoidType
                              /\ d # NoRegister => d < Len(registers')
                              /\ d # NoRegister /\ k - 1 \in Activations' =>
                                   /\ BaseAt(k - 1)' <= d
                                   /\ d < BaseAt(k - 1)' + RegistersOf(module, OwnerAt(k - 1)')
        BY <2>4 DEF ReturnsMatch
      <3>1. CASE k = L + 1
        <4>1. call_stack'[k].return_register = dst
          BY <1>8, <1>12, <3>1 DEF CallFrame
        <4>2. ReturnTypeOf(module, OwnerAt(k)') = f.return_type
          BY <2>11, <2>12, <3>1
        <4>3. dst = NoRegister <=> f.return_type = VoidType
          BY <1>3, <1>4, <1>6, SMTT(30) DEF NoRegister, Instructions, ReturnRegister
        <4>4. base_register + RegistersOf(module, o) <= Len(registers)
          BY <2>1, <2>9, <2>11 DEF IInv, WindowsInBounds
        <4>5. RegistersOf(module, o) \in Nat
          BY <1>3, FunctionFacts
        <4>6. dst # NoRegister => /\ base_register <= dst
                                  /\ dst < base_register + RegistersOf(module, o)
          BY <1>3, <1>4, <1>6, <4>5, SMTT(30) DEF Instructions, ReturnRegister
        <4>7. BaseAt(k - 1)' = base_register /\ OwnerAt(k - 1)' = o
          BY <1>8, <2>8, <2>9, <2>11, <3>1
        <4> HIDE DEF dst
        <4> QED
          BY <1>6, <2>2, <4>1, <4>2, <4>3, <4>4, <4>5, <4>6, <4>7 DEF NoRegister
      <3>2. CASE k # L + 1
        <4>1. k \in Floor + 1..L /\ k \in 0..L /\ k - 1 \in 0..L /\ k \in 1..L
          BY <1>8, <2>1, <3>2
        <4>2. call_stack'[k] = call_stack[k]
          BY <1>8, <1>12, <4>1
        <4>3. k - 1 \in Activations' => k - 1 \in Activations
          BY <1>8, <2>5, <4>1
        <4>4. call_stack[k].return_register \in Nat \cup {NoRegister}
          BY <1>0, <4>1, FrameFields
        <4>5. LET d == call_stack[k].return_register
              IN  /\ d = NoRegister <=> ReturnTypeOf(module, OwnerAt(k)) = VoidType
                  /\ d # NoRegister => d < Len(registers)
                  /\ d # NoRegister /\ k - 1 \in Activations =>
                       /\ BaseAt(k - 1) <= d
                       /\ d < BaseAt(k - 1) + RegistersOf(module, OwnerAt(k - 1))
          BY <1>0, <1>1, <4>1 DEF IInv, ReturnsMatch, At
        <4> QED
          BY <2>2, <2>8, <2>11, <4>1, <4>2, <4>3, <4>4, <4>5
      <3> QED
        BY <3>1, <3>2
    <2>15. StubBelowFirstFrame'
      BY <1>0, <1>8, <1>12, <2>1, <2>4, <2>6 DEF IInv, StubBelowFirstFrame
    <2>16. GuardHolds'
      <3>1. status = "run" => PositionAt(Floor)' \in DOMAIN module.code /\ OwnerAt(Floor)' = 0
        <4>1. Floor \in 0..L /\ Floor' = Floor
          BY <1>8, <2>1, <2>4
        <4>2. PICK n \in 0..L : n = Floor
          BY <4>1
        <4>3. status = "run" => PositionAt(n) \in DOMAIN module.code /\ OwnerAt(n) = 0
          BY <4>2 DEF IInv, GuardHolds
        <4>4. PositionAt(n)' = PositionAt(n) \/ PositionAt(n)' = instruction_pointer + 1
          BY <1>8, <2>6, <2>7
        <4>5. status = "run" => PositionAt(n)' \in DOMAIN module.code /\ OwnerAt(n)' = 0
          BY <2>10, <2>11, <4>3, <4>4
        <4> QED
          BY <4>1, <4>2, <4>5
      <3> QED
        BY <1>8, <2>1, <2>2, <2>4, <3>1 DEF IInv, GuardHolds, At, Running, TypeOK
    <2> QED
      BY <2>3, <2>13, <2>14, <2>15, <2>16 DEF IInv
  <1> QED
    BY <1>9, <1>10, <1>11, <1>12

(* Popping the frame of the running function leaves the levels below as they *)
(* were, for the value and for the void return alike.                        *)
LEMMA PopStep ==
  ASSUME IInv, NEW op \in {"ret", "ret_void"}, At(op), ReturnTo(TopFrame),
         registers' \in Seq(Word), Len(registers') = Len(registers)
  PROVE  IInv'
  <1>0. PICK L \in Nat : L = Len(call_stack)
    BY SequenceIsFunction DEF IInv, TypeOK
  <1>1. op \in Opcode
    BY DEF Opcode
  <1>2. /\ Floor \in Nat /\ Floor <= L
        /\ status = "call" => Floor < L
        /\ L \in Activations
        /\ Floor + 1..L \subseteq Activations
        /\ Activations \subseteq Floor..L
        /\ Running
    BY <1>0, <1>1, TopIsActivation DEF At
  <1>3. Floor < L
    <2>1. module.owner[instruction_pointer] # 0
      BY <1>1, ModuleAt DEF WellFormedInstruction, Instruction
    <2>2. CASE status = "run"
      BY <1>0, <1>2, <2>1, <2>2 DEF IInv, GuardHolds, OwnerAt, PositionAt
    <2> QED
      BY <1>2, <2>2 DEF Running
  <1>4. L - 1 \in Nat /\ L \in 1..L
    BY <1>2, <1>3
  <1>5. /\ TopFrame = call_stack[L]
        /\ TopFrame.return_address \in Int /\ TopFrame.base_register \in Nat
        /\ TopFrame.stack_pointer \in Int
    BY <1>0, <1>4, FrameFields DEF TopFrame
  <1>6. /\ call_stack' \in Seq(CallFrames) /\ Len(call_stack') = L - 1
        /\ \A k \in 1..L - 1 : call_stack'[k] = call_stack[k]
    <2>1. call_stack' = [k \in 1..L - 1 |-> call_stack[k]]
      BY <1>0 DEF ReturnTo, PoppedFrames
    <2>2. \A k \in 1..L - 1 : call_stack[k] \in CallFrames
      BY <1>0, <1>4, FrameFields
    <2>3. call_stack' \in [1..L - 1 -> CallFrames]
      BY <2>1, <2>2
    <2> QED
      BY <1>4, <2>1, <2>3, FunctionIsSequence
  <1>7. /\ base_register' = TopFrame.base_register
        /\ stack_pointer' = TopFrame.stack_pointer
        /\ instruction_pointer' = TopFrame.return_address
        /\ stack' = stack /\ module' = module /\ status' = status
        /\ guard' = guard /\ result' = result
    BY DEF ReturnTo, host
  <1>8. TypeOK'
    BY <1>5, <1>6, <1>7 DEF IInv, TypeOK
  <1>9. \A k \in 0..L - 1 : PositionAt(k)' = PositionAt(k) /\ BaseAt(k)' = BaseAt(k)
    BY <1>0, <1>4, <1>5, <1>6, <1>7 DEF PositionAt, BaseAt
  <1>10. \A k \in 0..L - 1 : OwnerAt(k)' = OwnerAt(k)
    BY <1>7, <1>9 DEF OwnerAt
  <1>11. Running' /\ Floor' = Floor
    BY <1>2, <1>7 DEF Running, Floor
  <1>12. Activations' \subseteq Activations \cap 0..L - 1
    BY <1>0, <1>2, <1>6, <1>7, <1>11 DEF Running, Activations
  <1>13. WindowsInBounds'
    BY <1>7, <1>9, <1>10, <1>12 DEF IInv, WindowsInBounds
  <1>14. ReturnsMatch'
    <2> SUFFICES ASSUME NEW k \in Floor + 1..L - 1
                 PROVE  LET d == call_stack'[k].return_register
                        IN  /\ d = NoRegister <=> ReturnTypeOf(module, OwnerAt(k)') = VoidType
                            /\ d # NoRegister => d < Len(registers')
                            /\ d # NoRegister /\ k - 1 \in Activations' =>
                                 /\ BaseAt(k - 1)' <= d
                                 /\ d < BaseAt(k - 1)' + RegistersOf(module, OwnerAt(k - 1)')
      BY <1>6, <1>7, <1>11 DEF ReturnsMatch
    <2>1. k \in Floor + 1..L /\ k \in 1..L - 1 /\ k \in 0..L - 1 /\ k - 1 \in 0..L - 1
      BY <1>2
    <2>2. LET d == call_stack[k].return_register
          IN  /\ d = NoRegister <=> ReturnTypeOf(module, OwnerAt(k)) = VoidType
              /\ d # NoRegister => d < Len(registers)
              /\ d # NoRegister /\ k - 1 \in Activations =>
                   /\ BaseAt(k - 1) <= d
                   /\ d < BaseAt(k - 1) + RegistersOf(module, OwnerAt(k - 1))
      BY <1>0, <1>2, <2>1 DEF IInv, ReturnsMatch
    <2> QED
      BY <1>6, <1>9, <1>10, <1>12, <2>1, <2>2
  <1>15. StubBelowFirstFrame'
    <2>1. PICK n \in 0..L - 1 : n = Floor
      BY <1>2, <1>3
    <2>2. status = "call" => /\ PositionAt(n) = ExitStub
                             /\ call_stack[n + 1].base_register = guard.base_register
                             /\ call_stack[n + 1].stack_pointer = guard.stack_pointer
                             /\ call_stack[n + 1].return_register = guard.return_register
      BY <1>0, <1>2, <1>3, <2>1 DEF IInv, StubBelowFirstFrame
    <2>3. status = "call" => PositionAt(n)' = ExitStub
      BY <1>9, <2>2
    <2>4. L - 1 > n => call_stack'[n + 1] = call_stack[n + 1]
      BY <1>6
    <2> QED
      BY <1>6, <1>7, <1>11, <2>1, <2>2, <2>3, <2>4 DEF StubBelowFirstFrame
  <1>16. GuardHolds'
    <2>1. PICK n \in 0..L - 1 : n = Floor
      BY <1>2, <1>3
    <2>2. status = "run" => PositionAt(n)' \in DOMAIN module.code /\ OwnerAt(n)' = 0
      BY <1>9, <1>10, <2>1 DEF IInv, GuardHolds
    <2> QED
      BY <1>2, <1>6, <1>7, <1>11, <2>1, <2>2 DEF IInv, GuardHolds
  <1> QED
    BY <1>8, <1>13, <1>14, <1>15, <1>16 DEF IInv

LEMMA ReturnStep == ASSUME IInv, Return PROVE IInv'
  <1>1. /\ At("ret") /\ "ret" \in Opcode /\ "ret" \in UsesLhs
    BY DEF Return, Opcode, UsesLhs
  <1>2. Register(Instruction.lhs) \in Word
    BY <1>1, OperandTypes
  <1>3. CASE call_stack # << >> /\ TopFrame.return_register # NoRegister
    <2>0. PICK L \in Nat : L = Len(call_stack)
      BY SequenceIsFunction DEF IInv, TypeOK
    <2>1. /\ registers' = [registers EXCEPT ![TopFrame.return_register + 1]
                             = Register(Instruction.lhs)]
          /\ ReturnTo(TopFrame)
      BY <1>3 DEF Return
    <2>2. /\ Running /\ L \in Floor + 1..L
      <3>1. /\ Floor \in Nat /\ Floor <= L /\ Running
            /\ status = "call" => Floor < L
        BY <1>1, <2>0, TopIsActivation DEF At
      <3>2. module.owner[instruction_pointer] # 0
        BY <1>1, ModuleAt DEF WellFormedInstruction, Instruction
      <3>3. CASE status = "run"
        BY <2>0, <3>1, <3>2, <3>3 DEF IInv, GuardHolds, OwnerAt, PositionAt
      <3> QED
        BY <3>1, <3>3 DEF Running
    <2>3. call_stack[L].return_register < Len(registers)
      BY <1>3, <2>0, <2>2 DEF IInv, ReturnsMatch, TopFrame
    <2>4. L \in 1..L
      BY <2>2, TopIsActivation, <1>1
    <2>5. TopFrame.return_register + 1 \in 1..Len(registers) /\ registers \in Seq(Word)
      <3>1. Len(registers) \in Nat /\ registers \in Seq(Word)
        BY SequenceIsFunction DEF IInv, TypeOK
      <3>2. TopFrame.return_register \in Nat
        BY <1>3, <2>0, <2>4, FrameFields DEF TopFrame
      <3> QED
        BY <2>0, <2>3, <3>1, <3>2 DEF TopFrame
    <2>6. registers' \in Seq(Word) /\ Len(registers') = Len(registers)
      BY <1>2, <2>1, <2>5, UpdatedSequence
    <2> QED
      BY <1>1, <2>1, <2>6, PopStep
  <1>4. CASE ~(call_stack # << >> /\ TopFrame.return_register # NoRegister)
    BY <1>4, UndefinedStep DEF Return
  <1> QED
    BY <1>3, <1>4

LEMMA ReturnVoidStep == ASSUME IInv, ReturnVoid PROVE IInv'
  <1>1. CASE call_stack # << >>
    <2>1. At("ret_void") /\ ReturnTo(TopFrame) /\ registers' = registers
      BY <1>1 DEF ReturnVoid
    <2>2. registers' \in Seq(Word) /\ Len(registers') = Len(registers)
      BY <2>1 DEF IInv, TypeOK
    <2> QED
      BY <2>1, <2>2, PopStep
  <1>2. CASE ~(call_stack # << >>)
    BY <1>2, UndefinedStep DEF ReturnVoid
  <1> QED
    BY <1>1, <1>2

(* The frames the host had are a prefix of the call stack. *)
LEMMA CallersFramesType ==
  ASSUME IInv, Running
  PROVE  CallersFrames \in Seq(CallFrames) /\ Len(CallersFrames) = Floor
  <1>0. PICK L \in Nat : L = Len(call_stack)
    BY SequenceIsFunction DEF IInv, TypeOK
  <1>1. Floor \in Nat /\ Floor <= L
    BY <1>0 DEF IInv, TypeOK, GuardHolds, Floor
  <1>2. \A k \in 1..Floor : call_stack[k] \in CallFrames
    BY <1>0, <1>1, FrameFields
  <1>3. CallersFrames \in [1..Floor -> CallFrames]
    BY <1>2 DEF CallersFrames, Floor
  <1> QED
    BY <1>1, <1>3, FunctionIsSequence

GuardType == [instruction_pointer : Int, base_register : Nat, stack_pointer : Int,
              call_stack_size : Nat, return_register : Nat \cup {NoRegister},
              function : Nat, arguments : HostArguments \cup {<< >>}]

LEMMA NoGuardType == NoGuard \in GuardType
  BY DEF NoGuard, GuardType, NoPosition

LEMMA FinishRunStep == ASSUME IInv, FinishRun PROVE IInv'
  <1>1. Result("exited", 0) \in [kind : ResultKind, value : Int]
    BY DEF Result, ResultKind
  <1>2. TypeOK'
    BY <1>1, NoGuardType DEF IInv, TypeOK, FinishRun, Advance, GuardType
  <1> QED
    BY <1>2, IdleStep DEF FinishRun

LEMMA FinishCallStep == ASSUME IInv, FinishCall PROVE IInv'
  <1>1. result' \in [kind : ResultKind, value : Int]
    <2>1. CASE guard.return_register = NoRegister
      BY <2>1 DEF FinishCall, Result, ResultKind
    <2>2. CASE guard.return_register # NoRegister
      <3> DEFINE type == module.functions[guard.function].return_type
                 w == registers[guard.return_register + 1]
      <3>1. /\ guard.return_register < Len(registers)
            /\ guard.function \in DOMAIN module.functions
            /\ type # VoidType
            /\ module \in Modules
        BY <2>2 DEF FinishCall, IInv, GuardHolds, Running
      <3>2. module.functions \in Seq(FunctionEntries)
        BY <3>1, VirtualMachineAssumption DEF WellFormed, ModuleRecords
      <3>3. type \in Size \cup {BoolType}
        <4>1. module.functions[guard.function] \in FunctionEntries
          BY <3>1, <3>2, SequenceIsFunction
        <4>2. type \in ScalarType
          BY <4>1 DEF FunctionEntries
        <4> QED
          BY <3>1, <4>2 DEF ScalarType
      <3>4. w \in Int
        <4>1. registers \in Seq(Word) /\ guard.return_register \in Nat
          BY <2>2 DEF IInv, TypeOK
        <4>2. w \in Word
          BY <3>1, <4>1, SequenceIsFunction
        <4> QED
          BY <4>2, WordModulusType DEF Word
      <3> HIDE DEF w, type
      <3>5. Decoded(type, w) \in Int
        BY <3>3, <3>4, SignedType DEF Decoded
      <3>6. result' = Result("value", Decoded(type, w))
        BY <2>2 DEF FinishCall, w, type
      <3> QED
        BY <3>5, <3>6 DEF Result, ResultKind
    <2> QED
      BY <2>1, <2>2
  <1>2. CallersFrames \in Seq(CallFrames)
    BY CallersFramesType DEF FinishCall, Running
  <1>3. TypeOK'
    BY <1>1, <1>2, NoGuardType DEF IInv, TypeOK, FinishCall, RestoreHost, GuardType
  <1> QED
    BY <1>3, IdleStep DEF FinishCall

----------------------------------------------------------------------------
(* The host's operations. *)

LEMMA LoadModuleStep ==
  ASSUME IInv, NEW m \in Modules, LoadModule(m)
  PROVE  IInv'
  <1>1. TypeOK'
    BY DEF IInv, TypeOK, LoadModule, Result, ResultKind
  <1> QED
    BY <1>1, IdleStep DEF LoadModule

LEMMA RefuseCallStep ==
  ASSUME IInv, NEW f \in Nat, NEW arguments \in HostArguments, RefuseCall(f, arguments)
  PROVE  IInv'
  <1>1. Refusal(f, arguments) \in {"unknown_function", "argument_count", "argument_type",
                                  "none"}
    BY DEF Refusal
  <1>2. result' \in [kind : ResultKind, value : Int]
    BY <1>1 DEF RefuseCall, Result, ResultKind
  <1>3. TypeOK'
    BY <1>2 DEF IInv, TypeOK, RefuseCall, machine
  <1> QED
    BY <1>3, IdleStep DEF RefuseCall

LEMMA LoadedModule ==
  ASSUME IInv, module # NoModule
  PROVE  module \in Modules /\ WellFormed(module)
  BY VirtualMachineAssumption DEF IInv, TypeOK

LEMMA RunStep == ASSUME IInv, Run PROVE IInv'
  <1>0. PICK L \in Nat : L = Len(call_stack)
    BY SequenceIsFunction DEF IInv, TypeOK
  <1>1. module \in Modules /\ WellFormed(module)
    BY LoadedModule DEF Run, NoModule
  <1>2. /\ base_register \in Nat /\ module.top_level_registers \in Nat
    BY <1>1 DEF IInv, TypeOK, WellFormed, ModuleRecords
  <1>3. /\ registers' \in Seq(Word)
        /\ Len(registers') >= base_register + module.top_level_registers
    BY <1>2, GrownType DEF Run
  <1>4. guard' = [NoGuard EXCEPT !.call_stack_size = L] /\ guard' \in GuardType
    BY <1>0, NoGuardType DEF Run, GuardType
  <1>5. Floor' = L
    BY <1>4 DEF Floor, NoGuard
  <1>6. TypeOK'
    BY <1>3, <1>4 DEF IInv, TypeOK, Run, Result, ResultKind, GuardType
  <1>7. /\ status' = "run" /\ Activations' = {L} /\ Running' /\ Len(call_stack') = L
    BY <1>0, <1>5 DEF Run, Activations, Running
  <1>8. /\ PositionAt(L)' = instruction_pointer /\ BaseAt(L)' = base_register
        /\ OwnerAt(L)' = 0
    BY <1>0 DEF Run, PositionAt, BaseAt, OwnerAt
  <1>9. /\ module' = module /\ instruction_pointer \in DOMAIN module.code
        /\ module.owner[instruction_pointer] = 0
    BY DEF Run
  <1>10. WindowsInBounds'
    BY <1>3, <1>7, <1>8, <1>9 DEF WindowsInBounds, RegistersOf
  <1>11. ReturnsMatch' /\ StubBelowFirstFrame'
    BY <1>0, <1>5, <1>7 DEF ReturnsMatch, StubBelowFirstFrame
  <1>12. GuardHolds'
    BY <1>0, <1>1, <1>5, <1>7, <1>8, <1>9 DEF GuardHolds
  <1> QED
    BY <1>6, <1>10, <1>11, <1>12 DEF IInv

(* A call that fails shows only in the register file and the result. *)
LEMMA FailCallStep ==
  ASSUME IInv, NEW kind \in ResultKind, NEW file \in Seq(Word), FailCall(kind, file),
         status = "idle"
  PROVE  IInv'
  <1>1. TypeOK'
    BY DEF IInv, TypeOK, FailCall, Result
  <1> QED
    BY <1>1, IdleStep DEF FailCall

(* Marshalling the arguments before a parameter of no type leaves words. *)
LEMMA WithArgumentsType ==
  ASSUME NEW window \in Seq(Word), NEW arguments, NEW n \in Nat,
         \A k \in 1..n : /\ arguments[k].type \in Size \cup {BoolType}
                         /\ arguments[k].value \in Int
  PROVE  /\ WithArguments(window, arguments, n) \in Seq(Word)
         /\ Len(WithArguments(window, arguments, n)) = Len(window)
  <1>1. /\ Len(window) \in Nat /\ DOMAIN window = 1..Len(window)
        /\ \A k \in 1..Len(window) : window[k] \in Word
    BY SequenceIsFunction
  <1>2. ASSUME NEW k \in 1..Len(window), k <= n
        PROVE  Marshalled(arguments[k]) \in Word
    <2>1. k \in 1..n
      BY <1>1, <1>2
    <2>2. arguments[k].type \in Size \cup {BoolType} /\ arguments[k].value \in Int
      BY <2>1
    <2>3. CASE arguments[k].type = BoolType
      <3>1. 0 \in Word /\ 1 \in Word
        <4>1. WordModulus \in Nat \ {0} /\ WordModulus % 4 = 0
          BY WordModulusType, WordsAssumption DEF WordModulus
        <4>2. 1 % 4 = 1
          OBVIOUS
        <4>3. WordModulus > 1
          BY <4>1, <4>2
        <4> QED
          BY <4>1, <4>3 DEF Word
      <3> QED
        BY <2>3, <3>1 DEF Marshalled
    <2>4. CASE arguments[k].type # BoolType
      BY <2>2, <2>4, ExtendedType DEF Marshalled
    <2> QED
      BY <2>3, <2>4
  <1>3. WithArguments(window, arguments, n) \in [1..Len(window) -> Word]
    BY <1>1, <1>2 DEF WithArguments
  <1> QED
    BY <1>1, <1>3, FunctionIsSequence

LEMMA CallStep ==
  ASSUME IInv, NEW f \in Nat, NEW arguments \in HostArguments, Call(f, arguments)
  PROVE  IInv'
  <1> DEFINE entry == module.functions[f]
             n == Len(arguments)
             size == IF n > entry.register_count THEN n ELSE entry.register_count
             window == Grown(size)
             void == {k \in 1..n : arguments[k].type = VoidType}
             file == WithArguments(window, arguments, n)
             slot == Len(window)
             returns == entry.return_type # VoidType
             full == IF returns THEN Append(file, 0) ELSE file
             dst == IF returns THEN slot ELSE NoRegister
             frame == CallFrame(ExitStub, base_register, stack_pointer, dst)
  <1>0. PICK L \in Nat : L = Len(call_stack)
    BY SequenceIsFunction DEF IInv, TypeOK
  <1>1. /\ status = "idle" /\ module \in Modules /\ WellFormed(module)
        /\ f \in DOMAIN module.functions
    <2>1. f \in DOMAIN module.functions
      BY DEF Call, Refusal
    <2> QED
      BY <2>1, LoadedModule DEF Call
  <1>2. /\ entry \in FunctionEntries /\ f # 0
        /\ entry.position \in DOMAIN module.code /\ entry.position \in Nat
        /\ module.owner[entry.position] = f
        /\ entry.register_count \in Nat
    <2>1. module.functions \in Seq(FunctionEntries) /\ module.code \in Seq(Instructions)
      BY <1>1 DEF WellFormed, ModuleRecords
    <2>2. entry \in FunctionEntries /\ f # 0
      BY <1>1, <2>1, SequenceIsFunction
    <2>3. entry.position \in DOMAIN module.code /\ module.owner[entry.position] = f
      BY <1>1 DEF WellFormed
    <2>4. entry.register_count \in Nat
      BY <2>2 DEF FunctionEntries
    <2> QED
      BY <2>1, <2>2, <2>3, <2>4, SequenceIsFunction
  <1>3. /\ n \in Nat
        /\ \A k \in 1..n : /\ arguments[k].type \in ScalarType
                            /\ arguments[k].value \in Int
    <2>1. arguments \in Seq([type : ScalarType, value : Int])
      BY VirtualMachineAssumption
    <2>2. n \in Nat /\ \A k \in 1..n : arguments[k] \in [type : ScalarType, value : Int]
      BY <2>1, SequenceIsFunction
    <2> QED
      BY <2>2
  <1>4. size \in Nat
    <2> HIDE DEF n
    <2> QED BY <1>2, <1>3
  <1>5. /\ window \in Seq(Word) /\ slot \in Nat /\ slot >= size
        /\ slot >= Len(registers)
    <2> HIDE DEF size
    <2> QED BY <1>4, GrownType
  <1>6. size >= entry.register_count /\ size >= n
    <2> HIDE DEF n
    <2> QED BY <1>2, <1>3
  <1>7. ASSUME NEW k \in void, \A j \in void : k <= j
        PROVE  WithArguments(window, arguments, k - 1) \in Seq(Word)
    <2>1. k \in 1..n /\ k - 1 \in Nat
      BY <1>3
    <2>2. \A j \in 1..k - 1 : /\ arguments[j].type \in Size \cup {BoolType}
                              /\ arguments[j].value \in Int
      <3> SUFFICES ASSUME NEW j \in 1..k - 1
                   PROVE  /\ arguments[j].type \in Size \cup {BoolType}
                          /\ arguments[j].value \in Int
        OBVIOUS
      <3>1. j \in 1..n /\ j < k
        BY <1>3, <2>1
      <3>2. j \notin void
        BY <1>7, <2>1, <3>1
      <3> QED
        BY <1>3, <3>1, <3>2 DEF ScalarType
    <2> HIDE DEF window
    <2> QED
      BY <1>5, <2>1, <2>2, WithArgumentsType
  <1>8. ASSUME void = {}
        PROVE  /\ file \in Seq(Word) /\ full \in Seq(Word)
               /\ Len(full) \in Nat
               /\ Len(full) = IF returns THEN slot + 1 ELSE slot
    <2>1. \A k \in 1..n : /\ arguments[k].type \in Size \cup {BoolType}
                          /\ arguments[k].value \in Int
      BY <1>3, <1>8 DEF ScalarType
    <2>2. file \in Seq(Word) /\ Len(file) = slot
      <3> HIDE DEF window, n
      <3> QED BY <1>3, <1>5, <2>1, WithArgumentsType
    <2>3. 0 \in Word
      BY WordModulusType DEF Word
    <2>4. Append(file, 0) \in Seq(Word) /\ Len(Append(file, 0)) = slot + 1
      <3> HIDE DEF file, slot
      <3> QED BY <2>2, <2>3
    <2> HIDE DEF file, slot
    <2> QED
      BY <1>5, <2>2, <2>4
  <1>9. \/ FailCall("exception", registers)
        \/ \E k \in void : /\ \A j \in void : k <= j
                           /\ FailCall("unsupported_argument",
                                       WithArguments(window, arguments, k - 1))
        \/ void = {} /\ FailCall("exception", file)
        \/ void = {} /\ FailCall("exception", full)
        \/ /\ void = {}
           /\ registers' = full
           /\ call_stack' = Append(call_stack, frame)
           /\ base_register' = 0
           /\ instruction_pointer' = entry.position
           /\ status' = "call"
           /\ guard' = [instruction_pointer |-> instruction_pointer,
                        base_register |-> base_register,
                        stack_pointer |-> stack_pointer,
                        call_stack_size |-> Len(call_stack),
                        return_register |-> dst,
                        function |-> f,
                        arguments |-> arguments]
           /\ result' = Result("none", 0)
           /\ UNCHANGED <<module, stack, stack_pointer>>
    BY Zenon DEF Call
  <1>10. {"exception", "unsupported_argument"} \subseteq ResultKind
    BY DEF ResultKind
  <1>11. CASE FailCall("exception", registers)
    BY <1>1, <1>10, <1>11, FailCallStep DEF IInv, TypeOK
  <1>12. CASE \E k \in void : /\ \A j \in void : k <= j
                             /\ FailCall("unsupported_argument",
                                         WithArguments(window, arguments, k - 1))
    <2> HIDE DEF void, window
    <2> QED BY <1>1, <1>7, <1>10, <1>12, FailCallStep
  <1>13. CASE void = {} /\ (FailCall("exception", file) \/ FailCall("exception", full))
    <2> HIDE DEF void, file, full
    <2> QED BY <1>1, <1>8, <1>10, <1>13, FailCallStep
  <1>14. CASE /\ void = {}
              /\ registers' = full
              /\ call_stack' = Append(call_stack, frame)
              /\ base_register' = 0
              /\ instruction_pointer' = entry.position
              /\ status' = "call"
              /\ guard' = [instruction_pointer |-> instruction_pointer,
                           base_register |-> base_register,
                           stack_pointer |-> stack_pointer,
                           call_stack_size |-> Len(call_stack),
                           return_register |-> dst,
                           function |-> f,
                           arguments |-> arguments]
              /\ result' = Result("none", 0)
              /\ UNCHANGED <<module, stack, stack_pointer>>
    <2>1. dst \in Nat \cup {NoRegister} /\ (dst = NoRegister <=> entry.return_type = VoidType)
          /\ (dst # NoRegister => dst = slot)
      <3> HIDE DEF slot
      <3> QED BY <1>5 DEF NoRegister
    <2>2. /\ base_register \in Nat /\ stack_pointer \in Int
          /\ instruction_pointer \in Int
      BY DEF IInv, TypeOK
    <2>3. frame \in CallFrames
      <3> HIDE DEF dst
      <3> QED BY <2>1, <2>2 DEF CallFrame, CallFrames, ExitStub
    <2>4. /\ call_stack' \in Seq(CallFrames) /\ Len(call_stack') = L + 1
          /\ call_stack'[L + 1] = frame
      <3> HIDE DEF frame
      <3> QED BY <1>0, <1>14, <2>3, PushedFrames
    <2>5. /\ registers' \in Seq(Word) /\ Len(registers') \in Nat
          /\ Len(registers') = IF returns THEN slot + 1 ELSE slot
      BY <1>8, <1>14
    <2>6. guard' \in GuardType
      <3> HIDE DEF dst
      <3> QED BY <1>0, <1>14, <2>1, <2>2 DEF GuardType
    <2>7. /\ Floor' = L /\ guard'.base_register = base_register
          /\ guard'.stack_pointer = stack_pointer /\ guard'.return_register = dst
          /\ guard'.function = f
      <3> HIDE DEF dst
      <3> QED BY <1>0, <1>14 DEF Floor
    <2>8. /\ status' = "call" /\ instruction_pointer' = entry.position /\ base_register' = 0
          /\ module' = module /\ stack' = stack /\ stack_pointer' = stack_pointer
          /\ result' = Result("none", 0)
      BY <1>14
    <2>9. frame.base_register = base_register /\ frame.stack_pointer = stack_pointer
          /\ frame.return_register = dst /\ frame.return_address = ExitStub
      <3> HIDE DEF dst
      <3> QED BY DEF CallFrame
    <2> HIDE DEF frame, dst
    <2>10. TypeOK'
      BY <1>2, <2>4, <2>5, <2>6, <2>8, SMTT(30) DEF IInv, TypeOK, Result, ResultKind, GuardType
    <2>11. Activations' = {L + 1} /\ Running'
      BY <2>4, <2>7, <2>8 DEF Activations, Running
    <2>12. /\ PositionAt(L + 1)' = entry.position /\ BaseAt(L + 1)' = 0
           /\ OwnerAt(L + 1)' = f
      <3>1. \A k : k = L + 1 => /\ PositionAt(k)' = entry.position /\ BaseAt(k)' = 0
                               /\ OwnerAt(k)' = f
        BY <1>2, <2>4, <2>8 DEF PositionAt, BaseAt, OwnerAt
      <3> QED
        BY <3>1
    <2>13. PositionAt(L)' = ExitStub
      BY <2>4, <2>9 DEF PositionAt
    <2>14. RegistersOf(module, f) = entry.register_count
           /\ ReturnTypeOf(module, f) = entry.return_type
      BY <1>2 DEF RegistersOf, ReturnTypeOf
    <2>15. Len(registers') >= entry.register_count /\ (dst # NoRegister => dst < Len(registers'))
      <3> HIDE DEF slot, size, entry
      <3> QED BY <1>2, <1>4, <1>5, <1>6, <2>1, <2>5
    <2>16. WindowsInBounds'
      BY <1>2, <2>8, <2>11, <2>12, <2>14, <2>15 DEF WindowsInBounds
    <2>17. ReturnsMatch'
      <3>1. \A k \in Floor' + 1..Len(call_stack') : k = L + 1 /\ k - 1 = L
        BY <2>4, <2>7
      <3>2. L \notin Activations'
        BY <2>11
      <3> QED
        BY <2>1, <2>4, <2>8, <2>9, <2>12, <2>14, <2>15, <3>1, <3>2 DEF ReturnsMatch
    <2>18. StubBelowFirstFrame'
      BY <2>4, <2>7, <2>9, <2>13 DEF StubBelowFirstFrame
    <2>19. GuardHolds'
      BY <1>1, <2>1, <2>4, <2>7, <2>8, <2>15 DEF GuardHolds
    <2> QED
      BY <2>10, <2>16, <2>17, <2>18, <2>19 DEF IInv
  <1> QED
    BY <1>9, <1>11, <1>12, <1>13, <1>14

----------------------------------------------------------------------------
(* The invariant and what follows from it. *)

LEMMA InitHolds == Init => IInv
  <1> SUFFICES ASSUME Init PROVE IInv
    OBVIOUS
  <1>1. stack \in [0..StackSize - 1 -> Byte]
    BY WordsAssumption DEF Init, Byte
  <1>2. StackSize \in Int
    BY VirtualMachineAssumption
  <1>3. TypeOK
    BY <1>1, <1>2, NoGuardType
       DEF Init, TypeOK, NoPosition, Result, ResultKind, GuardType
  <1> QED
    BY <1>3 DEF Init, IInv, WindowsInBounds, ReturnsMatch, StubBelowFirstFrame, GuardHolds,
       Running, Activations

LEMMA StepKeeps == ASSUME IInv, Step PROVE IInv'
  BY MovImmediateStep, MovStep, LookupConstantStep, MovStackPointerStep, UnaryStep, BinaryStep,
     AllocaStep, LoadStep, StoreStep, LoadStackPointerStep, StoreStackPointerStep, JumpStep,
     CallFunctionStep, ReturnStep, ReturnVoidStep, FinishRunStep, FinishCallStep DEF Step

LEMMA HostKeeps == ASSUME IInv, Host PROVE IInv'
  <1>1. CASE \E m \in Modules : LoadModule(m)
    BY <1>1, LoadModuleStep
  <1>2. CASE Run
    BY <1>2, RunStep
  <1>3. CASE \E f \in 0..Len(module.functions), arguments \in HostArguments :
               RefuseCall(f, arguments) \/ Call(f, arguments)
    <2>1. PICK f \in 0..Len(module.functions), arguments \in HostArguments :
            RefuseCall(f, arguments) \/ Call(f, arguments)
      BY <1>3
    <2>2. f \in Nat
      OBVIOUS
    <2> QED
      BY <2>1, <2>2, RefuseCallStep, CallStep
  <1> QED
    BY <1>1, <1>2, <1>3 DEF Host

LEMMA StutterKeeps == ASSUME IInv, UNCHANGED vars PROVE IInv'
  BY DEF IInv, TypeOK, WindowsInBounds, ReturnsMatch, StubBelowFirstFrame, GuardHolds,
     Running, Activations, PositionAt, BaseAt, OwnerAt, Floor, vars, machine, host

(* Every reachable state satisfies the inductive invariant. *)
THEOREM Invariance == Spec => []IInv
  <1>1. Init => IInv
    BY InitHolds
  <1>2. IInv /\ [Next]_vars => IInv'
    BY StepKeeps, HostKeeps, StutterKeeps DEF Next
  <1> QED
    BY <1>1, <1>2, PTL DEF Spec

(* The variables keep their types. *)
THEOREM TypeCorrect == Spec => []TypeOK
  <1>1. IInv => TypeOK
    BY DEF IInv
  <1> QED
    BY <1>1, Invariance, PTL

(* relative_register never leaves the register file: at every level of the   *)
(* call stack the whole window of the function there is inside it.           *)
THEOREM WindowsStayInBounds == Spec => []WindowsInBounds
  <1>1. IInv => WindowsInBounds
    BY DEF IInv
  <1> QED
    BY <1>1, Invariance, PTL

(* The assert of run_ret cannot fail, and every return register lies in its  *)
(* caller's window.                                                          *)
THEOREM ReturnsAlwaysMatch == Spec => []ReturnsMatch
  <1>1. IInv => ReturnsMatch
    BY DEF IInv
  <1> QED
    BY <1>1, Invariance, PTL

(* call()'s stub is reached exactly by popping call()'s own frame. *)
THEOREM StubIsBottom == Spec => []StubBelowFirstFrame
  <1>1. IInv => StubBelowFirstFrame
    BY DEF IInv
  <1> QED
    BY <1>1, Invariance, PTL

----------------------------------------------------------------------------
(* What the host sees of the machine does not change under a call().         *)

(* The ways a step treats the frames of the host. *)
LEMMA StepShapes ==
  ASSUME Step
  PROVE  \/ UNCHANGED <<call_stack, status, guard>>
         \/ BecomeUndefined
         \/ \E frames, base : Throw(frames, base)
         \/ /\ CallFunction
            /\ \E frame : call_stack' = Append(call_stack, frame)
            /\ UNCHANGED <<status, guard>>
         \/ Return /\ ReturnTo(TopFrame)
         \/ ReturnVoid /\ ReturnTo(TopFrame)
         \/ FinishRun
         \/ FinishCall
  <1>1. ASSUME NEW v, Assign(v)
        PROVE  UNCHANGED <<call_stack, status, guard>>
    BY <1>1 DEF Assign, host
  <1>2. ASSUME NEW memory, NEW address, LoadFrom(memory, address)
        PROVE  UNCHANGED <<call_stack, status, guard>> \/ BecomeUndefined
    BY <1>1, <1>2 DEF LoadFrom
  <1>3. ASSUME NEW address, StoreTo(address)
        PROVE  UNCHANGED <<call_stack, status, guard>> \/ BecomeUndefined
    BY <1>3 DEF StoreTo, host
  <1>4. CASE MovImmediate \/ Mov \/ LookupConstant \/ MovStackPointer \/ Unary
    BY <1>1, <1>4 DEF MovImmediate, Mov, LookupConstant, MovStackPointer, Unary
  <1>5. CASE Binary
    BY <1>1, <1>5 DEF Binary
  <1>6. CASE AllocaImmediate \/ Alloca \/ Jump \/ JumpNonZero
    BY <1>6 DEF AllocaImmediate, Alloca, Jump, JumpNonZero, host
  <1>7. CASE Load
    <2>1. \/ \E memory, address : LoadFrom(memory, address)
          \/ \E frames, base : Throw(frames, base)
      BY <1>7 DEF Load
    <2> QED
      BY <1>2, <2>1
  <1>8. CASE Store
    <2>1. \/ \E address : StoreTo(address)
          \/ \E frames, base : Throw(frames, base)
      BY <1>8 DEF Store
    <2> QED
      BY <1>3, <2>1
  <1>9. CASE LoadStackPointer \/ StoreStackPointer
    BY <1>2, <1>3, <1>9 DEF LoadStackPointer, StoreStackPointer
  <1>10. CASE CallFunction
    <2>1. \/ \E frames, base : Throw(frames, base)
          \/ /\ \E frame : call_stack' = Append(call_stack, frame)
             /\ UNCHANGED host
      BY <1>10 DEF CallFunction
    <2> QED
      BY <1>10, <2>1 DEF host
  <1>11. CASE Return \/ ReturnVoid
    BY <1>11 DEF Return, ReturnVoid
  <1> QED
    BY <1>4, <1>5, <1>6, <1>7, <1>8, <1>9, <1>10, <1>11 DEF Step

(* A step inside a call() that keeps the frames up to Floor keeps the view. *)
LEMMA PrefixKeepsView ==
  ASSUME status = "call", status' = "call", guard' = guard,
         \A k \in 1..Floor : call_stack'[k] = call_stack[k]
  PROVE  HostView' = HostView
  <1>1. CallersFrames' = CallersFrames
    BY DEF CallersFrames, Floor
  <1> QED
    BY <1>1 DEF HostView

(* Whatever ends a call() restores the host's machine. *)
LEMMA RestoredView ==
  ASSUME status = "call", status' = "idle", RestoreHost
  PROVE  HostView' = HostView
  BY DEF HostView, RestoreHost

LEMMA StepKeepsView ==
  ASSUME IInv, Step, status = "call", status' # "undefined"
  PROVE  HostView' = HostView
  <1>0. PICK L \in Nat : L = Len(call_stack)
    BY SequenceIsFunction DEF IInv, TypeOK
  <1>1. Floor \in Nat /\ Floor <= L
    BY <1>0 DEF IInv, TypeOK, GuardHolds, Running, Floor
  <1>2. CASE UNCHANGED <<call_stack, status, guard>>
    BY <1>2, PrefixKeepsView
  <1>3. CASE BecomeUndefined
    BY <1>3 DEF BecomeUndefined
  <1>4. CASE \E frames, base : Throw(frames, base)
    BY <1>4, RestoredView DEF Throw
  <1>5. CASE /\ CallFunction
             /\ \E frame : call_stack' = Append(call_stack, frame)
             /\ UNCHANGED <<status, guard>>
    <2>1. PICK frame : call_stack' = Append(call_stack, frame)
      BY <1>5
    <2>2. call_stack \in Seq(CallFrames)
      BY DEF IInv, TypeOK
    <2>3. \A k \in 1..L : call_stack'[k] = call_stack[k]
      BY <1>0, <2>1, <2>2
    <2>4. \A k \in 1..Floor : call_stack'[k] = call_stack[k]
      BY <1>1, <2>3
    <2>5. status' = "call" /\ guard' = guard
      BY <1>5
    <2> QED
      BY <2>4, <2>5, PrefixKeepsView
  <1>6. CASE (Return \/ ReturnVoid) /\ ReturnTo(TopFrame)
    <2>1. PICK op \in {"ret", "ret_void"} : At(op)
      BY <1>6 DEF Return, ReturnVoid
    <2>2. Floor < L
      BY <1>0, <2>1, TopIsActivation DEF Opcode
    <2>3. call_stack' = [k \in 1..L - 1 |-> call_stack[k]] /\ UNCHANGED <<status, guard>>
      BY <1>0, <1>6 DEF ReturnTo, PoppedFrames, host
    <2>4. \A k \in 1..Floor : call_stack'[k] = call_stack[k]
      BY <1>1, <2>2, <2>3
    <2> QED
      BY <2>3, <2>4, PrefixKeepsView
  <1>7. CASE FinishRun
    BY <1>7 DEF FinishRun
  <1>8. CASE FinishCall
    BY <1>8, RestoredView DEF FinishCall
  <1> QED
    BY <1>2, <1>3, <1>4, <1>5, <1>6, <1>7, <1>8, StepShapes

(* Entering a call() saves exactly the view. *)
LEMMA CallKeepsView ==
  ASSUME IInv, NEW f, NEW arguments, Call(f, arguments), status' = "call"
  PROVE  HostView' = HostView
  <1>0. PICK L \in Nat : L = Len(call_stack)
    BY SequenceIsFunction DEF IInv, TypeOK
  <1>1. \/ \E kind, file : FailCall(kind, file)
        \/ /\ \E frame : call_stack' = Append(call_stack, frame)
           /\ guard'.instruction_pointer = instruction_pointer
           /\ guard'.base_register = base_register
           /\ guard'.stack_pointer = stack_pointer
           /\ guard'.call_stack_size = Len(call_stack)
    BY DEF Call
  <1>2. status = "idle"
    BY DEF Call
  <1>3. ~ \E kind, file : FailCall(kind, file)
    BY <1>2 DEF FailCall
  <1>4. PICK frame : call_stack' = Append(call_stack, frame)
    BY <1>1, <1>3
  <1>5. call_stack \in Seq(CallFrames)
    BY DEF IInv, TypeOK
  <1>6. CallersFrames' = [k \in 1..L |-> call_stack'[k]]
    BY <1>0, <1>1, <1>3 DEF CallersFrames
  <1>7. \A k \in 1..L : call_stack'[k] = call_stack[k]
    BY <1>0, <1>4, <1>5
  <1>8. call_stack = [k \in 1..L |-> call_stack[k]]
    BY <1>0, <1>5
  <1>9. CallersFrames' = call_stack
    BY <1>6, <1>7, <1>8
  <1> QED
    BY <1>1, <1>2, <1>3, <1>9 DEF HostView

(* A call() leaves the host's instruction pointer, window, stack pointer and *)
(* frames as they were, however it ends.                                     *)
THEOREM HostIsUntouched == Spec => CallsHideTheirFrames
  <1> DEFINE A == "call" \in {status, status'} /\ status' # "undefined" => HostView' = HostView
  <1>1. IInv /\ [Next]_vars => [A]_vars
    <2> SUFFICES ASSUME IInv, Next, "call" \in {status, status'}, status' # "undefined"
                 PROVE  HostView' = HostView
      OBVIOUS
    <2>1. CASE Step
      <3>1. CASE status = "call"
        BY <2>1, <3>1, StepKeepsView
      <3>2. CASE status # "call" /\ status' = "call"
        <4>1. Running
          BY <2>1 DEF Step, MovImmediate, Mov, LookupConstant, MovStackPointer, Unary, Binary,
             AllocaImmediate, Alloca, Load, Store, LoadStackPointer, StoreStackPointer, Jump,
             JumpNonZero, CallFunction, Return, ReturnVoid, FinishRun, FinishCall, At, Running
        <4> QED
          BY <2>1, <3>2, StepShapes DEF Throw, BecomeUndefined, ReturnTo, host, FinishRun,
             FinishCall
      <3> QED
        BY <3>1, <3>2
    <2>2. CASE Host
      <3>1. status = "idle"
        BY <2>2, SMTT(30) DEF Host, LoadModule, Run, RefuseCall, Call
      <3>2. PICK f, arguments : Call(f, arguments)
        BY <2>2, <3>1 DEF Host, LoadModule, Run, RefuseCall
      <3> QED
        BY <3>1, <3>2, CallKeepsView
    <2> QED
      BY <2>1, <2>2 DEF Next
  <1> QED
    BY <1>1, Invariance, PTL DEF Spec, CallsHideTheirFrames

----------------------------------------------------------------------------
(* VirtualMachine implements CallDiscipline, for every set of well-formed    *)
(* modules, every word size and every memory limit: whatever the activations *)
(* of a run() or call() do, their windows are private.                       *)

----------------------------------------------------------------------------
(* Pieces of a sequence: those after the m-th element up to the n-th.        *)

LEMMA Slice ==
  ASSUME NEW S, NEW s \in Seq(S), NEW m \in Nat, NEW n \in Nat, m <= n, n <= Len(s)
  PROVE  /\ SubSeq(s, m + 1, n) \in Seq(S)
         /\ Len(SubSeq(s, m + 1, n)) = n - m
         /\ \A i \in 1..n - m : SubSeq(s, m + 1, n)[i] = s[m + i]
  <1>1. Len(s) \in Nat /\ \A i \in m + 1..n : s[i] \in S
    BY LenProperties, ElementOfSeq
  <1>2. /\ SubSeq(s, m + 1, n) \in Seq(S)
        /\ Len(SubSeq(s, m + 1, n)) = IF m + 1 <= n THEN n - (m + 1) + 1 ELSE 0
        /\ \A i \in 1..n - (m + 1) + 1 : SubSeq(s, m + 1, n)[i] = s[m + 1 + i - 1]
    BY <1>1, SubSeqProperties
  <1>3. /\ n - (m + 1) + 1 = n - m /\ (m + 1 <= n <=> n - m > 0) /\ (n - m > 0 \/ n - m = 0)
        /\ \A i \in 1..n - m : m + 1 + i - 1 = m + i
    OBVIOUS
  <1> QED
    BY <1>2, <1>3

LEMMA SliceIs ==
  ASSUME NEW S, NEW s \in Seq(S), NEW m \in Nat, NEW n \in Nat, m <= n, n <= Len(s),
         NEW t \in Seq(S), Len(t) = n - m, \A i \in 1..n - m : t[i] = s[m + i]
  PROVE  t = SubSeq(s, m + 1, n)
  <1>1. /\ SubSeq(s, m + 1, n) \in Seq(S)
        /\ Len(SubSeq(s, m + 1, n)) = n - m
        /\ \A i \in 1..n - m : SubSeq(s, m + 1, n)[i] = s[m + i]
    BY Slice
  <1> QED
    BY <1>1, SeqEqual

LEMMA SameSlice ==
  ASSUME NEW S, NEW s \in Seq(S), NEW t \in Seq(S), NEW m \in Nat, NEW n \in Nat, m <= n,
         n <= Len(s), n <= Len(t), \A i \in m + 1..n : t[i] = s[i]
  PROVE  SubSeq(t, m + 1, n) = SubSeq(s, m + 1, n)
  <1>1. /\ SubSeq(t, m + 1, n) \in Seq(S)
        /\ Len(SubSeq(t, m + 1, n)) = n - m
        /\ \A i \in 1..n - m : SubSeq(t, m + 1, n)[i] = t[m + i]
    BY Slice
  <1>2. \A i \in 1..n - m : m + i \in m + 1..n
    OBVIOUS
  <1> QED
    BY <1>1, <1>2, SliceIs

(* A piece of what comes after the m-th element. *)
LEMMA SliceOfRest ==
  ASSUME NEW S, NEW s \in Seq(S), NEW m \in Nat, NEW a \in Nat, NEW b \in Nat,
         a <= b, m + b <= Len(s)
  PROVE  SubSeq(SubSeq(s, m + 1, Len(s)), a + 1, b) = SubSeq(s, (m + a) + 1, m + b)
  <1> DEFINE rest == SubSeq(s, m + 1, Len(s))
  <1>1. Len(s) \in Nat
    BY LenProperties
  <1>2. /\ rest \in Seq(S) /\ Len(rest) = Len(s) - m
        /\ \A i \in 1..Len(s) - m : rest[i] = s[m + i]
    BY <1>1, Slice
  <1> HIDE DEF rest
  <1>3. b <= Len(rest)
    BY <1>1, <1>2
  <1>4. /\ SubSeq(rest, a + 1, b) \in Seq(S)
        /\ Len(SubSeq(rest, a + 1, b)) = b - a
        /\ \A i \in 1..b - a : SubSeq(rest, a + 1, b)[i] = rest[a + i]
    BY <1>2, <1>3, Slice
  <1>5. ASSUME NEW i \in 1..b - a
        PROVE  SubSeq(rest, a + 1, b)[i] = s[(m + a) + i]
    <2>1. a + i \in 1..Len(s) - m /\ m + (a + i) = (m + a) + i
      BY <1>1
    <2> QED
      BY <1>2, <1>4, <2>1
  <1>6. SubSeq(rest, a + 1, b) = SubSeq(s, (m + a) + 1, m + b)
    <2> DEFINE t == SubSeq(rest, a + 1, b)
               from == m + a
               to == m + b
    <2>1. from \in Nat /\ to \in Nat /\ from <= to /\ to <= Len(s) /\ to - from = b - a
      OBVIOUS
    <2>2. t \in Seq(S) /\ Len(t) = to - from /\ \A i \in 1..to - from : t[i] = s[from + i]
      BY <1>4, <1>5, <2>1
    <2> HIDE DEF t, from, to
    <2>3. t = SubSeq(s, from + 1, to)
      BY <2>1, <2>2, SliceIs
    <2> QED
      BY <2>3 DEF t, from, to
  <1> QED
    BY <1>6 DEF rest

LEMMA JoinedSlices ==
  ASSUME NEW S, NEW s \in Seq(S), NEW m \in Nat, NEW n \in Nat, m <= n, n <= Len(s)
  PROVE  SubSeq(s, m + 1, n) \o SubSeq(s, n + 1, Len(s)) = SubSeq(s, m + 1, Len(s))
  <1> DEFINE a == SubSeq(s, m + 1, n)
             b == SubSeq(s, n + 1, Len(s))
  <1>1. Len(s) \in Nat /\ m <= Len(s)
    BY LenProperties
  <1>2. /\ a \in Seq(S) /\ Len(a) = n - m /\ \A i \in 1..n - m : a[i] = s[m + i]
        /\ b \in Seq(S) /\ Len(b) = Len(s) - n /\ \A i \in 1..Len(s) - n : b[i] = s[n + i]
    BY <1>1, Slice
  <1> HIDE DEF a, b
  <1>3. /\ a \o b \in Seq(S) /\ Len(a \o b) = Len(a) + Len(b)
        /\ \A i \in 1..Len(a) + Len(b) : (a \o b)[i] = IF i <= Len(a) THEN a[i] ELSE b[i - Len(a)]
    BY <1>2, ConcatProperties
  <1>4. Len(a \o b) = Len(s) - m
    BY <1>1, <1>2, <1>3
  <1>5. ASSUME NEW i \in 1..Len(s) - m
        PROVE  (a \o b)[i] = s[m + i]
    <2>1. i \in 1..Len(a) + Len(b)
      BY <1>1, <1>2
    <2>2. CASE i <= n - m
      <3>1. i \in 1..n - m
        BY <2>2
      <3> QED
        BY <1>2, <1>3, <2>1, <2>2, <3>1
    <2>3. CASE ~(i <= n - m)
      <3>1. i - (n - m) \in 1..Len(s) - n /\ n + (i - (n - m)) = m + i
        BY <1>1, <2>3
      <3> QED
        BY <1>2, <1>3, <2>1, <2>3, <3>1
    <2> QED
      BY <2>2, <2>3
  <1>6. a \o b = SubSeq(s, m + 1, Len(s))
    <2> DEFINE t == a \o b
               to == Len(s)
    <2>1. /\ to \in Nat /\ m <= to /\ to <= Len(s)
          /\ t \in Seq(S) /\ Len(t) = to - m /\ \A i \in 1..to - m : t[i] = s[m + i]
      BY <1>1, <1>3, <1>4, <1>5
    <2> HIDE DEF t, to
    <2>2. t = SubSeq(s, m + 1, to)
      BY <2>1, SliceIs
    <2> QED
      BY <2>2 DEF t, to
  <1> QED
    BY <1>6 DEF a, b

(* An element written in the rest of a sequence. *)
LEMMA WrittenRest ==
  ASSUME NEW v \in Word, NEW s \in Seq(Word), NEW m \in Nat, NEW d \in Nat, m + d + 1 <= Len(s)
  PROVE  SubSeq([s EXCEPT ![m + d + 1] = v], m + 1, Len(s))
           = [SubSeq(s, m + 1, Len(s)) EXCEPT ![d + 1] = v]
  <1> DEFINE t == [s EXCEPT ![m + d + 1] = v]
             rest == SubSeq(s, m + 1, Len(s))
             r == [rest EXCEPT ![d + 1] = v]
  <1>1. Len(s) \in Nat /\ m <= Len(s) /\ m + d + 1 \in 1..Len(s)
    BY LenProperties
  <1>2. t \in Seq(Word) /\ Len(t) = Len(s) /\ \A i \in 1..Len(s) : t[i] = IF i = m + d + 1 THEN v ELSE s[i]
    BY <1>1, UpdatedSequence, SequenceIsFunction
  <1>3. rest \in Seq(Word) /\ Len(rest) = Len(s) - m /\ \A i \in 1..Len(s) - m : rest[i] = s[m + i]
    BY <1>1, Slice
  <1> HIDE DEF t, rest
  <1>4. d + 1 \in 1..Len(rest)
    BY <1>1, <1>3
  <1>5. r \in Seq(Word) /\ Len(r) = Len(rest) /\ \A i \in 1..Len(rest) : r[i] = IF i = d + 1 THEN v ELSE rest[i]
    BY <1>3, <1>4, UpdatedSequence, SequenceIsFunction
  <1> HIDE DEF r
  <1>6. ASSUME NEW i \in 1..Len(s) - m
        PROVE  r[i] = t[m + i]
    <2>1. m + i \in 1..Len(s) /\ (m + i = m + d + 1 <=> i = d + 1) /\ i \in 1..Len(rest)
      BY <1>1, <1>3
    <2> QED
      BY <1>2, <1>3, <1>5, <2>1
  <1>7. r = SubSeq(t, m + 1, Len(s))
    BY <1>1, <1>2, <1>3, <1>5, <1>6, SliceIs
  <1> QED
    BY <1>7 DEF r, t, rest

----------------------------------------------------------------------------
(* The callers suspended under the activation that runs, as a function of    *)
(* the frames, the register file and the window's start.                     *)

BaseIn(frames, base, k) == IF k = Len(frames) THEN base ELSE frames[k + 1].base_register

CallerIn(frames, file, base, k) ==
  [kept |-> SubSeq(file, BaseIn(frames, base, k) + 1, BaseIn(frames, base, k + 1)),
   dst |-> IF frames[k + 1].return_register = NoRegister THEN NoRegister
           ELSE frames[k + 1].return_register - frames[k + 1].base_register,
   stack_pointer |-> frames[k + 1].stack_pointer,
   resume |-> frames[k + 1].return_address]

CallersOf(frames, file, base, low) ==
  [j \in 1..Len(frames) - low |-> CallerIn(frames, file, base, low + j - 1)]

CallerRecords == [kept : Seq(Word), dst : Int, stack_pointer : Int, resume : Int]

(* Windows begin one after another, and the last one in the file.            *)
Tidy(frames, file, base, low) ==
  /\ frames \in Seq(CallFrames) /\ file \in Seq(Word) /\ base \in Nat /\ base <= Len(file)
  /\ low \in Nat /\ low <= Len(frames)
  /\ \A j, k \in low..Len(frames) : j <= k => BaseIn(frames, base, j) <= BaseIn(frames, base, k)

LEMMA FramesOf ==
  ASSUME NEW frames \in Seq(CallFrames), NEW k \in 1..Len(frames)
  PROVE  /\ frames[k].base_register \in Nat
         /\ frames[k].stack_pointer \in Int
         /\ frames[k].return_address \in Int
         /\ frames[k].return_register \in Nat \cup {NoRegister}
  <1>1. frames[k] \in CallFrames
    BY ElementOfSeq
  <1> QED
    BY <1>1 DEF CallFrames

LEMMA BaseTypes ==
  ASSUME NEW frames, NEW file, NEW base, NEW low, Tidy(frames, file, base, low),
         NEW k \in low..Len(frames)
  PROVE  BaseIn(frames, base, k) \in Nat /\ BaseIn(frames, base, k) <= base
  <1>1. Len(frames) \in Nat /\ low \in Nat /\ base \in Nat /\ low <= Len(frames)
    BY LenProperties DEF Tidy
  <1>2. BaseIn(frames, base, k) \in Nat
    <2>1. CASE k = Len(frames)
      BY <1>1, <2>1 DEF BaseIn
    <2>2. CASE k # Len(frames)
      <3>1. k + 1 \in 1..Len(frames)
        BY <1>1, <2>2
      <3>2. frames[k + 1].base_register \in Nat
        BY <3>1, FramesOf DEF Tidy
      <3> QED
        BY <2>2, <3>2 DEF BaseIn
    <2> QED
      BY <2>1, <2>2
  <1>3. BaseIn(frames, base, Len(frames)) = base
    BY DEF BaseIn
  <1>4. Len(frames) \in low..Len(frames) /\ k <= Len(frames)
    BY <1>1
  <1> QED
    BY <1>2, <1>3, <1>4 DEF Tidy

LEMMA CallerTypes ==
  ASSUME NEW frames, NEW file, NEW base, NEW low, Tidy(frames, file, base, low),
         NEW k \in low..Len(frames) - 1
  PROVE  CallerIn(frames, file, base, k) \in CallerRecords
  <1>1. /\ Len(frames) \in Nat /\ Len(file) \in Nat /\ low \in Nat /\ base \in Nat
        /\ base <= Len(file) /\ file \in Seq(Word) /\ frames \in Seq(CallFrames)
    BY LenProperties DEF Tidy
  <1>2. k \in low..Len(frames) /\ k + 1 \in low..Len(frames) /\ k <= k + 1 /\ k + 1 \in 1..Len(frames)
    BY <1>1
  <1> DEFINE from == BaseIn(frames, base, k)
             to == BaseIn(frames, base, k + 1)
             frame == frames[k + 1]
  <1>3. from \in Nat /\ to \in Nat /\ to <= base
    BY <1>2, BaseTypes
  <1>4. from <= to
    BY <1>2 DEF Tidy
  <1>5. to <= Len(file)
    BY <1>1, <1>3
  <1>6. SubSeq(file, from + 1, to) \in Seq(Word)
    BY <1>1, <1>3, <1>4, <1>5, Slice
  <1>7. /\ frame.base_register \in Nat /\ frame.stack_pointer \in Int
        /\ frame.return_address \in Int /\ frame.return_register \in Nat \cup {NoRegister}
    BY <1>1, <1>2, FramesOf
  <1> DEFINE dst == IF frame.return_register = NoRegister THEN NoRegister
                    ELSE frame.return_register - frame.base_register
  <1>8. dst \in Int
    <2> HIDE DEF frame
    <2> QED
      BY <1>7 DEF NoRegister
  <1>9. CallerIn(frames, file, base, k) = [kept |-> SubSeq(file, from + 1, to), dst |-> dst,
                                           stack_pointer |-> frame.stack_pointer,
                                           resume |-> frame.return_address]
    BY DEF CallerIn
  <1> HIDE DEF from, to, frame, dst
  <1> QED
    BY <1>6, <1>7, <1>8, <1>9 DEF CallerRecords

LEMMA CallersShape ==
  ASSUME NEW frames, NEW file, NEW base, NEW low, Tidy(frames, file, base, low)
  PROVE  /\ CallersOf(frames, file, base, low) \in Seq(CallerRecords)
         /\ Len(CallersOf(frames, file, base, low)) = Len(frames) - low
         /\ Len(frames) - low \in Nat
         /\ \A j \in 1..Len(frames) - low :
              CallersOf(frames, file, base, low)[j] = CallerIn(frames, file, base, low + j - 1)
  <1>1. Len(frames) \in Nat /\ low \in Nat /\ low <= Len(frames)
    BY LenProperties DEF Tidy
  <1> DEFINE n == Len(frames) - low
  <1>2. n \in Nat
    BY <1>1
  <1>3. ASSUME NEW j \in 1..n
        PROVE  CallerIn(frames, file, base, low + j - 1) \in CallerRecords
    <2>1. low + j - 1 \in low..Len(frames) - 1
      BY <1>1
    <2> QED
      BY <2>1, CallerTypes
  <1>4. CallersOf(frames, file, base, low) \in [1..n -> CallerRecords]
    BY <1>3 DEF CallersOf
  <1> QED
    BY <1>2, <1>4, FunctionIsSequence DEF CallersOf

(* Registers from the running window on are none that a caller keeps.        *)
LEMMA CallersKeep ==
  ASSUME NEW frames, NEW file, NEW base, NEW low, Tidy(frames, file, base, low),
         NEW other \in Seq(Word), Len(other) >= base, \A i \in 1..base : other[i] = file[i]
  PROVE  /\ \A k \in low..Len(frames) - 1 :
              CallerIn(frames, other, base, k) = CallerIn(frames, file, base, k)
         /\ CallersOf(frames, other, base, low) = CallersOf(frames, file, base, low)
  <1>1. /\ Len(frames) \in Nat /\ Len(file) \in Nat /\ low \in Nat /\ base \in Nat
        /\ base <= Len(file) /\ file \in Seq(Word) /\ low <= Len(frames) /\ Len(other) \in Nat
    BY LenProperties DEF Tidy
  <1>2. ASSUME NEW k \in low..Len(frames) - 1
        PROVE  CallerIn(frames, other, base, k) = CallerIn(frames, file, base, k)
    <2>1. k \in low..Len(frames) /\ k + 1 \in low..Len(frames) /\ k <= k + 1
      BY <1>1
    <2> DEFINE from == BaseIn(frames, base, k)
               to == BaseIn(frames, base, k + 1)
    <2>2. from \in Nat /\ to \in Nat /\ to <= base
      BY <2>1, BaseTypes
    <2>3. from <= to
      BY <2>1 DEF Tidy
    <2> HIDE DEF from, to
    <2>4. to <= Len(file) /\ to <= Len(other) /\ \A i \in from + 1..to : i \in 1..base
      BY <1>1, <2>2, <2>3
    <2>5. SubSeq(other, from + 1, to) = SubSeq(file, from + 1, to)
      BY <1>1, <2>2, <2>3, <2>4, SameSlice
    <2> QED
      BY <2>5 DEF CallerIn, from, to
  <1>3. \A j \in 1..Len(frames) - low : low + j - 1 \in low..Len(frames) - 1
    BY <1>1
  <1> QED
    BY <1>2, <1>3 DEF CallersOf

(* Pushing a frame suspends one more caller, with the registers below the    *)
(* window that its callee is given.                                          *)
LEMMA PushedCallers ==
  ASSUME NEW frames, NEW file, NEW base, NEW low, Tidy(frames, file, base, low),
         NEW frame \in CallFrames, frame.base_register = base,
         NEW top \in Nat, base <= top, NEW other \in Seq(Word), top <= Len(file),
         Len(file) <= Len(other), \A i \in 1..Len(file) : other[i] = file[i]
  PROVE  LET more == Append(frames, frame)
             old == CallersOf(frames, file, base, low)
             new == CallersOf(more, other, top, low)
         IN  /\ Tidy(more, other, top, low)
             /\ Len(new) = Len(old) + 1
             /\ SubSeq(new, 1, Len(old)) = old
             /\ new[Len(old) + 1].kept = SubSeq(file, base + 1, top)
             /\ new[Len(old) + 1].stack_pointer = frame.stack_pointer
             /\ new[Len(old) + 1].resume = frame.return_address
  <1> DEFINE more == Append(frames, frame)
             old == CallersOf(frames, file, base, low)
             new == CallersOf(more, other, top, low)
             L == Len(frames)
  <1>1. /\ L \in Nat /\ low \in Nat /\ low <= L /\ base \in Nat /\ base <= Len(file)
        /\ Len(file) \in Nat /\ Len(other) \in Nat /\ file \in Seq(Word) /\ frames \in Seq(CallFrames)
    BY LenProperties DEF Tidy
  <1>2. /\ more \in Seq(CallFrames) /\ Len(more) = L + 1 /\ more[L + 1] = frame
        /\ \A k \in 1..L : more[k] = frames[k]
    BY <1>1, AppendProperties
  <1> HIDE DEF more, L
  <1>3. BaseIn(more, top, L + 1) = top
    BY <1>2 DEF BaseIn
  <1>4. ASSUME NEW k \in low..L
        PROVE  BaseIn(more, top, k) = BaseIn(frames, base, k)
    <2>1. k # Len(more)
      BY <1>1, <1>2
    <2>2. CASE k = L
      BY <1>2, <2>1, <2>2 DEF BaseIn, L
    <2>3. CASE k # L
      <3>1. k + 1 \in 1..L
        BY <1>1, <2>3
      <3> QED
        BY <1>2, <2>1, <2>3, <3>1 DEF BaseIn, L
    <2> QED
      BY <2>2, <2>3
  <1>5. \A k \in low..L : BaseIn(frames, base, k) \in Nat /\ BaseIn(frames, base, k) <= base
    BY BaseTypes DEF L
  <1>6. Tidy(more, other, top, low)
    <2>1. ASSUME NEW j \in low..L + 1, NEW k \in low..L + 1, j <= k
          PROVE  BaseIn(more, top, j) <= BaseIn(more, top, k)
      <3>1. CASE k = L + 1
        <4>1. CASE j = L + 1
          BY <1>3, <3>1, <4>1
        <4>2. CASE j # L + 1
          <5>1. j \in low..L
            BY <1>1, <4>2
          <5>2. BaseIn(more, top, j) \in Nat /\ BaseIn(more, top, j) <= base
            BY <1>4, <1>5, <5>1
          <5> QED
            BY <1>1, <1>3, <3>1, <5>2
        <4> QED
          BY <4>1, <4>2
      <3>2. CASE k # L + 1
        <4>1. j \in low..L /\ k \in low..L
          BY <1>1, <2>1, <3>2
        <4>2. BaseIn(frames, base, j) <= BaseIn(frames, base, k)
          BY <2>1, <4>1 DEF Tidy, L
        <4> QED
          BY <1>4, <4>1, <4>2
      <3> QED
        BY <3>1, <3>2
    <2>2. low <= Len(more) /\ top <= Len(other)
      BY <1>1, <1>2
    <2> QED
      BY <1>1, <1>2, <2>1, <2>2 DEF Tidy
  <1>7. /\ old \in Seq(CallerRecords) /\ Len(old) = L - low /\ L - low \in Nat
        /\ \A j \in 1..L - low : old[j] = CallerIn(frames, file, base, low + j - 1)
    BY CallersShape DEF L
  <1>8. /\ new \in Seq(CallerRecords) /\ Len(new) = (L + 1) - low
        /\ \A j \in 1..(L + 1) - low : new[j] = CallerIn(more, other, top, low + j - 1)
    BY <1>2, <1>6, CallersShape
  <1> HIDE DEF old, new
  <1>9. ASSUME NEW k \in low..L - 1
        PROVE  CallerIn(more, other, top, k) = CallerIn(frames, file, base, k)
    <2>1. k \in low..L /\ k + 1 \in low..L /\ k + 1 \in 1..L
      BY <1>1
    <2>2. CallerIn(more, other, top, k) = CallerIn(frames, other, base, k)
      BY <1>2, <1>4, <2>1 DEF CallerIn
    <2>3. base <= Len(other) /\ \A i \in 1..base : other[i] = file[i]
      BY <1>1
    <2>4. CallerIn(frames, other, base, k) = CallerIn(frames, file, base, k)
      BY <1>1, <2>3, CallersKeep DEF L
    <2> QED
      BY <2>2, <2>4
  <1>10. Len(new) = Len(old) + 1
    BY <1>1, <1>7, <1>8
  <1>11. SubSeq(new, 1, Len(old)) = old
    <2> DEFINE n == Len(old)
    <2>1. n \in Nat /\ n <= Len(new) /\ n - 0 = n /\ 0 <= n /\ 0 + 1 = 1
      BY <1>7, <1>10
    <2>2. ASSUME NEW i \in 1..n - 0
          PROVE  old[i] = new[0 + i]
      <3>1. /\ i \in 1..L - low /\ i \in 1..(L + 1) - low /\ low + i - 1 \in low..L - 1 /\ 0 + i = i
        BY <1>1, <1>7
      <3> QED
        BY <1>7, <1>8, <1>9, <3>1
    <2> HIDE DEF n
    <2>3. Len(old) = n - 0
      BY <2>1 DEF n
    <2>4. old = SubSeq(new, 0 + 1, n)
      BY <1>7, <1>8, <2>1, <2>2, <2>3, SliceIs
    <2> QED
      BY <2>1, <2>4 DEF n
  <1>12. new[Len(old) + 1] = CallerIn(more, other, top, L)
    <2>1. Len(old) + 1 \in 1..(L + 1) - low /\ low + (Len(old) + 1) - 1 = L
      BY <1>1, <1>7
    <2> QED
      BY <1>8, <2>1
  <1>13. SubSeq(other, base + 1, top) = SubSeq(file, base + 1, top)
    <2>1. top <= Len(other) /\ \A i \in base + 1..top : i \in 1..Len(file)
      BY <1>1
    <2> QED
      BY <1>1, <2>1, SameSlice
  <1>14. /\ CallerIn(more, other, top, L).kept = SubSeq(file, base + 1, top)
         /\ CallerIn(more, other, top, L).stack_pointer = frame.stack_pointer
         /\ CallerIn(more, other, top, L).resume = frame.return_address
    <2>1. L \in low..L
      BY <1>1
    <2>2. BaseIn(more, top, L) = base
      BY <1>4, <2>1 DEF BaseIn, L
    <2> QED
      BY <1>2, <1>3, <1>13, <2>2 DEF CallerIn
  <1> QED
    BY <1>6, <1>10, <1>11, <1>12, <1>14 DEF more, old, new

(* Popping one resumes the last, whose registers go up to the window again.  *)
CanPop(frames, file, base, low, frame, other) ==
  /\ Tidy(frames, file, base, low) /\ low < Len(frames) /\ frame = frames[Len(frames)]
  /\ other \in Seq(Word) /\ Len(other) = Len(file)
  /\ \A i \in 1..frame.base_register : other[i] = file[i]

Popped(frames, file, base, low, frame, other) ==
  LET fewer == [k \in 1..Len(frames) - 1 |-> frames[k]]
      old == CallersOf(frames, file, base, low)
      new == CallersOf(fewer, other, frame.base_register, low)
  IN  /\ Tidy(fewer, other, frame.base_register, low)
      /\ old # << >> /\ Len(old) \in Nat
      /\ new = SubSeq(old, 1, Len(old) - 1)
      /\ old[Len(old)] = CallerIn(frames, file, base, Len(frames) - 1)
      /\ frame.base_register \in Nat /\ frame.base_register <= base
      /\ old[Len(old)].kept = SubSeq(file, frame.base_register + 1, base)

LEMMA PoppedCallers ==
  ASSUME NEW frames, NEW file, NEW base, NEW low, NEW frame, NEW other,
         CanPop(frames, file, base, low, frame, other)
  PROVE  Popped(frames, file, base, low, frame, other)
  <1>0. /\ Tidy(frames, file, base, low) /\ low < Len(frames) /\ frame = frames[Len(frames)]
        /\ other \in Seq(Word) /\ Len(other) = Len(file)
        /\ \A i \in 1..frame.base_register : other[i] = file[i]
    BY DEF CanPop
  <1> DEFINE L == Len(frames)
             b == frame.base_register
             fewer == [k \in 1..L - 1 |-> frames[k]]
             old == CallersOf(frames, file, base, low)
             new == CallersOf(fewer, other, b, low)
  <1>1. /\ L \in Nat /\ low \in Nat /\ low < L /\ base \in Nat /\ base <= Len(file)
        /\ Len(file) \in Nat /\ file \in Seq(Word) /\ frames \in Seq(CallFrames)
    BY <1>0, LenProperties DEF Tidy
  <1>2. /\ fewer \in Seq(CallFrames) /\ Len(fewer) = L - 1 /\ \A k \in 1..L - 1 : fewer[k] = frames[k]
    <2>1. \A k \in 1..L - 1 : frames[k] \in CallFrames
      BY <1>1, ElementOfSeq
    <2>2. L - 1 \in Nat /\ fewer \in [1..L - 1 -> CallFrames]
      BY <1>1, <2>1
    <2> QED
      BY <2>2, FunctionIsSequence
  <1>3. frame = frames[L] /\ L \in 1..L /\ b \in Nat
    BY <1>0, <1>1, FramesOf
  <1> HIDE DEF L, fewer, b
  <1>4. ASSUME NEW k \in low..L - 1
        PROVE  BaseIn(fewer, b, k) = BaseIn(frames, base, k)
    <2>1. k # L
      BY <1>1
    <2>2. CASE k = L - 1
      <3>1. k + 1 = L
        BY <1>1, <2>2
      <3> QED
        BY <1>2, <1>3, <2>1, <2>2, <3>1 DEF BaseIn, L, b
    <2>3. CASE k # L - 1
      <3>1. k + 1 \in 1..L - 1
        BY <1>1, <2>3
      <3> QED
        BY <1>2, <2>1, <2>3, <3>1 DEF BaseIn, L
    <2> QED
      BY <2>2, <2>3
  <1>5. BaseIn(frames, base, L) = base /\ BaseIn(frames, base, L - 1) = b
    <2>1. L - 1 # L /\ (L - 1) + 1 = L
      BY <1>1
    <2> QED
      BY <1>3, <2>1 DEF BaseIn, L, b
  <1>6. b <= base
    <2>1. L - 1 \in low..L /\ L \in low..L /\ L - 1 <= L
      BY <1>1
    <2> QED
      BY <1>0, <1>5, <2>1 DEF Tidy, L
  <1>7. ASSUME NEW any \in Seq(Word), b <= Len(any)
        PROVE  Tidy(fewer, any, b, low)
    <2>1. ASSUME NEW j \in low..L - 1, NEW k \in low..L - 1, j <= k
          PROVE  BaseIn(fewer, b, j) <= BaseIn(fewer, b, k)
      <3>1. j \in low..L /\ k \in low..L
        BY <1>1
      <3>2. BaseIn(frames, base, j) <= BaseIn(frames, base, k)
        BY <1>0, <2>1, <3>1 DEF Tidy, L
      <3> QED
        BY <1>4, <3>2
    <2>2. low <= Len(fewer)
      BY <1>1, <1>2
    <2> QED
      BY <1>1, <1>2, <1>3, <1>7, <2>1, <2>2 DEF Tidy
  <1>8. Len(other) >= b /\ b <= Len(file)
    BY <1>0, <1>1, <1>3, <1>6
  <1>9. Tidy(fewer, other, b, low) /\ Tidy(fewer, file, b, low)
    BY <1>0, <1>1, <1>7, <1>8
  <1>10. /\ old \in Seq(CallerRecords) /\ Len(old) = L - low /\ L - low \in Nat
         /\ \A j \in 1..L - low : old[j] = CallerIn(frames, file, base, low + j - 1)
    BY <1>0, CallersShape DEF L
  <1>11. /\ new \in Seq(CallerRecords) /\ Len(new) = (L - 1) - low
         /\ \A j \in 1..(L - 1) - low : new[j] = CallerIn(fewer, other, b, low + j - 1)
    BY <1>2, <1>9, CallersShape
  <1> HIDE DEF old, new
  <1>12. ASSUME NEW k \in low..(L - 1) - 1
         PROVE  CallerIn(fewer, other, b, k) = CallerIn(frames, file, base, k)
    <2>1. k \in low..L - 1 /\ k + 1 \in low..L - 1 /\ k + 1 \in 1..L - 1 /\ k \in low..Len(fewer) - 1
      BY <1>1, <1>2
    <2>2. CallerIn(fewer, other, b, k) = CallerIn(fewer, file, b, k)
      <3>1. \A i \in 1..b : other[i] = file[i]
        BY <1>0 DEF b
      <3> QED
        BY <1>0, <1>8, <1>9, <2>1, <3>1, CallersKeep
    <2>3. CallerIn(fewer, file, b, k) = CallerIn(frames, file, base, k)
      BY <1>2, <1>4, <2>1 DEF CallerIn
    <2> QED
      BY <2>2, <2>3
  <1>13. new = SubSeq(old, 1, Len(old) - 1)
    <2> DEFINE n == Len(old) - 1
    <2>1. n \in Nat /\ n <= Len(old) /\ n - 0 = n /\ 0 <= n /\ 0 + 1 = 1 /\ Len(new) = n - 0
      BY <1>1, <1>10, <1>11
    <2>2. ASSUME NEW i \in 1..n - 0
          PROVE  new[i] = old[0 + i]
      <3>1. /\ i \in 1..L - low /\ i \in 1..(L - 1) - low /\ low + i - 1 \in low..(L - 1) - 1 /\ 0 + i = i
        BY <1>1, <1>10
      <3> QED
        BY <1>10, <1>11, <1>12, <3>1
    <2> HIDE DEF n
    <2>3. new = SubSeq(old, 0 + 1, n)
      BY <1>10, <1>11, <2>1, <2>2, SliceIs
    <2> QED
      BY <2>1, <2>3 DEF n
  <1>14. old # << >> /\ Len(old) \in Nat /\ old[Len(old)] = CallerIn(frames, file, base, L - 1)
    <2>1. Len(old) \in 1..L - low /\ low + Len(old) - 1 = L - 1
      BY <1>1, <1>10
    <2>2. old # << >>
      BY <1>10, <2>1, EmptySeq
    <2> QED
      BY <1>10, <2>1, <2>2
  <1>15. CallerIn(frames, file, base, L - 1).kept = SubSeq(file, b + 1, base)
    <2>1. (L - 1) + 1 = L
      BY <1>1
    <2> QED
      BY <1>5, <2>1 DEF CallerIn
  <1> QED
    BY <1>3, <1>6, <1>9, <1>13, <1>14, <1>15 DEF L, fewer, old, new, b, Popped

----------------------------------------------------------------------------
(* The machine's activations.                                                *)

Lowest == IF status = "run" THEN Floor ELSE Floor + 1
Callers == CallersOf(call_stack, registers, base_register, Lowest)
Window == SubSeq(registers, base_register + 1, Len(registers))

(* The windows of the activations begin one after another.  The refinement   *)
(* needs it: a register of the running window is then none that a caller,    *)
(* however far down, has kept.                                               *)
Orderly == InActivation => Tidy(call_stack, registers, base_register, Lowest)

LEMMA SuspendedAreCallers ==
  Suspended = Callers /\ Suspended' = Callers'
  BY DEF Suspended, Callers, CallersOf, CallerIn, BaseIn, BaseAt, Lowest

(* The steps of CallDiscipline, in these terms. *)
LEMMA IsEnter ==
  ASSUME ~InActivation, InActivation' => Callers' = << >>
  PROVE  Discipline!Enter
  BY SuspendedAreCallers DEF Discipline!Enter

LEMMA IsLeave ==
  ASSUME InActivation, ~InActivation'
  PROVE  Discipline!Leave
  BY DEF Discipline!Leave

LEMMA IsCompute ==
  ASSUME InActivation, InActivation', Len(Window') = Len(Window), Callers' = Callers
  PROVE  Discipline!Compute
  BY SuspendedAreCallers DEF Discipline!Compute, Window

LEMMA IsInvoke ==
  ASSUME InActivation, InActivation', NEW b \in 0..Len(Window),
         Len(Callers') = Len(Callers) + 1,
         SubSeq(Callers', 1, Len(Callers)) = Callers,
         Callers'[Len(Callers) + 1].kept = SubSeq(Window, 1, b),
         Callers'[Len(Callers) + 1].stack_pointer = stack_pointer,
         Callers'[Len(Callers) + 1].resume = instruction_pointer + 1,
         SubSeq(Window', 1, Len(SubSeq(Window, b + 1, Len(Window)))) = SubSeq(Window, b + 1, Len(Window)),
         stack_pointer' = stack_pointer
  PROVE  Discipline!Invoke
  <1>1. Suspended = Callers /\ Suspended' = Callers'
    BY SuspendedAreCallers
  <1>2. /\ (IF InActivation THEN SubSeq(registers, base_register + 1, Len(registers)) ELSE << >>) = Window
        /\ (IF InActivation THEN SubSeq(registers, base_register + 1, Len(registers)) ELSE << >>)' = Window'
        /\ (IF InActivation THEN Suspended ELSE << >>) = Callers
        /\ (IF InActivation THEN Suspended ELSE << >>)' = Callers'
    BY <1>1 DEF Window
  <1> QED
    BY <1>2 DEF Discipline!Invoke

LEMMA IsResume ==
  ASSUME InActivation, InActivation', Callers # << >>,
         NEW caller, caller = Callers[Len(Callers)],
         Callers' = SubSeq(Callers, 1, Len(Callers) - 1),
         instruction_pointer' = caller.resume,
         stack_pointer' = caller.stack_pointer,
         \/ caller.dst = -1 /\ Window' = caller.kept \o Window
         \/ /\ caller.dst # -1
            /\ \E r \in 1..Len(Window) :
                 Window' = [caller.kept \o Window EXCEPT ![caller.dst + 1] = Window[r]]
  PROVE  Discipline!Resume
  <1>1. Suspended = Callers /\ Suspended' = Callers'
    BY SuspendedAreCallers
  <1>2. /\ (IF InActivation THEN SubSeq(registers, base_register + 1, Len(registers)) ELSE << >>) = Window
        /\ (IF InActivation THEN SubSeq(registers, base_register + 1, Len(registers)) ELSE << >>)' = Window'
        /\ (IF InActivation THEN Suspended ELSE << >>) = Callers
        /\ (IF InActivation THEN Suspended ELSE << >>)' = Callers'
    BY <1>1 DEF Window
  <1> QED
    BY <1>2 DEF Discipline!Resume, Discipline!Nowhere

----------------------------------------------------------------------------
(* Steps within an activation.                                               *)

(* They keep the registers before the window. *)
LocalEffect ==
  /\ UNCHANGED <<base_register, call_stack, status, guard>>
  /\ DOMAIN registers' = DOMAIN registers
  /\ \A i \in 1..base_register : registers'[i] = registers[i]

LEMMA QuietIsLocal ==
  ASSUME UNCHANGED <<registers, base_register, call_stack, status, guard>>
  PROVE  LocalEffect
  BY DEF LocalEffect

LEMMA AssignIsLocal ==
  ASSUME IInv, NEW op \in Opcode, At(op), NEW v, Assign(v)
  PROVE  LocalEffect
  <1> DEFINE at == base_register + Instruction.dst + 1
  <1>1. Instruction.dst \in Nat /\ base_register \in Nat
    BY ModuleAt DEF Instructions, IInv, TypeOK
  <1>2. \A i \in 1..base_register : i # at
    BY <1>1
  <1>3. registers' = [registers EXCEPT ![at] = v]
    BY DEF Assign, WithRegister
  <1> HIDE DEF at
  <1>4. DOMAIN registers' = DOMAIN registers /\ \A i \in 1..base_register : registers'[i] = registers[i]
    <2>1. registers \in Seq(Word)
      BY DEF IInv, TypeOK
    <2>2. DOMAIN registers = 1..Len(registers) /\ registers \in [1..Len(registers) -> Word]
      BY <2>1, SequenceIsFunction
    <2>3. DOMAIN registers' = DOMAIN registers
      BY <1>3
    <2>4. ASSUME NEW i \in 1..base_register
          PROVE  registers'[i] = registers[i]
      <3>1. i # at
        BY <1>2
      <3> QED
        BY <1>3, <3>1
    <2> QED
      BY <2>3, <2>4
  <1> QED
    BY <1>4 DEF Assign, host, LocalEffect

LEMMA StepsOfTheMachine ==
  ASSUME IInv, Step
  PROVE  LocalEffect \/ ~Running' \/ CallFunction \/ Return \/ ReturnVoid
  <1>1. ASSUME NEW op \in Opcode, At(op), NEW v, Assign(v)
        PROVE  LocalEffect
    BY <1>1, AssignIsLocal
  <1>2. ASSUME BecomeUndefined
        PROVE  ~Running'
    BY <1>2 DEF BecomeUndefined, Running
  <1>3. ASSUME NEW frames, NEW base, Throw(frames, base)
        PROVE  ~Running'
    BY <1>3 DEF Throw, Running
  <1>4. ASSUME NEW op \in Opcode, At(op), NEW memory, NEW address, LoadFrom(memory, address)
        PROVE  LocalEffect \/ ~Running'
    BY <1>1, <1>2, <1>4 DEF LoadFrom
  <1>5. ASSUME NEW address, StoreTo(address)
        PROVE  LocalEffect \/ ~Running'
    BY <1>2, <1>5, QuietIsLocal DEF StoreTo, host
  <1>6. {"mov_i", "mov", "lookup_k", "unary", "binary", "binary_k", "binary_i", "load", "store",
         "load_sp", "store_sp", "mov_sp_i", "alloca_i", "alloca"} \subseteq Opcode
    BY DEF Opcode
  <1>7. CASE MovImmediate \/ Mov \/ LookupConstant \/ MovStackPointer \/ Unary
    BY <1>1, <1>6, <1>7 DEF MovImmediate, Mov, LookupConstant, MovStackPointer, Unary
  <1>8. CASE Binary
    <2>1. PICK op \in {"binary", "binary_k", "binary_i"} : At(op)
      BY <1>8 DEF Binary
    <2>2. (\E v : Assign(v)) \/ BecomeUndefined
      BY <1>8 DEF Binary
    <2> QED
      BY <1>1, <1>2, <1>6, <2>1, <2>2
  <1>9. CASE AllocaImmediate \/ Alloca \/ Jump \/ JumpNonZero
    BY <1>9, QuietIsLocal DEF AllocaImmediate, Alloca, Jump, JumpNonZero, host
  <1>10. CASE Load
    <2>1. \/ \E memory, address : LoadFrom(memory, address)
          \/ \E frames, base : Throw(frames, base)
      BY <1>10 DEF Load
    <2>2. At("load")
      BY <1>10 DEF Load
    <2> QED
      BY <1>3, <1>4, <1>6, <2>1, <2>2
  <1>11. CASE Store
    <2>1. \/ \E address : StoreTo(address)
          \/ \E frames, base : Throw(frames, base)
      BY <1>11 DEF Store
    <2> QED
      BY <1>3, <1>5, <2>1
  <1>12. CASE LoadStackPointer
    BY <1>4, <1>6, <1>12 DEF LoadStackPointer
  <1>13. CASE StoreStackPointer
    BY <1>5, <1>13 DEF StoreStackPointer
  <1>14. CASE FinishRun \/ FinishCall
    BY <1>14 DEF FinishRun, FinishCall, Running
  <1> QED
    BY <1>7, <1>8, <1>9, <1>10, <1>11, <1>12, <1>13, <1>14 DEF Step

(* A step that is not the end of one is taken in an activation. *)
LEMMA StepsAreInside ==
  ASSUME IInv, Step, Running'
  PROVE  InActivation
  <1>1. ASSUME NEW op \in Opcode, At(op)
        PROVE  InActivation
    <2>1. instruction_pointer \in Nat /\ Running
      BY <1>1, ModuleAt DEF At
    <2> QED
      BY <2>1 DEF InActivation, ExitStub
  <1>2. ~FinishRun /\ ~FinishCall
    BY DEF FinishRun, FinishCall, Running
  <1>3. \E op \in Opcode : At(op)
    BY <1>2 DEF Step, MovImmediate, Mov, LookupConstant, MovStackPointer, Unary, Binary,
       AllocaImmediate, Alloca, Load, Store, LoadStackPointer, StoreStackPointer, Jump,
       JumpNonZero, CallFunction, Return, ReturnVoid, Opcode
  <1> QED
    BY <1>1, <1>3

LEMMA SameLength ==
  ASSUME NEW S, NEW s \in Seq(S), NEW T, NEW t \in Seq(T), DOMAIN s = DOMAIN t
  PROVE  Len(s) = Len(t)
  <1>1. /\ Len(s) \in Nat /\ Len(t) \in Nat
        /\ 1..Len(s) = 1..Len(t)
    BY LenProperties
  <1>2. ASSUME NEW a \in Nat, NEW b \in Nat, 1..a = 1..b
        PROVE  a <= b
    <2>1. CASE a = 0
      BY <2>1
    <2>2. CASE a # 0
      <3>1. a \in 1..a
        BY <2>2
      <3>2. a \in 1..b
        BY <1>2, <3>1
      <3> QED
        BY <3>2
    <2> QED
      BY <2>1, <2>2
  <1>3. Len(s) <= Len(t) /\ Len(t) <= Len(s)
    BY <1>1, <1>2
  <1> QED
    BY <1>1, <1>3

LEMMA LocalIsCompute ==
  ASSUME IInv, IInv', Orderly, LocalEffect, InActivation, InActivation'
  PROVE  Discipline!Compute /\ Orderly'
  <1>1. Tidy(call_stack, registers, base_register, Lowest)
    BY DEF Orderly
  <1>2. registers \in Seq(Word) /\ registers' \in Seq(Word) /\ base_register \in Nat
    BY DEF IInv, TypeOK
  <1>3. Len(registers') = Len(registers) /\ Len(registers) \in Nat /\ base_register <= Len(registers)
    BY <1>1, <1>2, SameLength, LenProperties DEF LocalEffect, Tidy
  <1>4. Lowest' = Lowest /\ base_register' = base_register /\ call_stack' = call_stack
    BY DEF LocalEffect, Lowest, Floor
  <1>5. \A i \in 1..base_register : registers'[i] = registers[i]
    BY DEF LocalEffect
  <1>6. CallersOf(call_stack, registers', base_register, Lowest) = Callers
    <2> DEFINE other == registers'
    <2>1. other \in Seq(Word) /\ Len(other) >= base_register /\ \A i \in 1..base_register : other[i] = registers[i]
      BY <1>2, <1>3, <1>5
    <2> HIDE DEF other
    <2>2. CallersOf(call_stack, other, base_register, Lowest) = Callers
      BY <1>1, <2>1, CallersKeep DEF Callers
    <2> QED
      BY <2>2 DEF other
  <1>7. Callers' = Callers
    BY <1>4, <1>6 DEF Callers
  <1>8. Len(Window') = Len(Window)
    <2>1. Len(SubSeq(registers, base_register + 1, Len(registers))) = Len(registers) - base_register
      BY <1>2, <1>3, Slice
    <2>2. Len(SubSeq(registers', base_register + 1, Len(registers'))) = Len(registers') - base_register
      BY <1>2, <1>3, Slice
    <2> QED
      BY <1>3, <1>4, <2>1, <2>2 DEF Window
  <1>9. Tidy(call_stack, registers', base_register, Lowest)
    BY <1>1, <1>2, <1>3 DEF Tidy
  <1>10. Orderly'
    BY <1>4, <1>9 DEF Orderly
  <1> QED
    BY <1>7, <1>8, <1>10, IsCompute

----------------------------------------------------------------------------
(* A call.  The caller keeps what lies below its callee's window, which      *)
(* begins with what they share.                                              *)

LEMMA SharedRegisters ==
  ASSUME NEW file \in Seq(Word), NEW base \in Nat, NEW b \in Nat,
         NEW top, top = base + b, top <= Len(file),
         NEW other \in Seq(Word), Len(file) <= Len(other),
         \A i \in 1..Len(file) : other[i] = file[i]
  PROVE  LET window == SubSeq(file, base + 1, Len(file))
             next == SubSeq(other, top + 1, Len(other))
             shared == SubSeq(window, b + 1, Len(window))
         IN  /\ b \in 0..Len(window)
             /\ SubSeq(window, 1, b) = SubSeq(file, base + 1, top)
             /\ SubSeq(next, 1, Len(shared)) = shared
  <1> DEFINE window == SubSeq(file, base + 1, Len(file))
             next == SubSeq(other, top + 1, Len(other))
             n == Len(file) - top
             shared == SubSeq(window, b + 1, Len(window))
  <1>1. Len(file) \in Nat /\ Len(other) \in Nat /\ base <= Len(file) /\ n \in Nat /\ top \in Nat
    BY LenProperties
  <1>2. window \in Seq(Word) /\ Len(window) = Len(file) - base
    BY <1>1, Slice
  <1>3. b \in 0..Len(window) /\ b <= Len(window) /\ base + Len(window) = Len(file) /\ Len(window) \in Nat
    BY <1>1, <1>2
  <1>4. SubSeq(window, 1, b) = SubSeq(file, base + 1, top)
    <2>1. SubSeq(window, 0 + 1, b) = SubSeq(file, (base + 0) + 1, base + b)
      BY <1>1, SliceOfRest
    <2>2. 0 + 1 = 1 /\ base + 0 = base
      OBVIOUS
    <2> HIDE DEF window
    <2> QED
      BY <2>1, <2>2
  <1>5. shared = SubSeq(file, top + 1, Len(file))
    <2> DEFINE m == Len(window)
    <2>1. m \in Nat /\ b <= m /\ base + m = Len(file) /\ base + m <= Len(file)
      BY <1>1, <1>3
    <2> HIDE DEF m
    <2>2. SubSeq(window, b + 1, m) = SubSeq(file, top + 1, base + m)
      BY <2>1, SliceOfRest
    <2> QED
      BY <2>1, <2>2 DEF m
  <1>6. Len(shared) = n
    <2>1. Len(SubSeq(file, top + 1, Len(file))) = n
      BY <1>1, Slice
    <2> HIDE DEF shared
    <2> QED
      BY <1>5, <2>1
  <1>7. SubSeq(next, 1, n) = SubSeq(other, top + 1, Len(file))
    <2>1. top + n = Len(file) /\ top + n <= Len(other) /\ 0 <= n /\ top \in Nat
      BY <1>1
    <2> HIDE DEF n
    <2>2. SubSeq(next, 0 + 1, n) = SubSeq(other, (top + 0) + 1, top + n)
      BY <1>1, <2>1, SliceOfRest
    <2>3. 0 + 1 = 1 /\ top + 0 = top
      BY <2>1
    <2> HIDE DEF next
    <2> QED
      BY <2>1, <2>2, <2>3
  <1>8. SubSeq(other, top + 1, Len(file)) = SubSeq(file, top + 1, Len(file))
    <2>1. \A i \in top + 1..Len(file) : i \in 1..Len(file)
      BY <1>1
    <2> QED
      BY <1>1, <2>1, SameSlice
  <1>9. SubSeq(next, 1, Len(shared)) = shared
    <2> HIDE DEF next, shared, n
    <2> QED
      BY <1>5, <1>6, <1>7, <1>8
  <1> QED
    BY <1>3, <1>4, <1>9

LEMMA CallIsInvoke ==
  ASSUME IInv, IInv', Orderly, CallFunction, InActivation, InActivation'
  PROVE  Discipline!Invoke /\ Orderly'
  <1> DEFINE o == module.owner[instruction_pointer]
             f == module.functions[Instruction.callee]
             b == Instruction.lhs
             top == base_register + b
             required == top + f.register_count
             frame == CallFrame(instruction_pointer + 1, base_register, stack_pointer, ReturnRegister)
  <1>1. PICK op \in {"call_i", "call_void_i"} : At(op)
    BY DEF CallFunction
  <1>2. op \in Opcode
    BY DEF Opcode
  <1>3. /\ WellFormed(module) /\ Instruction.op = op /\ Instruction \in Instructions
        /\ instruction_pointer \in Nat /\ o \in 0..Len(module.functions)
        /\ WellFormedInstruction(module, instruction_pointer)
    BY <1>1, <1>2, ModuleAt
  <1>4. /\ Instruction.callee \in DOMAIN module.functions
        /\ b + Len(f.parameter_types) <= RegistersOf(module, o)
    BY <1>3 DEF WellFormedInstruction, Instruction
  <1>5. f \in FunctionEntries
    <2>1. module.functions \in Seq(FunctionEntries)
      BY <1>3 DEF WellFormed, ModuleRecords
    <2> QED
      BY <1>4, <2>1, SequenceIsFunction
  <1>6. /\ f.register_count \in Nat /\ Len(f.parameter_types) \in Nat /\ b \in Nat
        /\ Instruction.dst \in Nat
    <2>1. f.parameter_types \in Seq(ScalarType)
      BY <1>5 DEF FunctionEntries
    <2> QED
      BY <1>3, <1>5, <2>1, LenProperties DEF FunctionEntries, Instructions
  <1>7. /\ base_register \in Nat /\ registers \in Seq(Word) /\ Len(registers) \in Nat
        /\ stack_pointer \in Int
    BY LenProperties DEF IInv, TypeOK
  <1>8. base_register + RegistersOf(module, o) <= Len(registers) /\ RegistersOf(module, o) \in Nat
    <2>1. Len(call_stack) \in Activations
      BY <1>1, <1>2, TopIsActivation
    <2> QED
      BY <1>3, <2>1, FunctionFacts DEF IInv, WindowsInBounds, BaseAt, OwnerAt, PositionAt
  <1>9. top \in Nat /\ base_register <= top /\ top <= Len(registers) /\ required \in Nat
    <2> HIDE DEF f, o
    <2> QED
      BY <1>4, <1>6, <1>7, <1>8, SMTT(30)
  <1>10. frame \in CallFrames
    <2>1. ReturnRegister \in Nat \cup {NoRegister}
      BY <1>6, <1>7 DEF ReturnRegister
    <2> QED
      BY <1>3, <1>7, <2>1 DEF CallFrame, CallFrames
  <1>11. /\ frame.base_register = base_register /\ frame.stack_pointer = stack_pointer
         /\ frame.return_address = instruction_pointer + 1
    BY DEF CallFrame
  <1>12. /\ call_stack' = Append(call_stack, frame)
         /\ base_register' = top
         /\ registers' = Grown(required)
         /\ stack_pointer' = stack_pointer /\ status' = status /\ guard' = guard
    <2>1. ~Throw(call_stack, base_register) /\ ~Throw(Append(call_stack, frame), top)
      BY DEF Throw, InActivation, Running
    <2> QED
      BY <2>1 DEF CallFunction, host
  <1> HIDE DEF f, o
  <1>13. /\ registers' \in Seq(Word) /\ Len(registers) <= Len(registers')
         /\ \A i \in 1..Len(registers) : registers'[i] = registers[i]
    <2>1. /\ Grown(required) \in Seq(Word) /\ Len(Grown(required)) >= Len(registers)
          /\ Len(Grown(required)) \in Nat
      BY <1>9, GrownType
    <2> HIDE DEF required
    <2>2. ASSUME NEW i \in 1..Len(registers)
          PROVE  Grown(required)[i] = registers[i]
      <3>1. CASE required > Len(registers)
        <4>1. i \in 1..required /\ i <= Len(registers)
          BY <1>7, <1>9, <3>1 DEF required
        <4> QED
          BY <3>1, <4>1 DEF Grown
      <3>2. CASE ~(required > Len(registers))
        BY <3>2 DEF Grown
      <3> QED
        BY <3>1, <3>2
    <2> QED
      BY <1>7, <1>12, <2>1, <2>2
  <1>14. Tidy(call_stack, registers, base_register, Lowest)
    BY DEF Orderly
  <1>15. Lowest' = Lowest
    BY <1>12 DEF Lowest, Floor
  <1> DEFINE other == registers'
             more == Append(call_stack, frame)
  <1>16. /\ other \in Seq(Word) /\ Len(registers) <= Len(other)
         /\ \A i \in 1..Len(registers) : other[i] = registers[i]
    BY <1>13
  <1> HIDE DEF other, top, frame
  <1>17. /\ Tidy(more, other, top, Lowest)
         /\ Len(CallersOf(more, other, top, Lowest)) = Len(Callers) + 1
         /\ SubSeq(CallersOf(more, other, top, Lowest), 1, Len(Callers)) = Callers
         /\ CallersOf(more, other, top, Lowest)[Len(Callers) + 1].kept
              = SubSeq(registers, base_register + 1, top)
         /\ CallersOf(more, other, top, Lowest)[Len(Callers) + 1].stack_pointer = frame.stack_pointer
         /\ CallersOf(more, other, top, Lowest)[Len(Callers) + 1].resume = frame.return_address
    BY <1>9, <1>10, <1>11, <1>14, <1>16, PushedCallers DEF Callers
  <1>18. Callers' = CallersOf(more, other, top, Lowest)
    BY <1>12, <1>15 DEF Callers, other
  <1>19. Orderly'
    BY <1>12, <1>15, <1>17 DEF Orderly, other
  <1>20. /\ b \in 0..Len(Window)
         /\ SubSeq(Window, 1, b) = SubSeq(registers, base_register + 1, top)
         /\ SubSeq(SubSeq(other, top + 1, Len(other)), 1, Len(SubSeq(Window, b + 1, Len(Window))))
              = SubSeq(Window, b + 1, Len(Window))
    <2>1. top = base_register + b
      BY DEF top
    <2> HIDE DEF b, required
    <2>2. /\ b \in Nat /\ base_register \in Nat /\ registers \in Seq(Word)
          /\ other \in Seq(Word) /\ Len(registers) <= Len(other) /\ top <= Len(registers)
          /\ \A i \in 1..Len(registers) : other[i] = registers[i]
      BY <1>6, <1>7, <1>9, <1>16 DEF b
    <2> DEFINE window == SubSeq(registers, base_register + 1, Len(registers))
               next == SubSeq(other, top + 1, Len(other))
    <2>3. /\ b \in 0..Len(window)
          /\ SubSeq(window, 1, b) = SubSeq(registers, base_register + 1, top)
          /\ SubSeq(next, 1, Len(SubSeq(window, b + 1, Len(window)))) = SubSeq(window, b + 1, Len(window))
      BY <2>1, <2>2, SharedRegisters
    <2>4. Window = window
      BY DEF Window
    <2> HIDE DEF window
    <2> QED
      BY <2>3, <2>4
  <1>21. Window' = SubSeq(other, top + 1, Len(other))
    BY <1>12 DEF Window, other
  <1> HIDE DEF b, more
  <1> QED
    BY <1>11, <1>12, <1>17, <1>18, <1>19, <1>20, <1>21, IsInvoke

----------------------------------------------------------------------------
(* A return.  What the caller kept and the callee's window are the caller's  *)
(* window again, with the result in it.                                      *)

LEMMA JoinedWindow ==
  ASSUME NEW file \in Seq(Word), NEW base \in Nat, base <= Len(file), NEW b \in Nat, b <= base,
         NEW kept, kept = SubSeq(file, b + 1, base)
  PROVE  kept \o SubSeq(file, base + 1, Len(file)) = SubSeq(file, b + 1, Len(file))
  BY JoinedSlices

(* A register of a window. *)
LEMMA WindowElement ==
  ASSUME NEW file \in Seq(Word), NEW base \in Nat, NEW i \in Nat, base + i + 1 <= Len(file)
  PROVE  /\ i + 1 \in 1..Len(SubSeq(file, base + 1, Len(file)))
         /\ SubSeq(file, base + 1, Len(file))[i + 1] = file[base + i + 1]
         /\ file[base + i + 1] \in Word
  <1> DEFINE to == Len(file)
             window == SubSeq(file, base + 1, to)
  <1>1. to \in Nat /\ base <= to /\ to <= Len(file)
    BY LenProperties
  <1>2. base + i + 1 \in 1..to
    BY <1>1
  <1>3. file[base + i + 1] \in Word
    BY <1>2, ElementOfSeq
  <1> HIDE DEF to
  <1>4. Len(window) = to - base /\ \A j \in 1..to - base : window[j] = file[base + j]
    BY <1>1, Slice
  <1> HIDE DEF window
  <1>5. i + 1 \in 1..to - base /\ base + (i + 1) = base + i + 1
    BY <1>1, <1>2
  <1>6. i + 1 \in 1..Len(window) /\ window[i + 1] = file[base + i + 1]
    <2>1. window[i + 1] = file[base + (i + 1)]
      BY <1>4, <1>5
    <2> QED
      BY <1>4, <1>5, <2>1
  <1> QED
    BY <1>3, <1>6 DEF window, to

LEMMA ReturnIsResume ==
  ASSUME IInv, IInv', Orderly, Return \/ ReturnVoid, InActivation, InActivation'
  PROVE  Discipline!Resume /\ Orderly'
  <1>0. PICK L \in Nat : L = Len(call_stack)
    BY SequenceIsFunction DEF IInv, TypeOK
  <1>1. PICK op \in {"ret", "ret_void"} :
          /\ At(op)
          /\ op = "ret" <=> Return
    BY DEF Return, ReturnVoid, At
  <1>2. op \in Opcode
    BY DEF Opcode
  <1>3. /\ call_stack # << >> /\ ReturnTo(TopFrame)
        /\ op = "ret" => /\ TopFrame.return_register # NoRegister
                         /\ registers' = [registers EXCEPT ![TopFrame.return_register + 1]
                                            = Register(Instruction.lhs)]
        /\ op = "ret_void" => registers' = registers
    <2>1. ~BecomeUndefined
      BY DEF BecomeUndefined, InActivation, Running
    <2> QED
      BY <1>1, <2>1 DEF Return, ReturnVoid
  <1>4. /\ Floor \in Nat /\ Floor <= L
        /\ status = "call" => Floor < L
        /\ L \in Activations
        /\ Floor + 1..L \subseteq Activations
        /\ Activations \subseteq Floor..L
        /\ Running
    BY <1>0, <1>1, <1>2, TopIsActivation DEF At
  <1>5. /\ module.owner[instruction_pointer] # 0
        /\ op = "ret_void" => ReturnTypeOf(module, module.owner[instruction_pointer]) = VoidType
        /\ op = "ret" => /\ Instruction.lhs < RegistersOf(module, module.owner[instruction_pointer])
                         /\ Instruction.lhs \in Nat
    BY <1>1, <1>2, ModuleAt DEF WellFormedInstruction, Instruction, Instructions, UsesLhs
  <1>6. Floor < L
    <2>1. CASE status = "run"
      BY <1>0, <1>4, <1>5, <2>1 DEF IInv, GuardHolds, OwnerAt, PositionAt
    <2> QED
      BY <1>4, <2>1 DEF Running
  <1>7. /\ L - 1 \in Nat /\ L \in 1..L /\ L - 1 # L /\ (L - 1) + 1 = L
        /\ TopFrame = call_stack[L]
    BY <1>0, <1>4, <1>6 DEF TopFrame
  <1> DEFINE frame == TopFrame
             fb == frame.base_register
             dst == frame.return_register
  <1>8. /\ fb \in Nat /\ dst \in Nat \cup {NoRegister} /\ frame.stack_pointer \in Int
        /\ frame.return_address \in Int
    BY <1>0, <1>7, FrameFields
  <1>9. /\ base_register' = fb /\ stack_pointer' = frame.stack_pointer
        /\ instruction_pointer' = frame.return_address
        /\ call_stack' = [k \in 1..L - 1 |-> call_stack[k]]
        /\ status' = status /\ guard' = guard
    BY <1>0, <1>3 DEF ReturnTo, PoppedFrames, host
  <1>10. Lowest \in Nat /\ Lowest < L
    <2>1. CASE status = "run"
      BY <1>4, <1>6, <2>1 DEF Lowest
    <2>2. CASE status = "call"
      <3>1. L # Floor + 1
        <4>1. SUFFICES ASSUME L = Floor + 1 PROVE FALSE
          OBVIOUS
        <4>2. PositionAt(Floor) = frame.return_address
          BY <1>0, <1>6, <1>7, <4>1 DEF PositionAt
        <4>3. PositionAt(Floor) = ExitStub
          BY <2>2 DEF IInv, StubBelowFirstFrame
        <4> QED
          BY <1>9, <4>2, <4>3 DEF InActivation
      <3> QED
        BY <1>4, <1>6, <2>2, <3>1 DEF Lowest
    <2> QED
      BY <1>4, <2>1, <2>2 DEF Running
  <1>11. L - 1 \in Activations /\ L \in Floor + 1..L
    <2>1. CASE status = "run"
      BY <1>4, <1>6, <1>10, <2>1 DEF Lowest, Activations
    <2>2. CASE status = "call"
      BY <1>0, <1>4, <1>6, <1>10, <2>2 DEF Lowest, Activations
    <2> QED
      BY <1>4, <2>1, <2>2 DEF Running
  <1>12. BaseAt(L - 1) = fb /\ BaseAt(L) = base_register /\ OwnerAt(L) = module.owner[instruction_pointer]
    BY <1>0, <1>7 DEF BaseAt, OwnerAt, PositionAt
  <1>13. /\ dst = NoRegister <=> ReturnTypeOf(module, OwnerAt(L)) = VoidType
         /\ dst # NoRegister => fb <= dst /\ dst < Len(registers)
    BY <1>0, <1>4, <1>7, <1>11, <1>12 DEF IInv, ReturnsMatch
  <1>14. /\ registers \in Seq(Word) /\ registers' \in Seq(Word) /\ Len(registers) \in Nat
         /\ base_register \in Nat
    BY LenProperties DEF IInv, TypeOK
  <1>15. Tidy(call_stack, registers, base_register, Lowest) /\ base_register <= Len(registers)
    BY DEF Orderly, Tidy
  <1> HIDE DEF frame, fb, dst
  <1>16. Len(registers') = Len(registers) /\ \A i \in 1..fb : registers'[i] = registers[i]
    <2>1. CASE op = "ret_void"
      BY <1>3, <2>1
    <2>2. CASE op = "ret"
      <3>1. registers' = [registers EXCEPT ![dst + 1] = Register(Instruction.lhs)] /\ dst # NoRegister
        BY <1>3, <2>2 DEF dst, frame
      <3>2. dst \in Nat /\ fb <= dst /\ \A i \in 1..fb : i # dst + 1
        BY <1>8, <1>13, <3>1
      <3>3. DOMAIN registers' = DOMAIN registers
        BY <3>1
      <3>4. Len(registers') = Len(registers)
        BY <1>14, <3>3, SameLength
      <3>5. \A i \in 1..fb : i \in 1..Len(registers)
        BY <1>8, <1>13, <1>14, <3>1, <3>2
      <3>6. ASSUME NEW i \in 1..fb
            PROVE  registers'[i] = registers[i]
        <4>1. i # dst + 1 /\ i \in DOMAIN registers
          BY <1>14, <3>2, <3>5, LenProperties
        <4> QED
          BY <3>1, <4>1
      <3> QED
        BY <3>4, <3>6
    <2> QED
      BY <2>1, <2>2
  <1>17. Lowest' = Lowest
    BY <1>9 DEF Lowest, Floor
  <1> DEFINE fewer == [k \in 1..L - 1 |-> call_stack[k]]
             other == registers'
  <1>18. other \in Seq(Word) /\ Len(other) = Len(registers) /\ \A i \in 1..fb : other[i] = registers[i]
    BY <1>14, <1>16
  <1> HIDE DEF other
  <1>19. /\ Tidy(fewer, other, fb, Lowest)
         /\ Callers # << >> /\ Len(Callers) \in Nat
         /\ CallersOf(fewer, other, fb, Lowest) = SubSeq(Callers, 1, Len(Callers) - 1)
         /\ Callers[Len(Callers)] = CallerIn(call_stack, registers, base_register, L - 1)
         /\ fb <= base_register
         /\ Callers[Len(Callers)].kept = SubSeq(registers, fb + 1, base_register)
    <2> DEFINE some == call_stack[Len(call_stack)]
    <2>1. some = call_stack[Len(call_stack)] /\ some.base_register = fb /\ Len(call_stack) = L
      BY <1>0, <1>7 DEF fb, frame
    <2> HIDE DEF some
    <2>2. fewer = [k \in 1..Len(call_stack) - 1 |-> call_stack[k]]
      BY <2>1
    <2> HIDE DEF fewer
    <2>3. CanPop(call_stack, registers, base_register, Lowest, some, other)
      BY <1>10, <1>15, <1>18, <2>1 DEF CanPop
    <2> DEFINE old == CallersOf(call_stack, registers, base_register, Lowest)
               less == [k \in 1..Len(call_stack) - 1 |-> call_stack[k]]
    <2>4. /\ Tidy(less, other, some.base_register, Lowest)
          /\ old # << >> /\ Len(old) \in Nat
          /\ CallersOf(less, other, some.base_register, Lowest) = SubSeq(old, 1, Len(old) - 1)
          /\ old[Len(old)] = CallerIn(call_stack, registers, base_register, Len(call_stack) - 1)
          /\ some.base_register <= base_register
          /\ old[Len(old)].kept = SubSeq(registers, some.base_register + 1, base_register)
      <3>1. Popped(call_stack, registers, base_register, Lowest, some, other)
        BY <2>3, PoppedCallers
      <3> QED
        BY <3>1 DEF Popped
    <2>5. Callers = old
      BY DEF Callers
    <2> HIDE DEF old, less
    <2>6. less = fewer
      BY <2>2 DEF less
    <2> QED
      BY <2>1, <2>4, <2>5, <2>6
  <1>20. Callers' = SubSeq(Callers, 1, Len(Callers) - 1)
    <2>1. Callers' = CallersOf(fewer, other, fb, Lowest)
      BY <1>9, <1>17 DEF Callers, other
    <2> QED
      BY <1>19, <2>1
  <1>21. Orderly'
    BY <1>9, <1>17, <1>19 DEF Orderly, other
  <1> DEFINE caller == Callers[Len(Callers)]
  <1>22. /\ caller.dst = IF dst = NoRegister THEN NoRegister ELSE dst - fb
         /\ caller.stack_pointer = frame.stack_pointer
         /\ caller.resume = frame.return_address
         /\ caller.kept = SubSeq(registers, fb + 1, base_register)
    <2> DEFINE last == CallerIn(call_stack, registers, base_register, L - 1)
    <2>1. /\ last.dst = IF dst = NoRegister THEN NoRegister ELSE dst - fb
          /\ last.stack_pointer = frame.stack_pointer
          /\ last.resume = frame.return_address
      <3>1. frame = call_stack[(L - 1) + 1]
        BY <1>7 DEF frame
      <3> QED
        BY <3>1 DEF CallerIn, fb, dst
    <2> HIDE DEF last
    <2>2. caller = last /\ caller.kept = SubSeq(registers, fb + 1, base_register)
      BY <1>19 DEF last
    <2> QED
      BY <2>1, <2>2
  <1> HIDE DEF caller
  <1> DEFINE all == SubSeq(registers, fb + 1, Len(registers))
  <1>23. caller.kept \o Window = all
    <2> DEFINE kept == caller.kept
    <2>1. /\ registers \in Seq(Word) /\ base_register \in Nat /\ base_register <= Len(registers)
          /\ fb \in Nat /\ fb <= base_register
      BY <1>8, <1>14, <1>15, <1>19
    <2>2. kept = SubSeq(registers, fb + 1, base_register)
      BY <1>22
    <2> HIDE DEF kept
    <2>3. kept \o SubSeq(registers, base_register + 1, Len(registers)) = all
      BY <2>1, <2>2, JoinedWindow
    <2> QED
      BY <2>3 DEF kept, Window
  <1>24. Window' = SubSeq(other, fb + 1, Len(other))
    BY <1>9 DEF Window, other
  <1>25. \/ caller.dst = -1 /\ Window' = caller.kept \o Window
         \/ /\ caller.dst # -1
            /\ \E r \in 1..Len(Window) :
                 Window' = [caller.kept \o Window EXCEPT ![caller.dst + 1] = Window[r]]
    <2>1. CASE op = "ret_void"
      <3>1. other = registers
        BY <1>3, <2>1 DEF other
      <3>2. dst = NoRegister
        BY <1>5, <1>12, <1>13, <2>1
      <3> QED
        BY <1>22, <1>23, <1>24, <3>1, <3>2 DEF NoRegister
    <2>2. CASE op = "ret"
      <3> DEFINE lhs == Instruction.lhs
                 d == dst - fb
                 at == dst + 1
      <3>1. dst # NoRegister /\ registers' = [registers EXCEPT ![at] = registers[base_register + lhs + 1]]
        BY <1>3, <2>2 DEF dst, frame, Register
      <3>2. dst \in Nat /\ d \in Nat /\ at = fb + d + 1 /\ at <= Len(registers)
        BY <1>8, <1>13, <1>14, <3>1
      <3>3. lhs \in Nat /\ base_register + lhs + 1 \in 1..Len(registers)
        BY <1>1, <1>2, <1>5, <2>2, RegisterInFile
      <3>4. base_register + lhs + 1 <= Len(registers)
        BY <1>14, <3>3
      <3>5. other = [registers EXCEPT ![at] = registers[base_register + lhs + 1]]
        BY <3>1 DEF other
      <3>6. caller.dst = d /\ d # -1
        BY <1>22, <3>1, <3>2
      <3> HIDE DEF lhs, d, at
      <3> DEFINE window == SubSeq(registers, base_register + 1, Len(registers))
                 written == [registers EXCEPT ![fb + d + 1] = registers[base_register + lhs + 1]]
      <3>7. /\ lhs + 1 \in 1..Len(window)
            /\ SubSeq(written, fb + 1, Len(written)) = [all EXCEPT ![d + 1] = window[lhs + 1]]
        <4> DEFINE v == registers[base_register + lhs + 1]
        <4>1. fb + d + 1 \in 1..Len(registers) /\ fb + d + 1 <= Len(registers)
          BY <1>8, <1>14, <3>2
        <4>2. lhs + 1 \in 1..Len(window) /\ window[lhs + 1] = v /\ v \in Word
          BY <1>14, <3>3, <3>4, WindowElement
        <4> HIDE DEF window, v
        <4>3. Len(written) = Len(registers)
          BY <1>14, <4>1, <4>2, UpdatedSequence DEF v
        <4>4. SubSeq([registers EXCEPT ![fb + d + 1] = v], fb + 1, Len(registers)) = [all EXCEPT ![d + 1] = v]
          <5>1. v \in Word /\ registers \in Seq(Word) /\ fb \in Nat /\ d \in Nat
            BY <1>8, <1>14, <3>2, <4>2
          <5> QED
            BY <4>1, <5>1, WrittenRest, Zenon
        <4>5. written = [registers EXCEPT ![fb + d + 1] = v]
          BY DEF v
        <4> HIDE DEF written, all
        <4> QED
          BY <4>2, <4>3, <4>4, <4>5
      <3>8. written = other
        BY <3>2, <3>5
      <3>9. window = Window
        BY DEF Window
      <3> HIDE DEF written, window
      <3> HIDE DEF all
      <3> QED
        BY <1>23, <1>24, <3>6, <3>7, <3>8, <3>9
    <2> QED
      BY <2>1, <2>2
  <1>26. instruction_pointer' = caller.resume /\ stack_pointer' = caller.stack_pointer
    BY <1>9, <1>22
  <1>27. Discipline!Resume
    <2>1. caller = Callers[Len(Callers)]
      BY DEF caller
    <2> QED
      BY <1>19, <1>20, <1>25, <1>26, <2>1, IsResume
  <1> QED
    BY <1>21, <1>27

----------------------------------------------------------------------------
(* Entering: no caller is suspended under the first activation.              *)

LEMMA FreshTidy ==
  ASSUME NEW frames \in Seq(CallFrames), NEW file \in Seq(Word), NEW base \in Nat,
         base <= Len(file)
  PROVE  /\ Tidy(frames, file, base, Len(frames))
         /\ CallersOf(frames, file, base, Len(frames)) = << >>
  <1>1. Len(frames) \in Nat
    BY LenProperties
  <1> DEFINE low == Len(frames)
  <1>2. low \in Nat /\ low <= Len(frames) /\ \A j, k \in low..Len(frames) : j = k
    BY <1>1
  <1>3. \A j, k \in low..Len(frames) : j <= k => BaseIn(frames, base, j) <= BaseIn(frames, base, k)
    <2>1. \A j \in low..Len(frames) : j = low
      BY <1>1
    <2>2. BaseIn(frames, base, low) = base
      BY DEF BaseIn
    <2> QED
      BY <2>1, <2>2
  <1>4. Tidy(frames, file, base, low)
    BY <1>2, <1>3 DEF Tidy
  <1>5. CallersOf(frames, file, base, low) = << >>
    <2>1. /\ CallersOf(frames, file, base, low) \in Seq(CallerRecords)
          /\ Len(CallersOf(frames, file, base, low)) = Len(frames) - low
      BY <1>4, CallersShape
    <2>2. Len(frames) - low = 0
      BY <1>1
    <2> QED
      BY <2>1, <2>2, EmptySeq
  <1> QED
    BY <1>4, <1>5

LEMMA Entered ==
  ASSUME IInv', Lowest' = Len(call_stack'), base_register' <= Len(registers')
  PROVE  Callers' = << >> /\ Orderly'
  <1> DEFINE frames == call_stack'
             file == registers'
             base == base_register'
  <1>1. /\ frames \in Seq(CallFrames) /\ file \in Seq(Word) /\ base \in Nat
        /\ base <= Len(file) /\ Lowest' = Len(frames)
    BY DEF IInv, TypeOK
  <1> HIDE DEF frames, file, base
  <1>2. Tidy(frames, file, base, Lowest') /\ CallersOf(frames, file, base, Lowest') = << >>
    BY <1>1, FreshTidy
  <1> QED
    BY <1>2 DEF frames, file, base, Callers, Orderly

LEMMA RunEnters ==
  ASSUME IInv, IInv', Run
  PROVE  Callers' = << >> /\ Orderly'
  <1>1. Lowest' = Len(call_stack')
    BY DEF Run, Lowest, Floor, NoGuard
  <1>2. module \in Modules /\ WellFormed(module)
    BY LoadedModule DEF Run, NoModule
  <1>3. base_register \in Nat /\ module.top_level_registers \in Nat
    BY <1>2 DEF IInv, TypeOK, WellFormed, ModuleRecords
  <1> DEFINE size == base_register + module.top_level_registers
  <1>4. size \in Nat /\ base_register <= size
    BY <1>3
  <1>5. registers' = Grown(size) /\ base_register' = base_register
    BY DEF Run
  <1> HIDE DEF size
  <1>6. Len(Grown(size)) \in Nat /\ Len(Grown(size)) >= size
    BY <1>4, GrownType
  <1>7. base_register' <= Len(registers')
    BY <1>3, <1>4, <1>5, <1>6
  <1> QED
    BY <1>1, <1>7, Entered

LEMMA CallEnters ==
  ASSUME IInv, IInv', NEW f, NEW arguments, Call(f, arguments), InActivation'
  PROVE  Callers' = << >> /\ Orderly'
  <1>1. ~(status' = status)
    BY DEF Call, InActivation, Running
  <1>2. /\ \E frame : call_stack' = Append(call_stack, frame)
        /\ base_register' = 0
        /\ status' = "call"
        /\ guard'.call_stack_size = Len(call_stack)
    BY <1>1 DEF Call, FailCall
  <1>3. PICK frame : call_stack' = Append(call_stack, frame)
    BY <1>2
  <1>4. Len(call_stack') = Len(call_stack) + 1
    BY <1>3 DEF IInv, TypeOK
  <1>5. Lowest' = Len(call_stack')
    BY <1>2, <1>4 DEF Lowest, Floor
  <1>6. base_register' <= Len(registers')
    <2> DEFINE file == registers'
    <2>1. file \in Seq(Word)
      BY DEF IInv, TypeOK
    <2> HIDE DEF file
    <2>2. 0 <= Len(file)
      BY <2>1, LenProperties
    <2> QED
      BY <1>2, <2>2 DEF file
  <1> QED
    BY <1>5, <1>6, Entered

LEMMA HostEnters ==
  ASSUME IInv, IInv', Host, InActivation'
  PROVE  Callers' = << >> /\ Orderly'
  <1>1. CASE \E m \in Modules : LoadModule(m)
    BY <1>1 DEF LoadModule, InActivation, Running
  <1>2. CASE Run
    BY <1>2, RunEnters
  <1>3. CASE \E f \in 0..Len(module.functions), arguments \in HostArguments :
               RefuseCall(f, arguments) \/ Call(f, arguments)
    <2>1. PICK f \in 0..Len(module.functions), arguments \in HostArguments :
            RefuseCall(f, arguments) \/ Call(f, arguments)
      BY <1>3
    <2>2. CASE RefuseCall(f, arguments)
      BY <2>2 DEF RefuseCall, InActivation, Running
    <2>3. CASE Call(f, arguments)
      BY <2>3, CallEnters
    <2> QED
      BY <2>1, <2>2, <2>3
  <1> QED
    BY <1>1, <1>2, <1>3 DEF Host

LEMMA HostIsOutside == ASSUME Host PROVE ~InActivation
  BY SMTT(30) DEF Host, LoadModule, Run, RefuseCall, Call, InActivation, Running

----------------------------------------------------------------------------
(* Every step.                                                               *)

LEMMA StepRefines ==
  ASSUME IInv, IInv', Orderly, Step
  PROVE  Discipline!Next /\ Orderly'
  <1>1. CASE InActivation /\ InActivation'
    <2>1. LocalEffect \/ CallFunction \/ Return \/ ReturnVoid
      BY <1>1, StepsOfTheMachine DEF InActivation
    <2>2. Discipline!Compute \/ Discipline!Invoke \/ Discipline!Resume
      BY <1>1, <2>1, LocalIsCompute, CallIsInvoke, ReturnIsResume
    <2>3. Orderly'
      BY <1>1, <2>1, LocalIsCompute, CallIsInvoke, ReturnIsResume
    <2> QED
      BY <2>2, <2>3 DEF Discipline!Next
  <1>2. CASE InActivation /\ ~InActivation'
    BY <1>2, IsLeave DEF Discipline!Next, Orderly
  <1>3. CASE ~InActivation
    <2>1. ~InActivation'
      BY <1>3, StepsAreInside DEF InActivation
    <2> QED
      BY <1>3, <2>1, IsEnter DEF Discipline!Next, Orderly
  <1> QED
    BY <1>1, <1>2, <1>3

LEMMA HostRefines ==
  ASSUME IInv, IInv', Host
  PROVE  Discipline!Next /\ Orderly'
  <1>1. ~InActivation
    BY HostIsOutside
  <1>2. InActivation' => Callers' = << >> /\ Orderly'
    BY HostEnters
  <1> QED
    BY <1>1, <1>2, IsEnter DEF Discipline!Next, Orderly

LEMMA StutterRefines ==
  ASSUME Orderly, UNCHANGED vars
  PROVE  UNCHANGED Discipline!vars /\ Orderly'
  <1>1. Orderly'
    BY DEF Orderly, Tidy, BaseIn, Lowest, Floor, InActivation, Running, vars, machine, host
  <1>2. UNCHANGED Discipline!vars
    BY DEF Discipline!vars, InActivation, Running, Suspended, BaseAt, Floor, vars, machine, host
  <1> QED
    BY <1>1, <1>2

LEMMA Refines ==
  ASSUME IInv, IInv', Orderly, [Next]_vars
  PROVE  [Discipline!Next]_Discipline!vars /\ Orderly'
  BY StepRefines, HostRefines, StutterRefines DEF Next

LEMMA StartsOrderly ==
  ASSUME Init
  PROVE  Discipline!Init /\ Orderly
  BY DEF Init, Discipline!Init, Orderly, InActivation, Running

(* At any depth of calls the window of an activation begins where its        *)
(* caller's does or after, and no window begins past the register file:      *)
(* run_call adds to base_register, run_ret puts back what the frame kept.    *)
THEOREM WindowsStayOrderly == Spec => []Orderly
  <1>1. Init => Orderly
    BY StartsOrderly
  <1>2. IInv /\ IInv' /\ Orderly /\ [Next]_vars => Orderly'
    BY Refines
  <1> QED
    BY <1>1, <1>2, Invariance, PTL DEF Spec

(* Frames that only save positions, over one shared register file, give      *)
(* every activation registers of its own: whatever a callee and its callees  *)
(* write, grow or allocate, a caller resumes where it called, with the stack *)
(* pointer and the registers it kept, but for the one it asked the result in.*)
THEOREM ActivationsStayPrivate == Spec => ActivationsArePrivate
  <1>1. Init => Discipline!Init
    BY StartsOrderly
  <1>2. IInv /\ IInv' /\ Orderly /\ [Next]_vars => [Discipline!Next]_Discipline!vars
    BY Refines
  <1> QED
    BY <1>1, <1>2, Invariance, WindowsStayOrderly, PTL
       DEF Spec, ActivationsArePrivate, Discipline!Spec

===========================================================================
