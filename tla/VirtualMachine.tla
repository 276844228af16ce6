------------------------- MODULE VirtualMachine -------------------------
(* benson::vm::Virtual_machine (src/code/vm/src/vm.cpp): a register machine *)
(* whose functions run in overlapping windows of one register file.         *)
(*                                                                          *)
(* A module is the decoded form of bytecode::Module: a position counts      *)
(* instructions, not bytes, so the narrow and the wide form of an           *)
(* instruction are one (their encoding is the business of ModuleBuilder).   *)
(* Register k of the program is registers[k + 1] here.  Floating-point      *)
(* instructions differ from the integer ones only in the arithmetic and are *)
(* left out.                                                                *)
EXTENDS Words, FiniteSets

CONSTANTS
  Modules,          \* the modules a host may load
  HostArguments,    \* the argument lists a host may pass
  StackSize,        \* bytes of stack (16 MiB in the program)
  MaxRegisters,     \* registers the allocator can provide before bad_alloc
  MaxCallDepth      \* call frames the allocator can provide before bad_alloc

(* bytecode::Scalar_type: an integer type is its size in bytes. *)
BoolType == 0
VoidType == -1
ScalarType == Size \cup {BoolType, VoidType}

NoRegister == -1    \* an empty std::optional return_register
NoPosition == 0     \* a null instruction_pointer
ExitStub == -1      \* the address of call()'s local `exit_byte`

Opcode == {"mov_i", "mov", "lookup_k", "unary", "binary", "binary_k", "binary_i",
           "load", "store", "load_sp", "store_sp", "mov_sp_i", "alloca_i", "alloca",
           "jmp_i", "jnz_i", "call_i", "call_void_i", "ret", "ret_void", "exit"}

(* One shape for every instruction; the operands an opcode does not have are 0. *)
Instructions ==
  [op : Opcode, fn : UnaryFn \cup ArithmeticFn \cup ComparisonFn \cup {"none"},
   lhs : Nat, rhs : Nat, dst : Nat, imm : Int, size : Size, callee : Nat]

FunctionEntries ==
  [position : Nat, parameter_types : Seq(ScalarType), return_type : ScalarType,
   register_count : Nat]

(* owner and top_level_registers are not in the C++ module: owner[p] is the  *)
(* function whose body holds position p, 0 for the code a host runs          *)
(* directly, and top_level_registers is how many registers that code uses.   *)
ModuleRecords ==
  [code : Seq(Instructions), constant_data : Seq(Byte), constant_table : Seq(Nat),
   functions : Seq(FunctionEntries), owner : Seq(Nat), top_level_registers : Nat]

RegistersOf(m, o) ==
  IF o = 0 THEN m.top_level_registers ELSE m.functions[o].register_count

ReturnTypeOf(m, o) == IF o = 0 THEN VoidType ELSE m.functions[o].return_type

UsesLhs == {"mov", "unary", "binary", "binary_k", "binary_i", "load", "store", "alloca",
            "jnz_i", "ret"}
UsesRhs == {"binary", "store", "store_sp"}
UsesDst == {"mov_i", "mov", "lookup_k", "unary", "binary", "binary_k", "binary_i", "load",
            "load_sp", "mov_sp_i", "call_i"}

(* The emitter's contract for the instruction at position p (module.h:22     *)
(* calls register_count "a programmer-level contract enforced by the         *)
(* bytecode emitter, not at runtime"): registers within the function's       *)
(* window (those it passes arguments in too), jumps within the function,     *)
(* calls and returns of the right kind.                                      *)
WellFormedInstruction(m, p) ==
  LET i == m.code[p]
      o == m.owner[p]
      here(q) == q \in DOMAIN m.code /\ m.owner[q] = o
  IN  /\ i.op \in UsesLhs => i.lhs < RegistersOf(m, o)
      /\ i.op \in UsesRhs => i.rhs < RegistersOf(m, o)
      /\ i.op \in UsesDst => i.dst < RegistersOf(m, o)
      /\ i.op \notin {"jmp_i", "ret", "ret_void", "exit"} => here(p + 1)
      /\ i.op \in {"jmp_i", "jnz_i"} => here(p + 1 + i.imm)
      /\ i.op \in {"call_i", "call_void_i"} =>
           /\ i.callee \in DOMAIN m.functions
           /\ i.lhs + Len(m.functions[i.callee].parameter_types) <= RegistersOf(m, o)
      /\ i.op = "call_i" => m.functions[i.callee].return_type # VoidType
      /\ i.op = "call_void_i" => m.functions[i.callee].return_type = VoidType
      /\ i.op = "ret" => o # 0 /\ ReturnTypeOf(m, o) # VoidType
      /\ i.op = "ret_void" => o # 0 /\ ReturnTypeOf(m, o) = VoidType
      /\ i.op = "unary" => i.fn \in UnaryFn
      /\ i.op \in {"binary", "binary_k", "binary_i"} => i.fn \in ArithmeticFn \cup ComparisonFn
      /\ i.op \in {"lookup_k", "binary_k"} => i.rhs \in DOMAIN m.constant_table
      /\ i.op = "binary_k" =>
           m.constant_table[i.rhs] + 1..m.constant_table[i.rhs] + i.size
             \subseteq DOMAIN m.constant_data

WellFormed(m) ==
  /\ m \in ModuleRecords
  /\ Len(m.owner) = Len(m.code)
  /\ \A p \in DOMAIN m.code : m.owner[p] \in 0..Len(m.functions)
                              /\ WellFormedInstruction(m, p)
  /\ \A f \in DOMAIN m.functions :
       /\ m.functions[f].position \in DOMAIN m.code
       /\ m.owner[m.functions[f].position] = f
       /\ Len(m.functions[f].parameter_types) <= m.functions[f].register_count

ASSUME VirtualMachineAssumption ==
  /\ \A m \in Modules : WellFormed(m)
  /\ HostArguments \subseteq Seq([type : ScalarType, value : Int])
  /\ StackSize \in Nat
  /\ MaxRegisters \in Nat
  /\ MaxCallDepth \in Nat

----------------------------------------------------------------------------
VARIABLES
  module,               \* the loaded module
  instruction_pointer,
  registers,            \* the register file; it grows and never shrinks
  stack,
  stack_pointer,
  base_register,        \* where the running function's window starts
  call_stack,
  status,               \* "idle", inside "run" or "call", or "undefined" behaviour met
  guard,                \* the locals of the active run() or call(): its State_guard
  result                \* what the last host operation gave its caller

machine == <<instruction_pointer, registers, stack, stack_pointer, base_register, call_stack>>
host == <<module, status, guard, result>>
vars == <<machine, host>>

CallFrames == [return_address : Int, base_register : Nat, stack_pointer : Int,
               return_register : Nat \cup {NoRegister}]

NoModule == [code |-> << >>, constant_data |-> << >>, constant_table |-> << >>,
             functions |-> << >>, owner |-> << >>, top_level_registers |-> 0]

NoGuard == [instruction_pointer |-> NoPosition, base_register |-> 0, stack_pointer |-> 0,
            call_stack_size |-> 0, return_register |-> NoRegister, function |-> 0,
            arguments |-> << >>]

ResultKind == {"none", "loaded", "exited", "void", "value", "exception", "unknown_function",
               "argument_count", "argument_type", "unsupported_argument"}

Result(kind, value) == [kind |-> kind, value |-> value]

Init ==
  /\ module = NoModule
  /\ instruction_pointer = NoPosition
  /\ registers = << >>
  /\ stack = [a \in 0..StackSize - 1 |-> 0]
  /\ stack_pointer = StackSize
  /\ base_register = 0
  /\ call_stack = << >>
  /\ status = "idle"
  /\ guard = NoGuard
  /\ result = Result("none", 0)

Running == status \in {"run", "call"}
Instruction == module.code[instruction_pointer]
At(op) == Running /\ instruction_pointer \in DOMAIN module.code /\ Instruction.op = op

(* get_register_value and set_register_value, relative to the window. *)
Register(k) == registers[base_register + k + 1]
WithRegister_Absolute(k, v) == [registers EXCEPT ![k + 1] = v]     \* mutant: no base
WithRegister(k, v) == [registers EXCEPT ![base_register + k + 1] = v]

Grown_OneShort(size) ==     \* mutant: grown to the last index, not to the size
  IF size > Len(registers)
  THEN [k \in 1..size - 1 |-> IF k <= Len(registers) THEN registers[k] ELSE 0]
  ELSE registers

(* grow_registers: new registers are zero. *)
Grown(size) ==
  IF size > Len(registers)
  THEN [k \in 1..size |-> IF k <= Len(registers) THEN registers[k] ELSE 0]
  ELSE registers

CallersFrames == [k \in 1..guard.call_stack_size |-> call_stack[k]]

RestoreHost_KeepsBase ==     \* mutant: the window is not restored
  /\ instruction_pointer' = guard.instruction_pointer
  /\ stack_pointer' = guard.stack_pointer
  /\ call_stack' = CallersFrames
  /\ UNCHANGED base_register

(* ~State_guard: call() gives the host its machine back on every exit. *)
RestoreHost ==
  /\ instruction_pointer' = guard.instruction_pointer
  /\ base_register' = guard.base_register
  /\ stack_pointer' = guard.stack_pointer
  /\ call_stack' = CallersFrames

(* An exception leaves run(), which restores nothing, or call(), which does. *)
(* frames and base are what the machine holds when it is thrown.             *)
Throw(frames, base) ==
  /\ Running
  /\ status' = "idle"
  /\ guard' = NoGuard
  /\ result' = Result("exception", 0)
  /\ UNCHANGED <<module, registers, stack>>
  /\ IF status = "call"
     THEN RestoreHost
     ELSE /\ instruction_pointer' = instruction_pointer + 1
          /\ base_register' = base
          /\ call_stack' = frames
          /\ UNCHANGED stack_pointer

(* Undefined behaviour of the C++: a stack or constant access outside the     *)
(* array, a division that traps.  Nothing is said of the machine after it.    *)
BecomeUndefined ==
  /\ status' = "undefined"
  /\ UNCHANGED <<machine, module, guard, result>>

Advance == instruction_pointer' = instruction_pointer + 1

(* An instruction that only writes its destination register. *)
Assign(v) ==
  /\ registers' = WithRegister(Instruction.dst, v)
  /\ Advance
  /\ UNCHANGED <<stack, stack_pointer, base_register, call_stack, host>>

----------------------------------------------------------------------------
(* Straight-line instructions. *)

MovImmediate == At("mov_i") /\ Assign(ToWord(Instruction.imm))
Mov == At("mov") /\ Assign(Register(Instruction.lhs))
LookupConstant ==
  /\ At("lookup_k")
  /\ Assign(PointerTo(ConstantSpace, module.constant_table[Instruction.rhs]))
MovStackPointer ==
  At("mov_sp_i") /\ Assign(PointerTo(StackSpace, stack_pointer + Instruction.imm))
Unary ==
  /\ At("unary")
  /\ Assign(UnaryResult(Instruction.fn, Instruction.size,
                        Signed(Register(Instruction.lhs), Instruction.size)))

(* The right operand of a binary instruction: a register, a constant of the  *)
(* module, or an immediate.                                                  *)
RightOperand ==
  CASE Instruction.op = "binary" -> Signed(Register(Instruction.rhs), Instruction.size)
    [] Instruction.op = "binary_k" ->
         Signed(LoadBytes(module.constant_data, module.constant_table[Instruction.rhs] + 1,
                          Instruction.size), Instruction.size)
    [] Instruction.op = "binary_i" -> Signed(Instruction.imm, Instruction.size)

Binary ==
  /\ \E op \in {"binary", "binary_k", "binary_i"} : At(op)
  /\ LET a == Signed(Register(Instruction.lhs), Instruction.size)
     IN  IF Divides(Instruction.fn, Instruction.size, a, RightOperand)
         THEN Assign(BinaryResult(Instruction.fn, Instruction.size, a, RightOperand))
         ELSE BecomeUndefined

AllocaImmediate ==
  /\ At("alloca_i")
  /\ stack_pointer' = stack_pointer - Instruction.imm
  /\ Advance
  /\ UNCHANGED <<registers, stack, base_register, call_stack, host>>

Alloca ==
  /\ At("alloca")
  /\ stack_pointer' = stack_pointer - Signed(Register(Instruction.lhs), WordBytes)
  /\ Advance
  /\ UNCHANGED <<registers, stack, base_register, call_stack, host>>

----------------------------------------------------------------------------
(* Memory instructions.  No access is bounds-checked. *)

LoadFrom(memory, address) ==
  IF InMemory(memory, address, Instruction.size)
  THEN Assign(Extended(LoadBytes(memory, address, Instruction.size), Instruction.size))
  ELSE BecomeUndefined

StoreTo(address) ==
  IF InMemory(stack, address, Instruction.size)
  THEN /\ stack' = StoreBytes(stack, address, Instruction.size, Register(Instruction.rhs))
       /\ Advance
       /\ UNCHANGED <<registers, stack_pointer, base_register, call_stack, host>>
  ELSE BecomeUndefined

Load ==
  /\ At("load")
  /\ LET w == Register(Instruction.lhs)
         address == PointerOffset(w) + Instruction.imm
     IN  CASE PointerSpace(w) = ConstantSpace -> LoadFrom(module.constant_data, address + 1)
           [] PointerSpace(w) = StackSpace -> LoadFrom(stack, address)
           [] OTHER -> Throw(call_stack, base_register)

(* A store to constant memory, to the heap or to an untagged word throws. *)
Store ==
  /\ At("store")
  /\ LET w == Register(Instruction.lhs)
     IN  IF PointerSpace(w) = StackSpace
         THEN StoreTo(PointerOffset(w) + Instruction.imm)
         ELSE Throw(call_stack, base_register)

LoadStackPointer ==
  At("load_sp") /\ LoadFrom(stack, stack_pointer + Instruction.imm)

StoreStackPointer ==
  At("store_sp") /\ StoreTo(stack_pointer + Instruction.imm)

----------------------------------------------------------------------------
(* Control. *)

Jump_FromItself ==     \* mutant: the offset counts from the jump, not after it
  /\ At("jmp_i")
  /\ instruction_pointer' = instruction_pointer + Instruction.imm
  /\ UNCHANGED <<registers, stack, stack_pointer, base_register, call_stack, host>>

Jump ==
  /\ At("jmp_i")
  /\ instruction_pointer' = instruction_pointer + 1 + Instruction.imm
  /\ UNCHANGED <<registers, stack, stack_pointer, base_register, call_stack, host>>

(* The condition is read as an int32_t: the high half of the register is not *)
(* looked at.                                                                *)
ConditionBytes == IF WordBytes > 1 THEN WordBytes \div 2 ELSE 1

JumpNonZero ==
  /\ At("jnz_i")
  /\ instruction_pointer' =
       IF Signed(Register(Instruction.lhs), ConditionBytes) # 0
       THEN instruction_pointer + 1 + Instruction.imm
       ELSE instruction_pointer + 1
  /\ UNCHANGED <<registers, stack, stack_pointer, base_register, call_stack, host>>

CallFrame(address, base, sp, dst) ==
  [return_address |-> address, base_register |-> base, stack_pointer |-> sp,
   return_register |-> dst]

ReturnRegister_Relative ==     \* mutant: the destination is not rebased
  IF Instruction.op = "call_i" THEN Instruction.dst ELSE NoRegister

(* Where a callee's value goes, as an index of the register file. *)
ReturnRegister ==
  IF Instruction.op = "call_i" THEN base_register + Instruction.dst ELSE NoRegister

(* call_i and call_void_i.  The frame is pushed before the register file is  *)
(* grown, so an allocation failure can strike on either side of the push.    *)
CallFunction ==
  /\ At("call_i") \/ At("call_void_i")
  /\ LET f == module.functions[Instruction.callee]
         newBase == base_register + Instruction.lhs
         required == newBase + f.register_count
         frames == Append(call_stack, CallFrame(instruction_pointer + 1, base_register,
                                                stack_pointer, ReturnRegister))
     IN  IF Len(call_stack) >= MaxCallDepth
         THEN Throw(call_stack, base_register)
         ELSE IF required > Len(registers) /\ required > MaxRegisters
         THEN Throw(frames, newBase)
         ELSE /\ call_stack' = frames
              /\ base_register' = newBase
              /\ registers' = Grown(required)
              /\ instruction_pointer' = f.position
              /\ UNCHANGED <<stack, stack_pointer, host>>

TopFrame == call_stack[Len(call_stack)]
PoppedFrames_None == call_stack     \* mutant: the frame is read and not popped
PoppedFrames == [k \in 1..Len(call_stack) - 1 |-> call_stack[k]]

ReturnTo_KeepsStackPointer(frame) ==     \* mutant: the callee's allocas stay
  /\ call_stack' = PoppedFrames
  /\ base_register' = frame.base_register
  /\ instruction_pointer' = frame.return_address
  /\ UNCHANGED <<stack, stack_pointer, host>>

ReturnTo(frame) ==
  /\ call_stack' = PoppedFrames
  /\ base_register' = frame.base_register
  /\ stack_pointer' = frame.stack_pointer
  /\ instruction_pointer' = frame.return_address
  /\ UNCHANGED <<stack, host>>

(* Both returns pop without asking whether there is a frame, and ret writes  *)
(* through return_register after an assert: elsewhere they are undefined.    *)
Return ==
  /\ At("ret")
  /\ IF call_stack # << >> /\ TopFrame.return_register # NoRegister
     THEN /\ registers' = [registers EXCEPT ![TopFrame.return_register + 1]
                             = Register(Instruction.lhs)]
          /\ ReturnTo(TopFrame)
     ELSE BecomeUndefined

ReturnVoid ==
  /\ At("ret_void")
  /\ IF call_stack # << >>
     THEN UNCHANGED registers /\ ReturnTo(TopFrame)
     ELSE BecomeUndefined

----------------------------------------------------------------------------
(* The host's operations. *)

LoadModule(m) ==
  /\ status = "idle"
  /\ module' = m
  /\ instruction_pointer' = 1
  /\ result' = Result("loaded", 0)
  /\ UNCHANGED <<registers, stack, stack_pointer, base_register, call_stack, status, guard>>

(* A host runs top-level code after giving it the registers it uses. *)
Run ==
  /\ status = "idle"
  /\ instruction_pointer \in DOMAIN module.code
  /\ module.owner[instruction_pointer] = 0
  /\ base_register + module.top_level_registers <= MaxRegisters
  /\ registers' = Grown(base_register + module.top_level_registers)
  /\ status' = "run"
  /\ guard' = [NoGuard EXCEPT !.call_stack_size = Len(call_stack)]
  /\ result' = Result("none", 0)
  /\ UNCHANGED <<module, instruction_pointer, stack, stack_pointer, base_register, call_stack>>

(* call()'s checks, in the order the code makes them; a call they refuse     *)
(* leaves the machine as it was.                                             *)
Mismatches(f, arguments) ==
  {k \in DOMAIN arguments : arguments[k].type # module.functions[f].parameter_types[k]}

Refusal(f, arguments) ==
  CASE f \notin DOMAIN module.functions -> "unknown_function"
    [] f \in DOMAIN module.functions
         /\ Len(arguments) # Len(module.functions[f].parameter_types) -> "argument_count"
    [] f \in DOMAIN module.functions
         /\ Len(arguments) = Len(module.functions[f].parameter_types) ->
           IF Mismatches(f, arguments) # {} THEN "argument_type" ELSE "none"

RefuseCall(f, arguments) ==
  /\ status = "idle"
  /\ module # NoModule
  /\ Refusal(f, arguments) # "none"
  /\ result' = Result(Refusal(f, arguments), 0)
  /\ UNCHANGED <<machine, module, status, guard>>

(* The register an argument becomes. *)
Marshalled(argument) ==
  IF argument.type = BoolType THEN IF argument.value # 0 THEN 1 ELSE 0
                              ELSE Extended(argument.value, argument.type)

(* The window with the first n arguments in it. *)
WithArguments(window, arguments, n) ==
  [k \in DOMAIN window |-> IF k <= n THEN Marshalled(arguments[k]) ELSE window[k]]

(* A call that fails under State_guard, before or while it marshals: only    *)
(* the register file and the result show it.                                 *)
FailCall(kind, file) ==
  /\ registers' = file
  /\ result' = Result(kind, 0)
  /\ UNCHANGED <<module, instruction_pointer, stack, stack_pointer, base_register,
                 call_stack, status, guard>>

(* module.functions[f] is the function its name is bound to. *)
Call(f, arguments) ==
  /\ status = "idle"
  /\ module # NoModule
  /\ Refusal(f, arguments) = "none"
  /\ LET entry == module.functions[f]
         n == Len(arguments)
         size == IF n > entry.register_count THEN n ELSE entry.register_count
         window == Grown(size)
         void == {k \in 1..n : arguments[k].type = VoidType}
         file == WithArguments(window, arguments, n)
         slot == Len(window)
         returns == entry.return_type # VoidType
         full == IF returns THEN Append(file, 0) ELSE file
     IN  IF size > Len(registers) /\ size > MaxRegisters
         THEN FailCall("exception", registers)
         ELSE IF void # {}
         THEN \E k \in void : /\ \A j \in void : k <= j
                              /\ FailCall("unsupported_argument",
                                          WithArguments(window, arguments, k - 1))
         ELSE IF returns /\ Len(full) > MaxRegisters
         THEN FailCall("exception", file)
         ELSE IF Len(call_stack) >= MaxCallDepth
         THEN FailCall("exception", full)
         ELSE /\ registers' = full
              /\ call_stack' = Append(call_stack,
                                      CallFrame(ExitStub, base_register, stack_pointer,
                                                IF returns THEN slot ELSE NoRegister))
              /\ base_register' = 0
              /\ instruction_pointer' = entry.position
              /\ status' = "call"
              /\ guard' = [instruction_pointer |-> instruction_pointer,
                           base_register |-> base_register,
                           stack_pointer |-> stack_pointer,
                           call_stack_size |-> Len(call_stack),
                           return_register |-> IF returns THEN slot ELSE NoRegister,
                           function |-> f,
                           arguments |-> arguments]
              /\ result' = Result("none", 0)
              /\ UNCHANGED <<module, stack, stack_pointer>>

(* run() meets `exit`, wherever it is: at the end of top-level code, in the  *)
(* stub a call() returns to, or in the body of a function.                   *)
FinishRun ==
  /\ status = "run"
  /\ At("exit")
  /\ Advance
  /\ status' = "idle"
  /\ guard' = NoGuard
  /\ result' = Result("exited", 0)
  /\ UNCHANGED <<module, registers, stack, stack_pointer, base_register, call_stack>>

Decoded(type, w) ==
  IF type = BoolType THEN IF w # 0 THEN 1 ELSE 0 ELSE Signed(w, type)

FinishCall ==
  /\ status = "call"
  /\ instruction_pointer = ExitStub \/ At("exit")
  /\ status' = "idle"
  /\ guard' = NoGuard
  /\ result' = IF guard.return_register = NoRegister THEN Result("void", 0)
               ELSE Result("value", Decoded(module.functions[guard.function].return_type,
                                            registers[guard.return_register + 1]))
  /\ RestoreHost
  /\ UNCHANGED <<module, registers, stack>>

Step ==
  \/ MovImmediate \/ Mov \/ LookupConstant \/ MovStackPointer \/ Unary \/ Binary
  \/ AllocaImmediate \/ Alloca
  \/ Load \/ Store \/ LoadStackPointer \/ StoreStackPointer
  \/ Jump \/ JumpNonZero \/ CallFunction \/ Return \/ ReturnVoid
  \/ FinishRun \/ FinishCall

Host ==
  \/ \E m \in Modules : LoadModule(m)
  \/ Run
  \/ \E f \in 0..Len(module.functions), arguments \in HostArguments :
       RefuseCall(f, arguments) \/ Call(f, arguments)

Next == Step \/ Host

(* run() is a loop: the machine never stops between two instructions. *)
Spec == Init /\ [][Next]_vars /\ WF_vars(Step)

----------------------------------------------------------------------------
(* Correctness.  Above the frames the host had (Floor of them), level k of   *)
(* the call stack is an activation: the code at PositionAt(k) running in the *)
(* window that starts at BaseAt(k).  Level Len(call_stack) is the running    *)
(* one, and level Floor is the host's own under call().                      *)

Floor == guard.call_stack_size

PositionAt(k) == IF k = Len(call_stack) THEN instruction_pointer
                                        ELSE call_stack[k + 1].return_address
BaseAt(k) == IF k = Len(call_stack) THEN base_register
                                    ELSE call_stack[k + 1].base_register
OwnerAt(k) == module.owner[PositionAt(k)]

Activations == CASE status = "run" -> Floor..Len(call_stack)
                 [] status = "call" -> Floor + 1..Len(call_stack)
                 [] OTHER -> {}

TypeOK ==
  /\ module \in Modules \cup {NoModule}
  /\ instruction_pointer \in Int
  /\ registers \in Seq(Word)
  /\ stack \in [0..StackSize - 1 -> Byte]
  /\ stack_pointer \in Int
  /\ base_register \in Nat
  /\ call_stack \in Seq(CallFrames)
  /\ status \in {"idle", "run", "call", "undefined"}
  /\ guard \in [instruction_pointer : Int, base_register : Nat, stack_pointer : Int,
                call_stack_size : Nat, return_register : Nat \cup {NoRegister},
                function : Nat, arguments : HostArguments \cup {<< >>}]
  /\ result \in [kind : ResultKind, value : Int]

(* Every suspended and running activation stays on code of the module, and   *)
(* its whole window lies in the register file: relative_register never       *)
(* indexes past the vector, whatever was called, grew or threw before.       *)
WindowsInBounds ==
  \A k \in Activations :
    /\ PositionAt(k) \in DOMAIN module.code
    /\ BaseAt(k) + RegistersOf(module, OwnerAt(k)) <= Len(registers)

(* A frame has a return register exactly when the function it was pushed for *)
(* returns a value, so the assert of run_ret cannot fail; and the register   *)
(* is in its caller's window, or is the slot call() allocated.               *)
ReturnsMatch ==
  \A k \in Floor + 1..Len(call_stack) :
    Running =>
      LET dst == call_stack[k].return_register
      IN  /\ dst = NoRegister <=> ReturnTypeOf(module, OwnerAt(k)) = VoidType
          /\ dst # NoRegister => dst < Len(registers)
          /\ dst # NoRegister /\ k - 1 \in Activations =>
               /\ BaseAt(k - 1) <= dst
               /\ dst < BaseAt(k - 1) + RegistersOf(module, OwnerAt(k - 1))

(* Under call() the first frame leads back to the stub, later ones do not,   *)
(* and run() sees the stub exactly when that first frame is popped.          *)
StubBelowFirstFrame ==
  status = "call" =>
    /\ Floor <= Len(call_stack)
    /\ PositionAt(Floor) = ExitStub
    /\ Len(call_stack) > Floor =>
         /\ call_stack[Floor + 1].base_register = guard.base_register
         /\ call_stack[Floor + 1].stack_pointer = guard.stack_pointer
         /\ call_stack[Floor + 1].return_register = guard.return_register

(* The C++ frame of the active run() or call() remembers a call stack that   *)
(* is still there, and a slot for the result exactly when there is one.      *)
GuardHolds ==
  /\ Running => module \in Modules /\ Floor <= Len(call_stack)
  /\ status = "run" => PositionAt(Floor) \in DOMAIN module.code /\ OwnerAt(Floor) = 0
  /\ status = "call" /\ guard.return_register # NoRegister =>
       /\ guard.return_register < Len(registers)
       /\ guard.function \in DOMAIN module.functions
       /\ module.functions[guard.function].return_type # VoidType

(* The inductive invariant the theorems rest on. *)
IInv == TypeOK /\ WindowsInBounds /\ ReturnsMatch /\ StubBelowFirstFrame /\ GuardHolds

(* What the host sees of the machine: during a call(), what it had before.   *)
HostView ==
  IF status = "call"
  THEN <<guard.instruction_pointer, guard.base_register, guard.stack_pointer, CallersFrames>>
  ELSE <<instruction_pointer, base_register, stack_pointer, call_stack>>

(* A call(), however it goes and however it ends (a return, an exception at  *)
(* any depth, an `exit` in a callee), leaves the host's instruction pointer, *)
(* window, stack and frames as they were.                                    *)
CallsHideTheirFrames ==
  [][ "call" \in {status, status'} /\ status' # "undefined" => HostView' = HostView ]_vars

(* The activations of a run() or call() as private windows: CallDiscipline.  *)
(* A suspended activation keeps the registers below its callee's window.     *)
Suspended ==
  LET lowest == IF status = "run" THEN Floor ELSE Floor + 1
  IN  [j \in 1..Len(call_stack) - lowest |->
        LET k == lowest + j - 1
            frame == call_stack[k + 1]
        IN  [kept |-> SubSeq(registers, BaseAt(k) + 1, BaseAt(k + 1)),
             dst |-> IF frame.return_register = NoRegister THEN NoRegister
                     ELSE frame.return_register - frame.base_register,
             stack_pointer |-> frame.stack_pointer,
             resume |-> frame.return_address]]

InActivation == Running /\ instruction_pointer # ExitStub

Discipline ==
  INSTANCE CallDiscipline WITH
    active <- InActivation,
    position <- instruction_pointer,
    window <- IF InActivation THEN SubSeq(registers, base_register + 1, Len(registers))
              ELSE << >>,
    suspended <- IF InActivation THEN Suspended ELSE << >>

(* The register file, the frame stack and the return protocol together give  *)
(* every activation the private windows CallDiscipline promises.             *)
ActivationsArePrivate == Discipline!Spec

(* run() comes back to the host. *)
EveryRunEnds == Running ~> ~Running
============================================================================
