------------------------------- MODULE Hlir -------------------------------
(* benson::hlir: the type pool, constants and operands, functions made of    *)
(* basic blocks, and interpret(), which runs one on constants until it       *)
(* returns or runs out of fuel.                                              *)
(*                                                                           *)
(* A Type* is a position in the pool, a Function* a position in the          *)
(* translation unit, a Basic_block* a position in its function; registers    *)
(* count from 0, as in the source.  Int32 and Int8 stand for the integer     *)
(* types, Bool, Void and Type for themselves; Int32's overflow, which is     *)
(* undefined, is left out.                                                   *)
EXTENDS Integers, Sequences, FiniteSets, TLC

CONSTANT Fuel     \* what interpret() gives an evaluation

ASSUME HlirAssumption == Fuel \in Nat

----------------------------------------------------------------------------
(* Type_pool. *)

Int32 == 1
Bool == 2
Void == 3
TypeType == 4
Int8 == 5

ScalarPool ==
  <<[kind |-> "Int32"], [kind |-> "Bool"], [kind |-> "Void"], [kind |-> "Type"], [kind |-> "Int8"]>>

IntegerTypes == {Int8, Int32}
LargestInteger == (Int8 :> 127) @@ (Int32 :> 2147483647)

PointerType(pointee, is_mutable) ==
  [kind |-> "Pointer", pointee |-> pointee, is_mutable |-> is_mutable]
SizedArrayType(element, size) == [kind |-> "Sized_array", element |-> element, size |-> size]
UnsizedArrayType(element) == [kind |-> "Unsized_array", element |-> element]

FunctionType(parameters, result) ==
  [kind |-> "Function", parameters |-> parameters, result |-> result]

Interned_Again(pool, type) == Append(pool, type)     \* mutant: no lookup

(* function_type(), pointer_type(), sized_array_type() and                   *)
(* unsized_array_type(): the pool with the type in it; its place is TypeIn.  *)
Interned(pool, type) ==
  IF \E t \in DOMAIN pool : pool[t] = type THEN pool ELSE Append(pool, type)

TypeIn(pool, type) == CHOOSE t \in DOMAIN pool : pool[t] = type

IsObjectType(pool, t) == pool[t].kind \notin {"Type", "Function"}

----------------------------------------------------------------------------
(* Operands.  A constant's value is a number: 0 and 1 for a Bool, the pool's *)
(* position for a type, the unit's position for a function.                  *)

Constant(type, value) == [type |-> type, value |-> value]
VoidValue == Constant(Void, 0)
BoolValue(b) == Constant(Bool, IF b THEN 1 ELSE 0)
Register(r) == [register |-> r]
IsRegister(operand) == "register" \in DOMAIN operand

(* The operators, one for each type of the operands it is defined on. *)
Difference(type) == [op |-> "subtract", operand |-> type, result |-> type]
Equality(type) == [op |-> "equal", operand |-> type, result |-> Bool]
Overloads ==
  {Difference(type) : type \in {Int8, Int32}} \cup {Equality(type) : type \in {Int8, Int32, Bool}}

(* static_cast<T>() of an int. *)
Narrowed(type, n) == IF type = Int8 THEN ((n + 128) % 256) - 128 ELSE n

Applied(overload, lhs, rhs) ==
  IF overload.op = "equal" THEN BoolValue(lhs.value = rhs.value)
  ELSE Constant(overload.result, Narrowed(overload.result, lhs.value - rhs.value))

Negated(operand) == Constant(operand.type, Narrowed(operand.type, -operand.value))

----------------------------------------------------------------------------
(* Functions. *)

NoTerminator == [to |-> "none"]
EmptyBlock == [parameters |-> << >>, instructions |-> << >>, terminator |-> NoTerminator]

JumpTo(target, arguments) == [to |-> "jump", target |-> target, arguments |-> arguments]
BranchTo(condition, then, else) ==
  [to |-> "branch", condition |-> condition, then |-> then, else |-> else]
ReturnOf(operand) == [to |-> "return", value |-> operand]

BinaryInstruction(overload, result, lhs, rhs) ==
  [does |-> "binary", overload |-> overload, result |-> result, lhs |-> lhs, rhs |-> rhs]
NegateInstruction(type, result, operand) ==
  [does |-> "negate", type |-> type, result |-> result, operand |-> operand]
CallInstruction(result, callee, arguments) ==
  [does |-> "call", result |-> result, callee |-> callee, arguments |-> arguments]

----------------------------------------------------------------------------
(* interpret(). *)

(* A register file is a sequence: register r is at r + 1. *)
Operand(operand, registers) ==
  IF IsRegister(operand) THEN registers[operand.register + 1] ELSE operand

Seeded(registers, parameters, values) ==
  [place \in DOMAIN registers |->
     IF \E i \in DOMAIN values : parameters[i] + 1 = place
     THEN values[CHOOSE i \in DOMAIN values : parameters[i] + 1 = place]
     ELSE registers[place]]

(* The arguments of a jump are passed one after the other. *)
Passed(registers, parameters, arguments) ==
  LET file[n \in Nat] ==
        IF n = 0 THEN registers
        ELSE [file[n - 1] EXCEPT ![parameters[n] + 1] = Operand(arguments[n], file[n - 1])]
  IN  file[Len(arguments)]

(* An activation is about to execute an instruction of a block or, past the   *)
(* last one, its terminator.                                                  *)
Entry(functions, f, arguments) ==
  [function |-> f, block |-> 1, index |-> 1,
   registers |-> Seeded([place \in 1..functions[f].register_count |-> VoidValue],
                        functions[f].blocks[1].parameters, arguments)]

InstructionOf(functions, at) == functions[at.function].blocks[at.block].instructions[at.index]

(* Past its instruction, with the instruction's result. *)
Past(functions, at, result) ==
  [at EXCEPT !.index = @ + 1, !.registers[InstructionOf(functions, at).result + 1] = result]

(* A run of interpret() has its activations, the innermost first, until it    *)
(* has ended.                                                                 *)
Running(calls, fuel) == [ended |-> "no", calls |-> calls, fuel |-> fuel]
Ended(how, value) == [ended |-> how, value |-> value]

(* execute_instruction(): each costs fuel, a call's also what the callee's    *)
(* cost.  An operand of another type than its instruction's is a              *)
(* std::bad_variant_access.                                                   *)
Executed(functions, run) ==
  LET at == Head(run.calls)
      inst == InstructionOf(functions, at)
      value(operand) == Operand(operand, at.registers)
      with(result) == Running(<<Past(functions, at, result)>> \o Tail(run.calls), run.fuel - 1)
  IN  IF run.fuel <= 0 THEN Ended("fuel", VoidValue)
      ELSE IF inst.does = "binary"
      THEN IF /\ value(inst.lhs).type = inst.overload.operand
              /\ value(inst.rhs).type = inst.overload.operand
           THEN with(Applied(inst.overload, value(inst.lhs), value(inst.rhs)))
           ELSE Ended("exception", VoidValue)
      ELSE IF inst.does = "negate"
      THEN IF value(inst.operand).type = inst.type
           THEN with(Negated(value(inst.operand))) ELSE Ended("exception", VoidValue)
      ELSE Running(<<Entry(functions, inst.callee,
                           [k \in DOMAIN inst.arguments |-> value(inst.arguments[k])])>> \o run.calls,
                   run.fuel - 1)

(* The end of a block: an assert if it has no terminator. *)
Left(functions, run) ==
  LET at == Head(run.calls)
      callers == Tail(run.calls)
      blocks == functions[at.function].blocks
      t == blocks[at.block].terminator
      value(operand) == Operand(operand, at.registers)
      enter(target, passed) ==
        Running(<<[at EXCEPT !.block = target, !.index = 1,
                             !.registers = Passed(@, blocks[target].parameters, passed)]>> \o callers,
                run.fuel)
  IN  CASE t.to = "none" -> Ended("assertion", VoidValue)
        [] t.to = "jump" -> enter(t.target, t.arguments)
        [] t.to = "branch" ->
             IF value(t.condition).type # Bool THEN Ended("exception", VoidValue)
             ELSE enter(IF value(t.condition) = BoolValue(TRUE) THEN t.then ELSE t.else, << >>)
        [] t.to = "return" ->
             IF callers = << >> THEN Ended("value", value(t.value))
             ELSE Running(<<Past(functions, Head(callers), value(t.value))>> \o Tail(callers), run.fuel)

Advanced(functions, run) ==
  IF run.ended # "no" THEN run
  ELSE LET at == Head(run.calls)
       IN  IF at.index <= Len(functions[at.function].blocks[at.block].instructions)
           THEN Executed(functions, run) ELSE Left(functions, run)

(* No run is longer: an instruction costs fuel, so that there are no more     *)
(* activations than `fuel` and the first, and none is in a block twice, as    *)
(* the front end compiles no loops.                                           *)
Longest(functions, fuel) ==
  (fuel + 1) * (1 + Cardinality(UNION {{f} \X DOMAIN functions[f].blocks : f \in DOMAIN functions}))

(* Running function f of `functions` on constants. *)
Interpret(functions, f, arguments, fuel) ==
  LET run[n \in Nat] ==
        IF n = 0 THEN Running(<<Entry(functions, f, arguments)>>, fuel)
        ELSE Advanced(functions, run[n - 1])
  IN  run[Longest(functions, fuel)]
============================================================================
