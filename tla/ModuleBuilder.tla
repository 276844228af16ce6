-------------------------- MODULE ModuleBuilder --------------------------
(* benson::bytecode::Module_builder and Bytecode_writer: an assembler that  *)
(* chooses a narrow or a wide form for every instruction as it is emitted,  *)
(* jumps to labels placed before or after the jump, and shares constants.   *)
(*                                                                          *)
(* A code position counts bytes from 0, as in the source; the byte at       *)
(* position p is code[p + 1].  A narrow operand is one byte of base         *)
(* ByteModulus, a wide one is two, so 2^16 is ByteWeight[2].                *)
EXTENDS Words, FiniteSets

CONSTANTS
  Instructions,     \* what the client emits, jumps apart: [op, operands]
  JumpConditions,   \* the operands that precede a jump's offset
  ConstantValues,   \* the byte sequences constants are made from
  Names,            \* function names
  MaxCode,          \* bound on the writer's position
  MaxLabels,        \* bound on the labels made
  MaxHandles,       \* bound on the constants asked for
  MaxBuilds         \* bound on the modules built by one builder

(* One opcode of each operand shape, with its code in the enumeration; the   *)
(* others of a shape differ in the code only.                                *)
Exit == 0
Wide == 1
JmpI == 2
JnzI == 3
CallI == 4
CallVoidI == 5
Ret == 6
RetVoid == 7
LookupK == 8
Load == 9
MovI == 18
AllocaI == 148

Unsigned == "unsigned"     \* a register, a constant or a function
Immediate == "immediate"   \* an int16_t

Shape == [op \in {Exit, JmpI, JnzI, CallI, CallVoidI, Ret, RetVoid, LookupK, Load, MovI,
                  AllocaI} |->
  CASE op \in {Exit, RetVoid} -> << >>
    [] op = Ret -> <<Unsigned>>
    [] op \in {JmpI, AllocaI} -> <<Immediate>>
    [] op \in {CallVoidI, LookupK} -> <<Unsigned, Unsigned>>
    [] op = JnzI -> <<Unsigned, Immediate>>
    [] op = MovI -> <<Immediate, Unsigned>>
    [] op = CallI -> <<Unsigned, Unsigned, Unsigned>>
    [] op = Load -> <<Unsigned, Immediate, Unsigned>>]

InRange(v, n) == Signed(v, n) = v     \* std::in_range of an n-byte integer

FitsWide(kind, v) ==
  IF kind = Immediate THEN InRange(v, 2) ELSE v \in 0..ByteWeight[2] - 1

WellFormedInstruction(i) ==
  /\ i.op \in DOMAIN Shape \ {JmpI, JnzI}
  /\ DOMAIN i.operands = DOMAIN Shape[i.op]
  /\ \A k \in DOMAIN i.operands : FitsWide(Shape[i.op][k], i.operands[k])

ASSUME ModuleBuilderAssumption ==
  /\ WordBytes >= 2
  /\ Instructions \subseteq [op : Nat, operands : Seq(Int)]
  /\ \A i \in Instructions : WellFormedInstruction(i)
  /\ JumpConditions \subseteq Seq(0..ByteWeight[2] - 1)
  /\ \A c \in JumpConditions : Len(c) <= 1
  /\ ConstantValues \subseteq Seq(Byte) \ {<< >>}
  /\ MaxCode \in Nat /\ MaxLabels \in Nat /\ MaxHandles \in Nat /\ MaxBuilds \in Nat

----------------------------------------------------------------------------
VARIABLES
  code, functions, constant_table, constant_data,     \* _module
  position,                     \* _writer._position
  label_positions,
  unresolved_jump_offsets,
  outcome,                      \* how the last operation ended
  listing,                      \* history: what was emitted into this module
  marks,                        \* history: the listing index labels and functions name
  handles,                      \* history: the constants this module gave out
  product                       \* the last module built, with its history

module == <<code, functions, constant_table, constant_data>>
builder == <<position, label_positions, unresolved_jump_offsets>>
history == <<listing, marks, handles>>
vars == <<module, builder, outcome, history, product>>

Unplaced == -1
NoProduct == [builds |-> 0]

Init ==
  /\ code = << >> /\ functions = << >>
  /\ constant_table = << >> /\ constant_data = << >>
  /\ position = 0
  /\ label_positions = << >>
  /\ unresolved_jump_offsets = << >>
  /\ outcome = "ok"
  /\ listing = << >>
  /\ marks = [labels |-> << >>, functions |-> << >>]
  /\ handles = {}
  /\ product = NoProduct

(* The client stops at its last module (MaxBuilds), and anything may follow   *)
(* undefined behaviour.                                                      *)
Open == product.builds < MaxBuilds /\ outcome # "undefined"

(* An operation that throws before it changes anything. *)
Fail == outcome' = "error" /\ UNCHANGED <<module, builder, history, product>>

----------------------------------------------------------------------------
(* Bytecode_writer. *)

IsWide(kind, v) == IF kind = Immediate THEN ~InRange(v, 1) ELSE v >= ByteModulus

(* An instruction in its narrow (n = 1) or wide (n = 2) form. *)
Encoded(op, operands, n) ==
  (IF n = 2 THEN <<Wide, op>> ELSE <<op>>)
    \o [j \in 1..n * Len(operands) |-> ByteOf(operands[(j - 1) \div n + 1], (j - 1) % n)]

Width(op, operands) ==
  IF \E k \in DOMAIN operands : IsWide(Shape[op][k], operands[k]) THEN 2 ELSE 1

Write_Unprefixed(bytes, op, operands, label) ==     \* mutant: `wide` is not counted
  /\ code' = code \o bytes
  /\ position' = position + Len(bytes) - (IF bytes[1] = Wide THEN 1 ELSE 0)
  /\ listing' = Append(listing, [at |-> Len(code), op |-> op, operands |-> operands,
                                 label |-> label])
  /\ outcome' = "ok"
  /\ UNCHANGED <<functions, constant_table, constant_data, label_positions, marks, handles,
                 product>>

(* The bytes are written and the writer's position follows them. *)
Write(bytes, op, operands, label) ==
  /\ code' = code \o bytes
  /\ position' = position + Len(bytes)
  /\ listing' = Append(listing, [at |-> Len(code), op |-> op, operands |-> operands,
                                 label |-> label])
  /\ outcome' = "ok"
  /\ UNCHANGED <<functions, constant_table, constant_data, label_positions, marks, handles,
                 product>>

Room == Open /\ position < MaxCode

Emit(i) ==
  /\ Room
  /\ Write(Encoded(i.op, i.operands, Width(i.op, i.operands)), i.op, i.operands, 0)
  /\ UNCHANGED unresolved_jump_offsets

(* emit_jmp and emit_jnz: a jump has no condition or one register, and an    *)
(* offset that counts from its own end.                                      *)
JumpOp(condition) == IF condition = << >> THEN JmpI ELSE JnzI
JumpSize(condition, n) == n + n * (Len(condition) + 1)

Offset_Narrow(condition, target, n) ==     \* mutant: from the end of the narrow form
  target - (position + JumpSize(condition, 1))
Offset(condition, target, n) == target - (position + JumpSize(condition, n))

EmitResolved(condition, label) ==
  LET target == label_positions[label]
      narrow == Offset(condition, target, 1)
      wide == Offset(condition, target, 2)
      write(n, offset) ==
        /\ Write(Encoded(JumpOp(condition), Append(condition, offset), n),
                 JumpOp(condition), condition, label)
        /\ UNCHANGED unresolved_jump_offsets
  IN  IF (\A k \in DOMAIN condition : ~IsWide(Unsigned, condition[k])) /\ InRange(narrow, 1)
      THEN write(1, narrow)
      ELSE IF InRange(wide, 2) THEN write(2, wide)
      ELSE Fail

EmitUnresolved_SamePlace(condition, label) ==     \* mutant: emit_jnz's place for both
  /\ Write(Encoded(JumpOp(condition), Append(condition, 0), 2),
           JumpOp(condition), condition, label)
  /\ unresolved_jump_offsets' =
       Append(unresolved_jump_offsets, [position |-> position + 4, label |-> label])

EmitUnresolved_Afterwards(condition, label) ==     \* mutant: the place is taken after writing
  /\ Write(Encoded(JumpOp(condition), Append(condition, 0), 2),
           JumpOp(condition), condition, label)
  /\ unresolved_jump_offsets' =
       Append(unresolved_jump_offsets,
              [position |-> position + JumpSize(condition, 2), label |-> label])

(* A label not placed yet leaves a wide jump with two zero bytes to patch.   *)
EmitUnresolved(condition, label) ==
  /\ Write(Encoded(JumpOp(condition), Append(condition, 0), 2),
           JumpOp(condition), condition, label)
  /\ unresolved_jump_offsets' =
       Append(unresolved_jump_offsets,
              [position |-> position + 2 + 2 * Len(condition), label |-> label])

EmitJump(condition, label) ==
  /\ Room
  /\ IF label_positions[label] # Unplaced THEN EmitResolved(condition, label)
                                          ELSE EmitUnresolved(condition, label)

----------------------------------------------------------------------------
(* Labels, functions and constants. *)

MakeLabel ==
  /\ Open
  /\ Len(label_positions) < MaxLabels
  /\ label_positions' = Append(label_positions, Unplaced)
  /\ marks' = [marks EXCEPT !.labels = Append(@, 0)]
  /\ outcome' = "ok"
  /\ UNCHANGED <<module, position, unresolved_jump_offsets, listing, handles, product>>

PlaceLabel(label) ==
  /\ Open
  /\ label_positions[label] = Unplaced
  /\ label_positions' = [label_positions EXCEPT ![label] = position]
  /\ marks' = [marks EXCEPT !.labels[label] = Len(listing) + 1]
  /\ outcome' = "ok"
  /\ UNCHANGED <<module, position, unresolved_jump_offsets, listing, handles, product>>

Limit == ByteWeight[2]     \* one past the largest uint16_t

DeclareFunction_OneMore(name) ==     \* mutant: the limit is compared with one past the last index
  /\ Open
  /\ \A f \in DOMAIN functions : functions[f].name # name
  /\ IF Len(functions) > Limit
     THEN Fail
     ELSE /\ functions' = Append(functions, [name |-> name, position |-> Unplaced])
          /\ marks' = [marks EXCEPT !.functions = Append(@, 0)]
          /\ outcome' = "ok"
          /\ UNCHANGED <<code, constant_table, constant_data, builder, listing, handles,
                         product>>

(* A name is declared once (an assert). *)
DeclareFunction(name) ==
  /\ Open
  /\ \A f \in DOMAIN functions : functions[f].name # name
  /\ IF Len(functions) > Limit - 1
     THEN Fail
     ELSE /\ functions' = Append(functions, [name |-> name, position |-> Unplaced])
          /\ marks' = [marks EXCEPT !.functions = Append(@, 0)]
          /\ outcome' = "ok"
          /\ UNCHANGED <<code, constant_table, constant_data, builder, listing, handles,
                         product>>

PlaceFunction(f) ==
  /\ Open
  /\ functions[f].position = Unplaced
  /\ functions' = [functions EXCEPT ![f].position = position]
  /\ marks' = [marks EXCEPT !.functions[f] = Len(listing) + 1]
  /\ outcome' = "ok"
  /\ UNCHANGED <<code, constant_table, constant_data, builder, listing, handles, product>>

(* Some constant made before may start with these bytes, whatever its own    *)
(* length is: the comparison runs on into the constants that follow it.      *)
HoldsAt_Unbounded(offset, bytes) ==     \* mutant: the end of the data is not checked
  \A k \in DOMAIN bytes : offset + k <= Len(constant_data) =>
                            constant_data[offset + k] = bytes[k]

HoldsAt(offset, bytes) ==
  /\ offset + Len(bytes) <= Len(constant_data)
  /\ \A k \in DOMAIN bytes : constant_data[offset + k] = bytes[k]

Constant(bytes) ==
  LET found == {k \in DOMAIN constant_table : HoldsAt(constant_table[k], bytes)}
      given(k) == handles' = handles \cup {[index |-> k - 1, bytes |-> bytes]}
  IN  /\ Open
      /\ Cardinality(handles) < MaxHandles
      /\ IF found # {}
         THEN /\ \E k \in found : (\A j \in found : k <= j) /\ given(k)
              /\ outcome' = "ok"
              /\ UNCHANGED <<constant_table, constant_data>>
         ELSE IF Len(constant_table) = Limit
         THEN /\ outcome' = "error"
              /\ UNCHANGED <<constant_table, constant_data, handles>>
         ELSE /\ constant_table' = Append(constant_table, Len(constant_data))
              /\ constant_data' = constant_data \o bytes
              /\ given(Len(constant_table'))
              /\ outcome' = "ok"
      /\ UNCHANGED <<code, functions, builder, listing, marks, product>>

----------------------------------------------------------------------------
(* build(). *)

Bad(j) ==
  LET jump == unresolved_jump_offsets[j]
      target == label_positions[jump.label]
  IN  target = Unplaced \/ ~InRange(target - (jump.position + 2), 2)

(* The first n unresolved jumps patched, the low byte first; no byte is in   *)
(* two patches, for the writer's position only grows.                        *)
PatchedBytes(j) ==
  LET jump == unresolved_jump_offsets[j]
      offset == label_positions[jump.label] - (jump.position + 2)
  IN  [p \in {jump.position + 1, jump.position + 2} |-> ByteOf(offset, p - jump.position - 1)]

Patched(n) ==
  [p \in DOMAIN code |->
     LET here == {j \in 1..n : p \in DOMAIN PatchedBytes(j)}
     IN  IF here = {} THEN code[p]
         ELSE PatchedBytes(CHOOSE j \in here : TRUE)[p]]

FunctionUnplaced == \E f \in DOMAIN functions : functions[f].position = Unplaced
BadJumps == {j \in DOMAIN unresolved_jump_offsets : Bad(j)}

(* A patch outside the code is undefined behaviour: it takes a builder that  *)
(* is used again after build(), which empties the module and nothing else.   *)
PatchesOutside(n) ==
  \E j \in 1..n : unresolved_jump_offsets[j].position + 2 > Len(code)

BuildRefused ==
  /\ Open
  /\ FunctionUnplaced
  /\ Fail

(* The jumps before the bad one stay patched. *)
BuildFails ==
  /\ Open
  /\ ~FunctionUnplaced
  /\ \E j \in BadJumps :
       /\ \A k \in BadJumps : j <= k
       /\ IF PatchesOutside(j - 1)
          THEN outcome' = "undefined" /\ UNCHANGED code
          ELSE outcome' = "error" /\ code' = Patched(j - 1)
  /\ UNCHANGED <<functions, constant_table, constant_data, builder, history, product>>

Build ==
  /\ Open
  /\ ~FunctionUnplaced
  /\ BadJumps = {}
  /\ LET n == Len(unresolved_jump_offsets)
     IN  IF PatchesOutside(n)
         THEN /\ outcome' = "undefined"
              /\ UNCHANGED <<module, builder, history, product>>
         ELSE /\ outcome' = "built"
              /\ product' = [builds |-> product.builds + 1, code |-> Patched(n),
                             functions |-> functions, constant_table |-> constant_table,
                             constant_data |-> constant_data, listing |-> listing,
                             marks |-> marks, handles |-> handles]
              /\ code' = << >> /\ functions' = << >>
              /\ constant_table' = << >> /\ constant_data' = << >>
              /\ listing' = << >> /\ handles' = {}
              /\ marks' = [marks EXCEPT !.functions = << >>]
              /\ UNCHANGED builder

Next ==
  \/ \E i \in Instructions : Emit(i)
  \/ \E c \in JumpConditions, l \in DOMAIN label_positions : EmitJump(c, l)
  \/ MakeLabel
  \/ \E l \in DOMAIN label_positions : PlaceLabel(l)
  \/ \E name \in Names : DeclareFunction(name)
  \/ \E f \in DOMAIN functions : PlaceFunction(f)
  \/ \E bytes \in ConstantValues : Constant(bytes)
  \/ BuildRefused \/ BuildFails \/ Build

Spec == Init /\ [][Next]_vars

----------------------------------------------------------------------------
(* Correctness. *)

TypeOK ==
  /\ code \in Seq(Nat)
  /\ functions \in Seq([name : Names, position : Nat \cup {Unplaced}])
  /\ constant_table \in Seq(Nat)
  /\ constant_data \in Seq(Byte)
  /\ position \in Nat
  /\ label_positions \in Seq(Nat \cup {Unplaced})
  /\ unresolved_jump_offsets \in Seq([position : Nat, label : Nat])
  /\ outcome \in {"ok", "error", "built", "undefined"}
  /\ listing \in Seq([at : Nat, op : Nat, operands : Seq(Int), label : Nat])
  /\ marks \in [labels : Seq(Nat), functions : Seq(Nat)]
  /\ handles \subseteq [index : Nat, bytes : Seq(Byte)]
  /\ product.builds \in Nat

(* What the virtual machine's decoder makes of the bytes at position p       *)
(* (run() and dispatch() in vm.cpp): the instruction and where the next is.  *)
Fetched(bytes, p) ==
  LET n == IF bytes[p + 1] = Wide THEN 2 ELSE 1
      op == bytes[p + n]
      operand(k) == LoadBytes(bytes, p + n + 1 + (k - 1) * n, n)
  IN  [op |-> op,
       operands |-> [k \in DOMAIN Shape[op] |->
                       IF Shape[op][k] = Immediate THEN Signed(operand(k), n) ELSE operand(k)],
       next |-> p + n + n * Len(Shape[op])]

(* Where entry i of the product's listing is; past the last one is the end.  *)
AddressOf(i) ==
  IF i <= Len(product.listing) THEN product.listing[i].at ELSE Len(product.code)

(* The built code, decoded as the machine decodes it, is the listing: every  *)
(* instruction in order with its operands, and every jump, whichever form it *)
(* got and however often build() was tried before, to where its label was    *)
(* placed.                                                                   *)
BuiltCodeIsTheListing ==
  product # NoProduct =>
    \A i \in DOMAIN product.listing :
      LET entry == product.listing[i]
          fetched == Fetched(product.code, entry.at)
      IN  /\ fetched.op = entry.op
          /\ fetched.next = AddressOf(i + 1)
          /\ IF entry.label = 0
             THEN fetched.operands = entry.operands
             ELSE LET offset == fetched.operands[Len(entry.operands) + 1]
                  IN  /\ fetched.operands = Append(entry.operands, offset)
                      /\ fetched.next + offset = AddressOf(product.marks.labels[entry.label])

(* bytecode.md:33: a Function_entry "records its entry position in the code  *)
(* stream": calling a function of the product enters the instruction that    *)
(* was emitted next after place_function, and its index fits a call.         *)
FunctionsEnterTheirBodies ==
  product # NoProduct =>
    \A f \in DOMAIN product.functions :
      /\ FitsWide(Unsigned, f - 1)
      /\ product.functions[f].position = AddressOf(product.marks.functions[f])

(* A Constant fits its operand and denotes, in the module under construction *)
(* and in the one built, the bytes it was made from, however they are shared. *)
Denotes(table, data, handle) ==
  /\ handle.index + 1 \in DOMAIN table
  /\ FitsWide(Unsigned, handle.index)
  /\ \A k \in DOMAIN handle.bytes :
       /\ table[handle.index + 1] + k \in DOMAIN data
       /\ data[table[handle.index + 1] + k] = handle.bytes[k]

ConstantsKeepTheirBytes ==
  /\ \A h \in handles : Denotes(constant_table, constant_data, h)
  /\ product # NoProduct =>
       \A h \in product.handles : Denotes(product.constant_table, product.constant_data, h)

(* The strengthening the theorems need, for a builder's first module: the    *)
(* writer is at the end of the code, what was placed is at the address its   *)
(* mark names, and build() patches nothing outside the code.                 *)
CurrentAddress(i) == IF i <= Len(listing) THEN listing[i].at ELSE Len(code)

TablesFit ==
  /\ Len(constant_table) <= Limit
  /\ Len(functions) <= Limit
  /\ Len(marks.functions) = Len(functions)
  /\ \A j \in DOMAIN unresolved_jump_offsets :
       unresolved_jump_offsets[j].label \in DOMAIN label_positions

MarksHold ==
  \A f \in DOMAIN functions : functions[f].position # Unplaced =>
    /\ marks.functions[f] \in 1..Len(listing) + 1
    /\ functions[f].position = CurrentAddress(marks.functions[f])

PatchesInside ==
  \A j \in DOMAIN unresolved_jump_offsets :
    unresolved_jump_offsets[j].position + 2 <= Len(code)

FirstModule ==
  product.builds = 0 =>
    product = NoProduct /\ position = Len(code) /\ MarksHold /\ PatchesInside

IInv == TypeOK /\ TablesFit /\ FirstModule /\ ConstantsKeepTheirBytes

(* A builder used for one module never patches outside it. *)
NeverUndefined == outcome # "undefined"
============================================================================
