------------------------- MODULE FrontendInvariant -------------------------
(* What Frontend_proofs proves of every step of the front end: the inductive  *)
(* invariants, and the words their proofs are put in.                         *)
EXTENDS Frontend, SequencesExt

IsASequence(s) == s \in Seq({s[i] : i \in DOMAIN s})

(* The inductive invariant: what waits on the stack. *)

(* The frame at a depth, the oldest at 1. *)
At(s, d) == s[Len(s) - d + 1]
StatementFrames == {"let", "return", "expression"}

FunctionFormed(function) ==
  function = [function |-> function.function, block |-> function.block,
              register_types |-> function.register_types]

FrameFormed(frame) ==
  /\ frame.at = "block" => frame = [at |-> "block", rest |-> frame.rest, tail |-> frame.tail]
  /\ frame.at = "type" =>
       /\ frame = [at |-> "type", fn |-> frame.fn, types |-> frame.types]
       /\ IsASequence(frame.types)
  /\ frame.at = "body" => FunctionFormed(frame.saved)
  /\ frame.at = "argument" =>
       /\ frame = [at |-> "argument", callee |-> frame.callee, values |-> frame.values,
                   rest |-> frame.rest]
       /\ IsASequence(frame.values)
  /\ frame.at \in {"condition", "branch", "else_if"} =>
       frame = [at |-> frame.at, part |-> frame.part, parts |-> frame.parts, else |-> frame.else,
                merge |-> frame.merge, target |-> frame.target, type |-> frame.type,
                parameter |-> frame.parameter]

(* A statement waits for an expression at the bottom or over a block. *)
StackFormed(s) ==
  /\ IsASequence(s)
  /\ \A d \in 1..Len(s) : FrameFormed(At(s, d))
  /\ \A d \in 1..Len(s) :
       At(s, d).at \in StatementFrames => d = 1 \/ At(s, d - 1).at = "block"
  /\ s # << >> => At(s, 1).at \in StatementFrames

ControlFits(c, s) ==
  /\ c.do \in {"value", "expression", "call"} => s # << >>
  /\ c.do \in {"next", "statement"} => s = << >> \/ Head(s).at = "block"
  /\ c.do = "call" => Head(s).at = "argument"

(* level[d] is the function that is compiled over the frame at depth d.       *)
LevelFits(level, s, d) ==
  /\ level[d] # 0 => \E e \in 1..d : At(s, e).at = "body"
  /\ At(s, d).at # "body" => level[d - 1] = level[d]
  /\ At(s, d).at = "body" =>
       /\ level[d] # 0
       /\ At(s, d).saved.function = level[d - 1]
       /\ level[d - 1] = 0 => At(s, d).saved = NoFunction
  /\ At(s, d).at \in {"branch", "else_if"} => level[d] # 0
  /\ At(s, d).at = "argument" /\ level[d] = 0 =>
       \A i \in DOMAIN At(s, d).values : ~IsRegister(At(s, d).values[i])

Levelled(level, s, function) ==
  /\ FunctionFormed(function)
  /\ function.function = 0 => function = NoFunction
  /\ level \in [Nat -> Nat]
  /\ level[0] = 0
  /\ level[Len(s)] = function.function
  /\ \A d \in 1..Len(s) : LevelFits(level, s, d)

(* The inductive invariant: the blocks without a terminator. *)

BlockFormed(block) ==
  block = [parameters |-> block.parameters, instructions |-> block.instructions,
           terminator |-> block.terminator]

CodeFormed(code) ==
  /\ code = [type |-> code.type, register_count |-> code.register_count, blocks |-> code.blocks]
  /\ IsASequence(code.blocks)
  /\ \A b \in DOMAIN code.blocks : BlockFormed(code.blocks[b])

FunctionsFormed(fs) ==
  /\ IsASequence(fs)
  /\ \A f \in DOMAIN fs : CodeFormed(fs[f])

IsOpen(fs, f, b) ==
  /\ f \in DOMAIN fs
  /\ b \in DOMAIN fs[f].blocks
  /\ fs[f].blocks[b].terminator = NoTerminator

(* The blocks a frame will make current again or jump to. *)
Pending(frame) ==
  CASE frame.at = "body" -> {frame.saved.block}
    [] frame.at = "branch" -> IF Follows(frame) THEN {frame.merge, frame.target} ELSE {frame.merge}
    [] frame.at = "else_if" -> {frame.merge}
    [] OTHER -> {}

(* The frame at depth d waits for block b of the function under it. *)
Awaits(s, d, b) == d \in 1..Len(s) /\ b \in Pending(At(s, d))
Distinct(frame) == frame.at = "branch" /\ Follows(frame) => frame.merge # frame.target

(* They are open, no two frames wait for the same one, and none is current;   *)
(* while there is no diagnostic every open block is one of them, or current.  *)
Owned(level, s, function, fs, errors) ==
  /\ function.function # 0 => IsOpen(fs, function.function, function.block)
  /\ \A d, b : Awaits(s, d, b) /\ level[d - 1] # 0 =>
       /\ IsOpen(fs, level[d - 1], b)
       /\ ~(level[d - 1] = function.function /\ b = function.block)
  /\ \A d, e, b :
       Awaits(s, d, b) /\ Awaits(s, e, b) /\ level[d - 1] # 0 /\ level[d - 1] = level[e - 1] => d = e
  /\ \A d \in 1..Len(s) : Distinct(At(s, d))
  /\ errors = 0 =>
       \A f, b : IsOpen(fs, f, b) =>
         \/ f = function.function /\ b = function.block
         \/ \E d : Awaits(s, d, b) /\ level[d - 1] = f

Waiting(s, function, fs, errors) ==
  \E level : Levelled(level, s, function) /\ Owned(level, s, function, fs, errors)

Outcomes ==
  /\ outcome # "compiling" => control.do = "done"
  /\ outcome = "unit" => diagnostics = 0 /\ stack = << >>

IInv ==
  /\ diagnostics \in Nat
  /\ StackFormed(stack)
  /\ ControlFits(control, stack)
  /\ FunctionsFormed(functions)
  /\ Outcomes
  /\ Waiting(stack, current, functions, diagnostics)

WithCode(fs, f, code) == [fs EXCEPT ![f] = code]

WithBlock(fs, f, b, block) ==
  WithCode(fs, f, [fs[f] EXCEPT !.blocks = [fs[f].blocks EXCEPT ![b] = block]])

(* The other parts of a block may change. *)
Instructed(fs, f, b, x) == [fs EXCEPT ![f].blocks[b].instructions = x]
Entered(fs, f, b, x) == [fs EXCEPT ![f].blocks[b].parameters = x]
Ordinary(frame) == frame.at \notin {"body", "branch", "else_if", "argument"}

(* The current block ends and new ones are made. *)
EndsFor(fs, function, gs, new) ==
  /\ \A b \in new : ~IsOpen(fs, function.function, b)
  /\ \A f, b : IsOpen(gs, f, b) <=>
       \/ IsOpen(fs, f, b) /\ ~(f = function.function /\ b = function.block)
       \/ f = function.function /\ b \in new

(* The frame at a depth waits for more blocks, or no longer for one.          *)
TakesOn(s, t, top, more) ==
  /\ \A d, b : d # top => (Awaits(t, d, b) <=> Awaits(s, d, b))
  /\ \A b : Awaits(t, top, b) <=> Awaits(s, top, b) \/ b \in more
  /\ \A d \in 1..Len(t) : Distinct(At(t, d))

LetsGo(s, t, top, block) ==
  /\ \A d, b : d # top => (Awaits(t, d, b) <=> Awaits(s, d, b))
  /\ \A b : Awaits(t, top, b) <=> Awaits(s, top, b) /\ b # block
  /\ \A d \in 1..Len(t) : Distinct(At(t, d))

(* Frames come and go: both together. *)

Idle(frame) == frame.at \notin {"body", "branch", "else_if"}

(* A frame is done with a value, or a statement is done. *)
Finishes ==
  /\ stack' = Tail(stack)
  /\ \/ Frame.at \in StatementFrames /\ control' = NextStatement
     \/ Frame.at \notin StatementFrames /\ control'.do \in {"value", "expression"}

IfFrame(frame) ==
  frame = [at |-> frame.at, part |-> frame.part, parts |-> frame.parts, else |-> frame.else,
           merge |-> frame.merge, target |-> frame.target, type |-> frame.type,
           parameter |-> frame.parameter]

(* What the branch's frame waits for: what the condition's did, and the new   *)
(* blocks but the one for the body.                                           *)
Forks(old, frame, count, merge, last, other, created, new) ==
  /\ \/ old.at = "condition" /\ merge = count + 1 /\ last = count + 1
     \/ old.at = "else_if" /\ merge = old.merge /\ last = count /\ merge \in 1..count
  /\ other = IF Follows(old) THEN last + 2 ELSE merge
  /\ created = (IF other = merge THEN last + 1 ELSE last + 2) - count
  /\ new = count + 1..count + created
  /\ frame.at = "branch" /\ frame.merge = merge /\ frame.target = other
  /\ Follows(frame) <=> Follows(old)

Forked(old, merge, target) ==
  [old EXCEPT !.at = "branch", !.merge = merge, !.target = target]

(* What the frame of an if waits for after a branch. *)
WithResult(old, type, parameter) == [old EXCEPT !.type = type, !.parameter = parameter]
ToCondition(frame) == [frame EXCEPT !.at = "else_if", !.part = @ + 1]
ToElse(frame) == [frame EXCEPT !.else = << >>]

BranchDoneTo(later, ended) ==
  /\ functions' = ended /\ FunctionsFormed(ended) /\ EndsFor(functions, current, ended, {})
  /\ FunctionFormed(current') /\ current'.function = current.function /\ current'.block = later
  /\ UNCHANGED <<diagnostics, outcome>>

(* The pool of types and the registers of the functions being compiled. *)

OfDifferentTypes(pool) ==
  IsASequence(pool) /\ \A t, u \in DOMAIN pool : pool[t] = pool[u] => t = u

(* The register types are those of all registers of the function. *)
Counted(function, fs) ==
  /\ function.function \in Nat
  /\ function.function # 0 =>
       /\ function.function \in DOMAIN fs
       /\ IsASequence(function.register_types)
       /\ Len(function.register_types) = fs[function.function].register_count

(* So it is in each function put aside, and each began after the one around it. *)
Saved(s, d) == d \in 1..Len(s) /\ At(s, d).at = "body"

SavedCounted(s, function, fs) ==
  /\ \A d : Saved(s, d) =>
       /\ Counted(At(s, d).saved, fs)
       /\ At(s, d).saved.function < function.function
  /\ \A d, e : Saved(s, d) /\ Saved(s, e) /\ d < e =>
       At(s, d).saved.function < At(s, e).saved.function

TypesHold ==
  /\ OfDifferentTypes(types)
  /\ FunctionsHaveTypes
  /\ Counted(current, functions)
  /\ SavedCounted(stack, current, functions)

(* The pool only grows, and keeps its types different. *)
Grown(pool, new) ==
  /\ OfDifferentTypes(new)
  /\ \A t \in DOMAIN pool : t \in DOMAIN new /\ new[t] = pool[t]

(* Functions that keep their types and, but for one, their registers. *)
SameHeads(fs, gs, f) ==
  /\ DOMAIN gs = DOMAIN fs
  /\ \A g \in DOMAIN fs :
       /\ gs[g].type = fs[g].type
       /\ g # f => gs[g].register_count = fs[g].register_count

(* The frames of functions being compiled stay where they are. *)
SameBodies(s, t) ==
  \A d : Saved(t, d) => Saved(s, d) /\ At(t, d) = At(s, d)

(* What a step may do to the stack without entering or leaving a function. *)

PushesOne == \E frame : frame.at # "body" /\ stack' = Pushed(frame)
SwapsOne == stack # << >> /\ \E frame : frame.at # "body" /\ stack' = Replaced(frame)
DropsOne == stack # << >> /\ stack' = Tail(stack)
MovesOne == stack' = stack \/ PushesOne \/ SwapsOne \/ DropsOne

(* A step that leaves the pool, the functions and the current one alone, or   *)
(* gives the statement up.                                                    *)
Quiet ==
  \/ MovesOne /\ UNCHANGED <<types, functions, current>>
  \/ Fail

(* Steps that emit. *)

Recorded(fs) ==
  \A g \in DOMAIN fs :
    fs[g] = [type |-> fs[g].type, register_count |-> fs[g].register_count, blocks |-> fs[g].blocks]

(* Nothing but blocks changes; the current function gets a register. *)
BlocksOnly(fs, gs) ==
  /\ Recorded(gs)
  /\ DOMAIN gs = DOMAIN fs
  /\ \A g \in DOMAIN fs :
       gs[g].type = fs[g].type /\ gs[g].register_count = fs[g].register_count

OneRegister(fs, gs) ==
  /\ Recorded(gs)
  /\ SameHeads(fs, gs, current.function)
  /\ current.function \in DOMAIN fs =>
       gs[current.function].register_count = fs[current.function].register_count + 1

(* Recursive functions of the model by what they are at n, and as the family  *)
(* of their beginnings: what the first n arguments are passed, the first n    *)
(* steps of a run, the blocks reached in n jumps.                             *)
Passes(part, registers, parameters, arguments) ==
  \A n \in Nat :
    part[n] = IF n = 0 THEN registers
              ELSE [part[n - 1] EXCEPT
                      ![parameters[n] + 1] = Operand(arguments[n], part[n - 1])]

IsPassing(f, registers, parameters, arguments, n) ==
  f = [d \in 0..n |->
         IF d = 0 THEN registers
         ELSE [f[d - 1] EXCEPT ![parameters[d] + 1] = Operand(arguments[d], f[d - 1])]]

Runs(part, fs, f0, arguments, fuel) ==
  \A n \in Nat :
    part[n] = IF n = 0 THEN Running(<<Entry(fs, f0, arguments)>>, fuel)
              ELSE Advanced(fs, part[n - 1])

IsRun(f, fs, f0, arguments, fuel, n) ==
  f = [d \in 0..n |->
         IF d = 0 THEN Running(<<Entry(fs, f0, arguments)>>, fuel) ELSE Advanced(fs, f[d - 1])]

Reaches(part, blocks, avoided) ==
  \A n \in Nat :
    part[n] = IF n = 0 THEN {1} \ avoided
              ELSE part[n - 1] \union
                     ((UNION {Successors(blocks[b].terminator) : b \in part[n - 1]}) \ avoided)

IsReaching(f, blocks, avoided, n) ==
  f = [d \in 0..n |->
         IF d = 0 THEN {1} \ avoided
         ELSE f[d - 1] \union
                ((UNION {Successors(blocks[b].terminator) : b \in f[d - 1]}) \ avoided)]

(* What interpret() answers: from code whose operands are registers of the    *)
(* function or well-formed constants, a well-formed constant.                 *)

(* A constant of a type of the pool, and a function of the unit if it is one. *)
GoodValue(v, pool, fs) ==
  /\ v = [type |-> v.type, value |-> v.value]
  /\ v.type \in DOMAIN pool
  /\ pool[v.type].kind = "Function" => v.value \in DOMAIN fs

GoodOperand(o, pool, fs) == IsRegister(o) \/ GoodValue(o, pool, fs)

InstructionGood(i, pool, fs) ==
  \/ i.does = "binary" /\ i.overload \in Overloads
  \/ i.does = "negate" /\ i.type \in IntegerTypes
  \/ /\ i.does = "call"
     /\ i.callee \in DOMAIN fs
     /\ IsASequence(i.arguments)
     /\ \A k \in DOMAIN i.arguments : GoodOperand(i.arguments[k], pool, fs)

TerminatorGood(t, pool, fs) ==
  \/ t.to = "none"
  \/ /\ t.to = "jump"
     /\ IsASequence(t.arguments)
     /\ \A k \in DOMAIN t.arguments : GoodOperand(t.arguments[k], pool, fs)
  \/ t.to = "branch"
  \/ t.to = "return" /\ GoodOperand(t.value, pool, fs)

BlockGood(block, pool, fs) ==
  /\ IsASequence(block.instructions)
  /\ \A i \in DOMAIN block.instructions : InstructionGood(block.instructions[i], pool, fs)
  /\ TerminatorGood(block.terminator, pool, fs)

CodeGood(fs, pool) ==
  \A f \in DOMAIN fs : \A b \in DOMAIN fs[f].blocks : BlockGood(fs[f].blocks[b], pool, fs)

(* The registers read are the function's and the jumps lead to its blocks.    *)
BlockInside(block, code) ==
  LET registers == 0..code.register_count - 1
  IN  /\ \A i \in DOMAIN block.instructions :
           Registers(InstructionOperands(block.instructions[i])) \subseteq registers
      /\ Registers(TerminatorOperands(block.terminator)) \subseteq registers
      /\ Successors(block.terminator) \subseteq DOMAIN code.blocks

CodeInside(fs) ==
  \A f \in DOMAIN fs :
    /\ fs[f].register_count \in Nat
    /\ 1 \in DOMAIN fs[f].blocks
    /\ \A b \in DOMAIN fs[f].blocks : BlockInside(fs[f].blocks[b], fs[f])

ScalarsIn(pool) == \A t \in DOMAIN ScalarPool : t \in DOMAIN pool /\ pool[t] = ScalarPool[t]

File(registers, count, pool, fs) ==
  /\ DOMAIN registers = 1..count
  /\ \A r \in 1..count : GoodValue(registers[r], pool, fs)

ActivationGood(at, fs, pool) ==
  /\ at = [function |-> at.function, block |-> at.block, index |-> at.index,
           registers |-> at.registers]
  /\ at.function \in DOMAIN fs
  /\ at.block \in DOMAIN fs[at.function].blocks
  /\ at.index \in Nat \ {0}
  /\ File(at.registers, fs[at.function].register_count, pool, fs)

CallsGood(calls, fs, pool) ==
  /\ IsASequence(calls)
  /\ \A i \in 1..Len(calls) : ActivationGood(calls[i], fs, pool)

RunGood(run, fs, pool) ==
  \/ /\ run = Running(run.calls, run.fuel)
     /\ CallsGood(run.calls, fs, pool) /\ run.calls # << >>
  \/ run.ended \in {"fuel", "exception", "assertion"}
  \/ run.ended = "value" /\ GoodValue(run.value, pool, fs)

Entering(at, target, parameters, passed) ==
  [at EXCEPT !.block = target, !.index = 1, !.registers = Passed(@, parameters, passed)]

(* What emitting changes, exactly. *)

BlockOf(parameters, instructions, terminator) ==
  [parameters |-> parameters, instructions |-> instructions, terminator |-> terminator]

OneFunction(fs, gs, f) ==
  /\ DOMAIN gs = DOMAIN fs
  /\ \A g \in DOMAIN fs : g # f => gs[g] = fs[g]

OneBlock(fs, gs, f, b, block) ==
  /\ OneFunction(fs, gs, f)
  /\ DOMAIN gs[f].blocks = DOMAIN fs[f].blocks
  /\ \A c \in DOMAIN fs[f].blocks : c # b => gs[f].blocks[c] = fs[f].blocks[c]
  /\ gs[f].blocks[b] = block

EndingIn(block, x) == [block EXCEPT !.terminator = x]
Doing(block, x) == [block EXCEPT !.instructions = x]
Taking(block, x) == [block EXCEPT !.parameters = x]
Merging(fs, f, m, x) == [WithRegister(fs) EXCEPT ![f].blocks[m].parameters = x]

MergingDone(fs, gs, f, m, x) ==
  /\ OneBlock(fs, gs, f, m, BlockOf(x, fs[f].blocks[m].instructions, fs[f].blocks[m].terminator))
  /\ gs[f].register_count = fs[f].register_count + 1
  /\ FunctionsFormed(gs)
  /\ \A g, c : IsOpen(gs, g, c) <=> IsOpen(fs, g, c)

(* The current block ends and new ones follow the last. *)
EndedWith(fs, gs, f, b, t, n) ==
  LET old == fs[f].blocks[b]
      last == Len(fs[f].blocks)
  IN  /\ OneFunction(fs, gs, f)
      /\ gs[f].register_count = fs[f].register_count
      /\ DOMAIN gs[f].blocks = 1..last + n
      /\ \A c \in 1..last : c # b => gs[f].blocks[c] = fs[f].blocks[c]
      /\ gs[f].blocks[b] = BlockOf(old.parameters, old.instructions, t)
      /\ \A c \in last + 1..last + n : gs[f].blocks[c] = EmptyBlock

Extended(fs, gs, f, last, n) ==
  /\ OneFunction(fs, gs, f)
  /\ gs[f].register_count = fs[f].register_count
  /\ DOMAIN gs[f].blocks = 1..last + n
  /\ \A c \in 1..last : gs[f].blocks[c] = fs[f].blocks[c]
  /\ \A c \in last + 1..last + n : gs[f].blocks[c] = EmptyBlock

(* The registers a path has defined when it enters a block, `before` for      *)
(* each, and those it has defined at the end of the block.                    *)

Defined(block) == Defines(block, Len(block.instructions))
AtEnd(block, before) == before \union Defined(block)

BlockFlows(block, before, count, blocks, befores) ==
  LET registers == 0..count - 1
  IN  /\ IsASequence(block.instructions)
      /\ before \subseteq registers
      /\ Defined(block) \subseteq registers
      /\ \A i \in 1..Len(block.instructions) :
           Registers(InstructionOperands(block.instructions[i]))
             \subseteq before \union Defines(block, i - 1)
      /\ Registers(TerminatorOperands(block.terminator)) \subseteq AtEnd(block, before)
      /\ \A c \in Successors(block.terminator) :
           c \in blocks /\ befores[c] \subseteq AtEnd(block, before)

FunctionFlows(code, befores) ==
  /\ code.register_count \in Nat
  /\ 1 \in DOMAIN code.blocks
  /\ befores[1] = {}
  /\ \A b \in DOMAIN code.blocks :
       BlockFlows(code.blocks[b], befores[b], code.register_count, DOMAIN code.blocks, befores)

CodeFlows(fs, avail) == \A f \in DOMAIN fs : FunctionFlows(fs[f], avail[f])

(* The registers defined at the end of the block that is current, or put      *)
(* aside with its function.                                                   *)
Here(avail, fs, function) ==
  AtEnd(fs[function.function].blocks[function.block], avail[function.function][function.block])

(* An instruction that reads what is defined where it is emitted. *)
Instructing(fs, gs, avail, f, b, instruction) ==
  LET old == fs[f].blocks[b]
  IN  /\ f \in DOMAIN fs /\ b \in DOMAIN fs[f].blocks
      /\ OneBlock(fs, gs, f, b, BlockOf(old.parameters, Append(old.instructions, instruction),
                                        old.terminator))
      /\ Successors(old.terminator) = {} /\ TerminatorOperands(old.terminator) = {}
      /\ Registers(InstructionOperands(instruction)) \subseteq AtEnd(old, avail[f][b])
      /\ gs[f].register_count = fs[f].register_count + 1
      /\ instruction.result = fs[f].register_count

(* The current block ends, and blocks with their own `before` follow. *)
Ending(fs, gs, avail, new, f, b, t, n, last) ==
  /\ f \in DOMAIN fs /\ b \in DOMAIN fs[f].blocks /\ n \in Nat
  /\ last \in Nat /\ last = Len(fs[f].blocks) /\ DOMAIN fs[f].blocks = 1..last
  /\ EndedWith(fs, gs, f, b, t, n)
  /\ \A g \in DOMAIN fs : g # f => new[g] = avail[g]
  /\ \A c \in 1..last : new[f][c] = avail[f][c]
  /\ \A c \in last + 1..last + n : new[f][c] \subseteq AtEnd(fs[f].blocks[b], avail[f][b])
  /\ Registers(TerminatorOperands(t)) \subseteq AtEnd(fs[f].blocks[b], avail[f][b])
  /\ \A c \in Successors(t) :
       c \in 1..last + n /\ new[f][c] \subseteq AtEnd(fs[f].blocks[b], avail[f][b])

(* A block that nothing was emitted into gets its parameter, a new register. *)
Merged(fs, gs, f, m) ==
  /\ f \in DOMAIN fs /\ m \in DOMAIN fs[f].blocks
  /\ fs[f].blocks[m].instructions = << >> /\ fs[f].blocks[m].terminator = NoTerminator
  /\ OneBlock(fs, gs, f, m, BlockOf(<<fs[f].register_count>>, << >>, NoTerminator))
  /\ gs[f].register_count = fs[f].register_count + 1

(* A new function, which has its parameters only. *)
Appending(fs, avail, new, code, count, type, parameters) ==
  /\ IsASequence(fs) /\ count \in Nat /\ Range(parameters) \subseteq 0..count - 1
  /\ code = [type |-> type, register_count |-> count,
             blocks |-> <<[EmptyBlock EXCEPT !.parameters = parameters]>>]
  /\ \A g \in DOMAIN fs : new[g] = avail[g]
  /\ new[Len(fs) + 1][1] = {}

(* The symbol table: which bindings a step adds.                              *)

Scope(scope) == scope = [symbols |-> scope.symbols, is_barrier |-> scope.is_barrier]

TableFormed(t) ==
  /\ t = [global |-> t.global, scopes |-> t.scopes]
  /\ IsASequence(t.scopes)
  /\ \A i \in DOMAIN t.scopes : Scope(t.scopes[i])

(* The symbols with those of names: each is an old one or bound anew.         *)
Bound(old, new, bindings) ==
  \A x \in DOMAIN new : (x \in DOMAIN old /\ new[x] = old[x]) \/ new[x] \in bindings

(* The scopes with the innermost one's bindings added. *)
ScopesBound(old, new, bindings) ==
  /\ IsASequence(new) /\ Len(new) = Len(old)
  /\ \A i \in 1..Len(old) :
       /\ new[i].is_barrier = old[i].is_barrier
       /\ i # Len(old) => new[i] = old[i]
       /\ Bound(old[i].symbols, new[i].symbols, bindings)

WithSymbols(t, more) ==
  [t EXCEPT !.scopes = [t.scopes EXCEPT ![Len(t.scopes)] =
                          [t.scopes[Len(t.scopes)] EXCEPT !.symbols = Hiding(@, more)]]]

(* What waits on the stack, and the registers that have been defined when it  *)
(* is continued.                                                              *)

Scopes(frame) == IF frame.at \in {"block", "tail", "body"} THEN 1 ELSE 0

Held(frame) ==
  CASE frame.at = "right" -> {frame.lhs}
    [] frame.at = "argument" -> Range(frame.values)
    [] OTHER -> {}

(* The objects that lookup() finds from the scope at n.                       *)
SeenIn(scopes, n, registers) ==
  \A i \in 1..n :
    (\A j \in i + 1..n : ~scopes[j].is_barrier) =>
      \A x \in DOMAIN scopes[i].symbols :
        IsObjectBinding(scopes[i].symbols[x]) => scopes[i].symbols[x].register \in registers

(* The merge block is still empty, but for the parameter the branches give it. *)
MergeWaits(frame, defined, blocks, before) ==
  /\ before[frame.merge] = defined
  /\ blocks[frame.merge].instructions = << >>
  /\ frame.parameter # << >> => frame.parameter[1] \in Range(blocks[frame.merge].parameters)
  /\ frame.at = "branch" /\ Follows(frame) => defined \subseteq before[frame.target]

(* Outside a function nothing is emitted, and no register is known. *)
Depth(level, known, open, avail, s, scopes, fs, d) ==
  level[d] # 0 =>
    /\ Registers(Held(At(s, d))) \subseteq known[d]
    /\ SeenIn(scopes, open[d], known[d])
    /\ At(s, d).at # "body" => known[d - 1] \subseteq known[d]
    /\ At(s, d).at = "condition" => At(s, d).parameter = << >>
    /\ At(s, d).at \in {"branch", "else_if"} =>
         MergeWaits(At(s, d), known[d], fs[level[d]].blocks, avail[level[d]])
    /\ At(s, d).at = "body" /\ level[d - 1] # 0 =>
         known[d - 1] \subseteq Here(avail, fs, At(s, d).saved)

(* The scopes that were open when each frame was pushed. *)
Opens(open, s, scopes) ==
  /\ open[0] \in Nat
  /\ \A d \in 1..Len(s) : open[d] = open[d - 1] + Scopes(At(s, d))
  /\ open[Len(s)] = Len(scopes)

Flows(level, known, open, avail, s, function, scopes, fs) ==
  /\ Levelled(level, s, function)
  /\ CodeFlows(fs, avail)
  /\ Opens(open, s, scopes)
  /\ function.function # 0 => known[Len(s)] \subseteq Here(avail, fs, function)
  /\ \A d \in 1..Len(s) : Depth(level, known, open, avail, s, scopes, fs, d)

Fewer(scopes, ts, n) ==
  \A i \in 1..n :
    /\ ts[i].is_barrier = scopes[i].is_barrier
    /\ \A x \in DOMAIN ts[i].symbols :
         IsObjectBinding(ts[i].symbols[x]) =>
           x \in DOMAIN scopes[i].symbols /\ scopes[i].symbols[x] = ts[i].symbols[x]

(* The blocks a frame waits for, and what is defined there, stay as they are. *)
Untouched(level, s, fs, gs, avail, new, d) ==
  level[d - 1] # 0 =>
    \A b \in Pending(At(s, d)) :
      /\ gs[level[d - 1]].blocks[b] = fs[level[d - 1]].blocks[b]
      /\ new[level[d - 1]][b] = avail[level[d - 1]][b]

SameDepth(level, other, known, knew, open, opens, s, t, d) ==
  /\ At(t, d) = At(s, d)
  /\ other[d] = level[d] /\ other[d - 1] = level[d - 1]
  /\ knew[d] = known[d] /\ knew[d - 1] = known[d - 1]
  /\ opens[d] = open[d]

Flowing(avail, s, function, scopes, fs) ==
  \E level, known, open : Flows(level, known, open, avail, s, function, scopes, fs)

Raised(known, n, x) == [d \in Nat |-> IF d = n THEN x ELSE known[d]]

(* Steps that write code: no frame waits for the block that is current.       *)
Separate(level, s, function, fs) ==
  \A d, b : Awaits(s, d, b) /\ level[d - 1] # 0 =>
    /\ IsOpen(fs, level[d - 1], b)
    /\ ~(level[d - 1] = function.function /\ b = function.block)

(* What is known elsewhere stays so when only the current function's block b  *)
(* is written.                                                                *)
WrittenAt(fs, gs, avail, new, f, b) ==
  /\ OneFunction(fs, gs, f) /\ \A g \in DOMAIN fs : g # f => new[g] = avail[g]
  /\ \A c \in DOMAIN fs[f].blocks :
       new[f][c] = avail[f][c] /\ (c # b => gs[f].blocks[c] = fs[f].blocks[c])

(* What is defined when the blocks after `last` are entered, for a function.  *)
Afterwards(avail, f, last, here) ==
  [g \in Nat |-> IF g = f THEN [c \in Nat |-> IF c > last THEN here ELSE avail[f][c]]
                 ELSE avail[g]]

(* The current block ends.  What is current then is that block still, a new   *)
(* one, or one that waited, in which what the top frame knows is defined.     *)
Ends(function, fs, gs, avail, top, f, b, here, last, t, n, later) ==
  /\ f = function.function /\ f # 0 /\ b = function.block /\ IsOpen(fs, f, b)
  /\ here = Here(avail, fs, function)
  /\ n \in Nat /\ last \in Nat /\ last = Len(fs[f].blocks) /\ DOMAIN fs[f].blocks = 1..last
  /\ EndedWith(fs, gs, f, b, t, n)
  /\ Registers(TerminatorOperands(t)) \subseteq here
  /\ \A c \in Successors(t) : c \in last + 1..last + n \/ (c \in 1..last /\ avail[f][c] \subseteq here)
  /\ FunctionFormed(later) /\ later.function = f
  /\ \/ later.block = b
     \/ later.block \in last + 1..last + n
     \/ later.block \in 1..last /\ later.block # b /\ top \subseteq avail[f][later.block]

(* What is defined in the block that is current then.                         *)
Continues(new, avail, fs, gs, later, f, b, here, last, n) ==
  /\ later.block = b \/ later.block \in last + 1..last + n => Here(new, gs, later) = here
  /\ later.block \in 1..last /\ later.block # b =>
       Here(new, gs, later) = AtEnd(fs[f].blocks[later.block], avail[f][later.block])

(* The code and the frame on top change, and no frame below waits for what    *)
(* was written.                                                               *)
Rewritten(level, known, open, avail, new, s, t, function, later, scopes, fs, gs) ==
  /\ Len(t) = Len(s) /\ \A d \in 1..Len(s) - 1 : At(t, d) = At(s, d)
  /\ Levelled(level, t, later) /\ Scopes(At(t, Len(s))) = Scopes(Head(s))
  /\ CodeFlows(gs, new)
  /\ \A d \in 1..Len(s) - 1 : Untouched(level, s, fs, gs, avail, new, d)
  /\ later.function # 0 => known[Len(s)] \subseteq Here(new, gs, later)
  /\ Depth(level, known, open, new, t, scopes, gs, Len(s))

(* A function is entered: its frame keeps the one it interrupts, and above    *)
(* the barrier there are its parameters only.                                 *)
Newest(avail, f) == [g \in Nat |-> IF g = f THEN [c \in Nat |-> {}] ELSE avail[g]]

Code(type, count, parameters) ==
  [type |-> type, register_count |-> count,
   blocks |-> <<[EmptyBlock EXCEPT !.parameters = parameters]>>]

EntersWith(s, frame, function, inner, scopes, ts, fs, count) ==
  /\ s # << >> /\ Idle(Head(s)) /\ Scopes(Head(s)) = 0
  /\ frame.at = "body" /\ frame.saved = function
  /\ FunctionFormed(inner) /\ inner.function = Len(fs) + 1 /\ inner.block = 1
  /\ count \in Nat
  /\ Len(ts) = Len(scopes) + 1 /\ \A i \in 1..Len(scopes) : ts[i] = scopes[i]
  /\ ts[Len(scopes) + 1].is_barrier
  /\ \A x \in DOMAIN ts[Len(scopes) + 1].symbols :
       LET binding == ts[Len(scopes) + 1].symbols[x]
       IN  IsObjectBinding(binding) => binding.register \in 0..count - 1

(* What operands, bindings and frames hold is a value of the unit.            *)

FrameGood(frame, pool, fs) ==
  /\ \A o \in Held(frame) : GoodOperand(o, pool, fs)
  /\ frame.at = "argument" => frame.callee \in DOMAIN fs
  /\ frame.at = "condition" => frame.parameter = << >>

BindingGood(binding, pool, fs) == IsObjectBinding(binding) \/ GoodValue(binding, pool, fs)

TableGood(t, pool, fs) ==
  /\ TableFormed(t)
  /\ \A x \in DOMAIN t.global : GoodValue(t.global[x], pool, fs)
  /\ \A i \in DOMAIN t.scopes : \A x \in DOMAIN t.scopes[i].symbols :
       BindingGood(t.scopes[i].symbols[x], pool, fs)

NamesGood(names, fs) == \A x \in DOMAIN names : names[x] \in DOMAIN fs
StackGood(s, pool, fs) == \A d \in 1..Len(s) : FrameGood(At(s, d), pool, fs)
ControlGood(c, pool, fs) == c.do = "value" => GoodOperand(c.value, pool, fs)

WellMade ==
  /\ ScalarsIn(types)
  /\ CodeGood(functions, types)
  /\ TableGood(table, types, functions)
  /\ NamesGood(function_table, functions)
  /\ StackGood(stack, types, functions)
  /\ ControlGood(control, types, functions)

(* Types and functions are only added.                                        *)
Larger(pool, new, fs, gs) ==
  /\ \A t \in DOMAIN pool : t \in DOMAIN new /\ new[t] = pool[t]
  /\ DOMAIN fs \subseteq DOMAIN gs

(* The steps of the stack that put a good frame on it or none. *)
StackMoves(pool, fs) ==
  \/ stack' = stack
  \/ stack' = << >>
  \/ \E frame : FrameGood(frame, pool, fs) /\ stack' = Pushed(frame)
  \/ stack # << >> /\ \E frame : FrameGood(frame, pool, fs) /\ stack' = Replaced(frame)
  \/ stack # << >> /\ stack' = Tail(stack)

(* The steps, by what they do to the stack.                                   *)

Carried(c, avail, fs, function) ==
  function.function # 0 /\ c.do = "value" => Registers({c.value}) \subseteq Here(avail, fs, function)

Flow ==
  \E avail : /\ Flowing(avail, stack, current, table.scopes, functions)
             /\ Carried(control, avail, functions, current)

Sound == WellMade /\ Flow

(* An operand that can be returned to the innermost caller. *)
Visible(operand) ==
  \A avail :
    /\ Flowing(avail, stack, current, table.scopes, functions)
    /\ Carried(control, avail, functions, current)
    /\ current.function # 0
    => Registers({operand}) \subseteq Here(avail, functions, current)

(* The operand that is returned, if one is. *)
Returned == control'.do = "value" =>
  Visible(control'.value) /\ GoodOperand(control'.value, types, functions)

(* The head's next need. *)
SwapsFor(frame) ==
  /\ stack # << >> /\ stack' = Replaced(frame) /\ control'.do # "value"
  /\ frame.at \notin {"body", "branch", "else_if"}
  /\ Scopes(frame) = Scopes(Frame)
  /\ frame.at = "argument" /\ current.function = 0 =>
       \A i \in DOMAIN frame.values : ~IsRegister(frame.values[i])
  /\ frame.at = "condition" => frame.parameter = << >>
  /\ FrameGood(frame, types, functions)
  /\ \A o \in Held(frame) : Visible(o)

(* An instruction is emitted for the innermost caller, which gets its result. *)
Emits(instruction, type) ==
  /\ stack # << >> /\ Frame.at # "body" /\ Scopes(Frame) = 0 /\ current.function # 0
  /\ functions' = WithRegister(WithInstruction(functions, instruction))
  /\ current' = Allocated(type) /\ Give(Register(NextRegister))
  /\ UNCHANGED <<table, types, function_table>>
  /\ InstructionGood(instruction, types, functions) /\ instruction.result = NextRegister
  /\ \A o \in InstructionOperands(instruction) : Visible(o)

Closes(fs, gs, t, n) ==
  \/ gs = WithBlocks(WithTerminator(fs, t), n)
  \/ n = 0 /\ gs = WithTerminator(fs, t)

(* What a step that ends the current block has to show.                       *)
Closing(function, fs, gs, avail, top, here, last, t, n, later) ==
  /\ FunctionsFormed(fs) /\ IsOpen(fs, current.function, current.block)
  /\ current.function # 0
  /\ function.function = current.function /\ function.block = current.block
  /\ t # NoTerminator /\ n \in Nat /\ Closes(fs, gs, t, n)
  /\ here = Here(avail, fs, function) /\ last = Len(fs[current.function].blocks)
  /\ Registers(TerminatorOperands(t)) \subseteq here
  /\ \A c \in Successors(t) :
       c \in last + 1..last + n \/ (c \in 1..last /\ avail[current.function][c] \subseteq here)
  /\ FunctionFormed(later) /\ later.function = current.function
  /\ \/ later.block = current.block
     \/ later.block \in last + 1..last + n
     \/ /\ later.block \in 1..last /\ later.block # current.block
        /\ top \subseteq avail[current.function][later.block]

(* The ghosts of the moment.                                                  *)
Ghosts(level, known, open, avail) ==
  /\ Flows(level, known, open, avail, stack, current, table.scopes, functions)
  /\ Separate(level, stack, current, functions)
  /\ Carried(control, avail, functions, current)

(* What is known where a block is entered later.                              *)
Still(avail, last, here) == Afterwards(avail, current.function, last, here)

(* The frame of the branch, over the blocks it waits for.                     *)
Forking(function, fs, new, here, old, frame, count, merge, last, other, created, blocks) ==
  /\ count \in Nat /\ function.function # 0 /\ here = Here(new, fs, function)
  /\ Forks(old, frame, count, merge, last, other, created, blocks)
  /\ \A c \in count + 1..count + created :
       /\ new[function.function][c] = here
       /\ fs[function.function].blocks[c] = EmptyBlock
  /\ frame.parameter = old.parameter
  /\ old.at = "condition" => frame.parameter = << >>

(* The frame, the current function and the code with the branch's type.       *)
Readied(frame, holder, base, level, known, open, avail) ==
  /\ Flows(level, known, open, avail, Replaced(frame), holder, table.scopes, base)
  /\ Separate(level, Replaced(frame), holder, base)
  /\ FunctionsFormed(base) /\ IsOpen(base, current.function, current.block)
  /\ Here(avail, base, holder) = Here(avail, functions, current)
  /\ FunctionFormed(holder) /\ holder.function = current.function /\ holder.block = current.block
  /\ Larger(types, types, functions, base) /\ CodeGood(base, types)

BranchLeft(frame, base, arguments) ==
  /\ frame.at = "branch" /\ frame.merge = Frame.merge /\ frame.target = Frame.target
  /\ Follows(frame) <=> Follows(Frame)
  /\ IsASequence(arguments) /\ Range(arguments) \subseteq {control.value}
  /\ functions' = WithTerminator(base, JumpTo(Frame.merge, arguments))
  /\ FunctionFormed(current') /\ current'.function = current.function
  /\ current'.block = IF ~Follows(Frame) THEN Frame.merge ELSE Frame.target
  /\ types' = types

(* What holds when the branch's block has ended.                              *)
Branched(frame, level, known, open, new) ==
  /\ Flows(level, known, open, new, Replaced(frame), current', table.scopes, functions')
  /\ Larger(types, types', functions, functions') /\ CodeGood(functions', types')
  /\ frame.parameter # << >> =>
       frame.parameter[1] \in Range(functions'[current'.function].blocks[frame.merge].parameters)

(* The table in which a function's body is compiled: a barrier, the           *)
(* function's own name and its parameters.                                    *)
EnteredScope(t, fn, parameter_types, value) ==
  WithParameters(IF fn.name = << >> THEN PushScope(t, TRUE)
                 ELSE Declared(PushScope(t, TRUE), fn.name[1], value), fn, parameter_types)

(* A scope is added, in which no register but the first ones has a name.      *)
BarrierAdded(t, new, n) ==
  /\ Len(new.scopes) = Len(t.scopes) + 1
  /\ \A i \in 1..Len(t.scopes) : new.scopes[i] = t.scopes[i]
  /\ new.scopes[Len(t.scopes) + 1].is_barrier
  /\ \A x \in DOMAIN new.scopes[Len(t.scopes) + 1].symbols :
       LET binding == new.scopes[Len(t.scopes) + 1].symbols[x]
       IN  IsObjectBinding(binding) => binding.register \in 0..n - 1

(* The table a function leaves: its scope is gone, its name may be declared.  *)
LeftScope(t, name, value) ==
  IF name = << >> THEN PopScope(t) ELSE Declared(PopScope(t), name[1], value)

(* The statements and the diagnostics are counted: one statement has at most  *)
(* one, for its diagnostic ends it.                                           *)

Ways == {"unit", "failure", "escaped", "assertion", "undefined"}
Busy == control.do \notin {"next", "done"} \/ (control = NextStatement /\ stack # << >>)

Tally ==
  /\ program \in Programs
  /\ next \in 1..Len(program) + 1
  /\ diagnostics \in 0..next - 1
  /\ Busy => diagnostics # next - 1
  /\ outcome \in Ways \union {"compiling"}
=============================================================================
