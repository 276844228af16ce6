------------------------------ MODULE Frontend ------------------------------
(* benson::Frontend: one pass over the syntax tree that resolves names,       *)
(* checks types, evaluates what is constant and emits HLIR for the rest.      *)
(*                                                                            *)
(* The C++ recursion over the tree is a machine: `control` is the call being  *)
(* made or the operand being returned, `stack` holds the callers that wait    *)
(* for it, innermost first.  A diagnostic unwinds the whole stack to          *)
(* compile(), which goes on with the next top-level statement.                *)
(*                                                                            *)
(* Left out: float expressions, and the integer types other than Int8 and     *)
(* Int32 with the literals that are too large for them.                       *)
EXTENDS Hlir, SymbolTable

CONSTANT Programs     \* the syntax trees: sequences of statements

ASSUME FrontendAssumption == \A p \in Programs : Len(p) \in Nat

VARIABLES
  program,
  next,               \* the position of the next top-level statement
  table,              \* _symbol_table
  types,              \* _type_pool
  functions,          \* _translation_unit.functions
  function_table,     \* _translation_unit.function_table
  current,            \* _current_function (0: null), _current_block, _register_types
  diagnostics,        \* how many
  stack, control,
  outcome             \* how compile() ended

unit == <<types, functions, function_table>>
tally == <<program, next, diagnostics, outcome>>
vars == <<program, next, table, types, functions, function_table, current,
          diagnostics, stack, control, outcome>>

----------------------------------------------------------------------------
(* Syntax trees. *)

Literal(n) == [node |-> "literal", digits |-> n, type |-> Int32]
Suffixed(n, type) == [node |-> "literal", digits |-> n, type |-> type]     \* 0: unknown
Paren(inner) == [node |-> "paren", inner |-> inner]
Prefix(op, operand) == [node |-> "prefix", op |-> op, operand |-> operand]
Postfix(operand) == [node |-> "postfix", operand |-> operand]
Index(operand, index) == [node |-> "index", operand |-> operand, index |-> index]
PrefixBracket(size, operand) == [node |-> "bracket", size |-> size, operand |-> operand]
Name(name) == [node |-> "identifier", name |-> name]
Recurse == [node |-> "recurse"]
Binary(op, left, right) == [node |-> "binary", op |-> op, left |-> left, right |-> right]
Call(callee, arguments) == [node |-> "call", callee |-> callee, arguments |-> arguments]
Block(statements, tail) == [node |-> "block", statements |-> statements, tail |-> tail]
If(parts, else) == [node |-> "if", parts |-> parts, else |-> else]
Fn(name, parameters, return_type, body) ==
  [node |-> "fn", name |-> name, parameters |-> parameters,
   return_type |-> return_type, body |-> body]

Let(name, initializer) ==
  [node |-> "let", mutable |-> FALSE, name |-> name, initializer |-> initializer]
LetMut(name, initializer) == [Let(name, initializer) EXCEPT !.mutable = TRUE]
While == [node |-> "while"]
Return(value) == [node |-> "return", value |-> value]
Expression(expression) == [node |-> "expression", expression |-> expression]

----------------------------------------------------------------------------
(* The machine's parts. *)

NoFunction == [function |-> 0, block |-> 0, register_types |-> << >>]

NextStatement == [do |-> "next"]
EvaluateOf(e) == [do |-> "expression", expression |-> e]
ValueOf(operand) == [do |-> "value", value |-> operand]

Frame == Head(stack)
Pushed(frame) == <<frame>> \o stack
Replaced(frame) == <<frame>> \o Tail(stack)

(* Evaluate an expression for a new caller, for the same caller's next need, *)
(* and return a value to the caller.                                          *)
Start(frame, expression) ==
  /\ stack' = Pushed(frame)
  /\ control' = EvaluateOf(expression)
  /\ UNCHANGED <<tally, table, current, unit>>

Resume(frame, expression) ==
  /\ stack' = Replaced(frame)
  /\ control' = EvaluateOf(expression)

Give(operand) ==
  /\ stack' = Tail(stack)
  /\ control' = ValueOf(operand)

(* Frames that catch Fuel_exhausted_error. *)
Catching == {"let", "type"}

(* What the destructors of the frames left behind make of `current`. *)
Unwound_Kept == current     \* mutant: the function stays the current one

Unwound ==
  LET bodies == {i \in DOMAIN stack : stack[i].at = "body"}
  IN  IF bodies = {} THEN current
      ELSE stack[CHOOSE i \in bodies : \A j \in bodies : j <= i].saved

(* emit_error(), up to the catch in compile(). *)
Fail ==
  /\ diagnostics' = diagnostics + 1
  /\ current' = Unwound
  /\ stack' = << >>
  /\ control' = NextStatement
  /\ UNCHANGED <<program, next, table, outcome, unit>>

(* An exception that leaves compile(), a failed assert, undefined behaviour. *)
Halt(how) ==
  /\ outcome' = how
  /\ control' = [do |-> "done"]
  /\ UNCHANGED <<program, next, table, current, diagnostics, stack, unit>>

Known(operand) == IsRegister(operand) => operand.register + 1 \in DOMAIN current.register_types

TypeOf(operand) ==
  IF IsRegister(operand) THEN current.register_types[operand.register + 1] ELSE operand.type

IsTopLevel == current.function = 0

(* is_type_compatible(): a pointer may lose its `mut`, at any depth, and an   *)
(* array goes where a pointer to unsized ones is expected.                    *)
Compatible(parameter, argument) ==
  LET fits[to, from \in DOMAIN types] ==
        LET expected == types[to]
            given == types[from]
        IN  \/ to = from
            \/ /\ expected.kind = "Pointer" /\ given.kind = "Pointer"
               /\ expected.is_mutable => given.is_mutable
               /\ fits[expected.pointee, given.pointee]
            \/ /\ expected.kind = "Pointer" /\ given.kind = "Sized_array"
               /\ types[expected.pointee].kind = "Unsized_array"
               /\ fits[types[expected.pointee].element, given.element]
  IN  fits[parameter, argument]

(* The operands whose types the innermost caller asks for. *)
Asked ==
  CASE Frame.at \in {"let", "return", "callee", "argument", "branch", "body", "operand", "size"} ->
         {control.value}
    [] Frame.at = "right" -> {Frame.lhs, control.value}
    [] Frame.at = "condition" /\ Frame.part = 1 -> {control.value}
    [] OTHER -> {}

Returning(at) ==
  /\ control.do = "value"
  /\ Frame.at = at
  /\ \A operand \in Asked : Known(operand)

(* type_of_register() of a register the current function does not have. *)
UnknownRegister ==
  /\ control.do = "value"
  /\ \E operand \in Asked : ~Known(operand)
  /\ Halt("assertion")

----------------------------------------------------------------------------
(* Emission into the current block.  An emission at top level is never        *)
(* reached: its operands' registers are refused first.                        *)

Blocks == functions[current.function].blocks

WithInstruction(fs, instruction) ==
  [fs EXCEPT ![current.function].blocks[current.block].instructions = Append(@, instruction)]

WithTerminator(fs, terminator) ==
  [fs EXCEPT ![current.function].blocks[current.block].terminator = terminator]

WithBlocks(fs, n) ==
  [fs EXCEPT ![current.function].blocks = @ \o [i \in 1..n |-> EmptyBlock]]

(* allocate_register(). *)
NextRegister == functions[current.function].register_count
WithRegister(fs) == [fs EXCEPT ![current.function].register_count = @ + 1]
Allocated(type) == [current EXCEPT !.register_types = Append(@, type)]

----------------------------------------------------------------------------
(* compile() and the statements. *)

Predeclared ==
  [name \in {"Int8", "Int32", "Bool", "Void", "true", "false"} |->
     CASE name = "Int8" -> Constant(TypeType, Int8)
       [] name = "Int32" -> Constant(TypeType, Int32)
       [] name = "Bool" -> Constant(TypeType, Bool)
       [] name = "Void" -> Constant(TypeType, Void)
       [] OTHER -> BoolValue(name = "true")]

Init ==
  /\ program \in Programs
  /\ next = 1
  /\ table = [global |-> Predeclared, scopes |-> << >>]
  /\ types = ScalarPool
  /\ functions = << >>
  /\ function_table = NoSymbols
  /\ current = NoFunction
  /\ diagnostics = 0
  /\ stack = << >>
  /\ control = NextStatement
  /\ outcome = "compiling"

TopLevelStatement ==
  /\ control = NextStatement /\ stack = << >>
  /\ next <= Len(program)
  /\ next' = next + 1
  /\ control' = [do |-> "statement", statement |-> program[next]]
  /\ UNCHANGED <<program, table, current, diagnostics, stack, outcome, unit>>

EndOfUnit ==
  /\ control = NextStatement /\ stack = << >>
  /\ next > Len(program)
  /\ Halt(IF diagnostics = 0 THEN "unit" ELSE "failure")

Statement(node) == control.do = "statement" /\ control.statement.node = node

LetStatement ==
  /\ Statement("let")
  /\ LET let == control.statement
     IN  IF let.mutable /\ IsTopLevel
         THEN Fail
         ELSE Start([at |-> "let", name |-> let.name, mutable |-> let.mutable], let.initializer)

(* The binding.  A function's name enters the function table from any depth.  *)
LetBinding ==
  /\ Returning("let")
  /\ LET operand == control.value
         type == TypeOf(operand)
         must_be_constant == IsTopLevel \/ ~IsObjectType(types, type)
     IN  IF Frame.mutable \/ (must_be_constant /\ IsRegister(operand))
         THEN Fail
         ELSE /\ table' = Declared(table, Frame.name,
                                   IF IsRegister(operand)
                                   THEN ObjectBinding(type, operand.register) ELSE operand)
              /\ function_table' = IF types[type].kind = "Function"
                                   THEN Hiding(function_table, Symbol(Frame.name, operand.value))
                                   ELSE function_table
              /\ stack' = Tail(stack)
              /\ control' = NextStatement
              /\ UNCHANGED <<tally, types, functions, current>>

WhileStatement == Statement("while") /\ Fail

ReturnStatement ==
  /\ Statement("return")
  /\ Start([at |-> "return"], control.statement.value)

(* A terminator, then a dead block for what follows. *)
ReturnValue_SameBlock ==     \* mutant: no dead block
  /\ Returning("return")
  /\ current.function # 0
  /\ functions' = WithTerminator(functions, ReturnOf(control.value))
  /\ stack' = Tail(stack)
  /\ control' = NextStatement
  /\ UNCHANGED <<tally, table, current, types, function_table>>

ReturnValue ==
  /\ Returning("return")
  /\ IF IsTopLevel THEN Halt("undefined")     \* a null _current_function
     ELSE IF ~Compatible(types[functions[current.function].type].result, TypeOf(control.value))
     THEN Fail
     ELSE /\ functions' = WithBlocks(WithTerminator(functions, ReturnOf(control.value)), 1)
          /\ current' = [current EXCEPT !.block = Len(Blocks) + 1]
          /\ stack' = Tail(stack)
          /\ control' = NextStatement
          /\ UNCHANGED <<tally, table, types, function_table>>

ExpressionStatement ==
  /\ Statement("expression")
  /\ Start([at |-> "expression"], control.statement.expression)

Discard ==
  /\ Returning("expression")
  /\ stack' = Tail(stack)
  /\ control' = NextStatement
  /\ UNCHANGED <<tally, table, current, unit>>

----------------------------------------------------------------------------
(* Simple expressions, blocks and operators. *)

Evaluating(node) == control.do = "expression" /\ control.expression.node = node

(* An expression with nothing to wait for. *)
Yield(operand) ==
  /\ control' = ValueOf(operand)
  /\ UNCHANGED <<tally, table, current, stack, unit>>

(* compile_int_literal(): a literal under a unary minus may be one larger. *)
IntegerLiteral(literal, negate) ==
  LET magnitude == IF negate THEN literal.digits - 1 ELSE literal.digits
  IN  IF literal.type \notin IntegerTypes \/ magnitude > LargestInteger[literal.type]
      THEN Fail
      ELSE Yield(Constant(literal.type, IF negate THEN -literal.digits ELSE literal.digits))

IntLiteral == Evaluating("literal") /\ IntegerLiteral(control.expression, FALSE)

ParenExpression ==
  /\ Evaluating("paren")
  /\ control' = EvaluateOf(control.expression.inner)
  /\ UNCHANGED <<tally, table, current, stack, unit>>

Identifier ==
  /\ Evaluating("identifier")
  /\ LET binding == Lookup(table, control.expression.name)
     IN  IF binding = << >> THEN Fail
         ELSE IF IsObjectBinding(binding[1]) THEN Yield(Register(binding[1].register))
         ELSE Yield(binding[1])

RecurseExpression ==
  /\ Evaluating("recurse")
  /\ IF IsTopLevel THEN Fail
     ELSE Yield(Constant(functions[current.function].type, current.function))

EnterBlock ==
  /\ Evaluating("block")
  /\ table' = PushScope(table, FALSE)
  /\ stack' = Pushed([at |-> "block", rest |-> control.expression.statements,
                      tail |-> control.expression.tail])
  /\ control' = NextStatement
  /\ UNCHANGED <<tally, current, unit>>

BlockStatement ==
  /\ control = NextStatement /\ stack # << >> /\ Frame.rest # << >>
  /\ stack' = Replaced([Frame EXCEPT !.rest = Tail(@)])
  /\ control' = [do |-> "statement", statement |-> Head(Frame.rest)]
  /\ UNCHANGED <<tally, table, current, unit>>

BlockTail ==
  /\ control = NextStatement /\ stack # << >> /\ Frame.rest = << >>
  /\ Frame.tail # << >>
  /\ Resume([at |-> "tail"], Frame.tail[1])
  /\ UNCHANGED <<tally, table, current, unit>>

LeaveBlock ==
  /\ \/ control = NextStatement /\ stack # << >> /\ Frame.rest = << >> /\ Frame.tail = << >>
     \/ Returning("tail")
  /\ table' = PopScope(table)
  /\ Give(IF control.do = "value" THEN control.value ELSE VoidValue)
  /\ UNCHANGED <<tally, current, unit>>

(* Prefix operators.  Only a literal that is itself the operand of a minus is *)
(* read together with it.                                                     *)
PrefixExpression ==
  /\ Evaluating("prefix")
  /\ LET op == control.expression.op
         operand == control.expression.operand
     IN  IF op = "unary_minus" /\ operand.node = "literal"
         THEN IntegerLiteral(operand, TRUE)
         ELSE Start([at |-> "operand", op |-> op], operand)

(* find_unary_overload(): the operators defined on a type. *)
UnaryOperators(type) ==
  CASE type \in IntegerTypes -> {"unary_plus", "unary_minus"}
    [] type = TypeType -> {"pointer_to", "pointer_to_mut"}
    [] OTHER -> {}

(* A type built from others, as an operand. *)
GiveType(type) ==
  LET pool == Interned(types, type)
  IN  /\ types' = pool
      /\ Give(Constant(TypeType, TypeIn(pool, type)))
      /\ UNCHANGED <<tally, table, current, functions, function_table>>

(* A pointer to a type that is not constant fails an assert, as an operand    *)
(* without overload does.                                                     *)
PrefixOperand ==
  /\ Returning("operand")
  /\ LET operand == control.value
         type == TypeOf(operand)
     IN  \/ Frame.op \notin UnaryOperators(type) /\ Halt("assertion")
         \/ /\ Frame.op = "unary_plus" /\ type \in IntegerTypes
            /\ Give(operand)
            /\ UNCHANGED <<tally, table, current, unit>>
         \/ /\ Frame.op = "unary_minus" /\ type \in IntegerTypes
            /\ IF IsRegister(operand)
               THEN /\ functions' = WithRegister(WithInstruction(functions,
                                      NegateInstruction(type, NextRegister, operand)))
                    /\ current' = Allocated(type)
                    /\ Give(Register(NextRegister))
                    /\ UNCHANGED <<tally, table, types, function_table>>
               ELSE Give(Negated(operand)) /\ UNCHANGED <<tally, table, current, unit>>
         \/ /\ Frame.op \in {"pointer_to", "pointer_to_mut"} /\ type = TypeType
            /\ IF IsRegister(operand) THEN Halt("assertion")
               ELSE GiveType(PointerType(operand.value, Frame.op = "pointer_to_mut"))

(* Neither compiles its operand. *)
PostfixExpression == Evaluating("postfix") /\ Fail
IndexExpression == Evaluating("index") /\ Halt("escaped")

(* An array type: the element's type first, then the size. *)
PrefixBracketExpression ==
  /\ Evaluating("bracket")
  /\ Start([at |-> "element", size |-> control.expression.size], control.expression.operand)

ElementType ==
  /\ Returning("element")
  /\ LET element == control.value
     IN  IF IsRegister(element) \/ element.type # TypeType
         THEN Fail
         ELSE IF Frame.size = << >> THEN GiveType(UnsizedArrayType(element.value))
         ELSE /\ Resume([at |-> "size", element |-> element.value], Frame.size[1])
              /\ UNCHANGED <<tally, table, current, unit>>

ArraySize ==
  /\ Returning("size")
  /\ LET size == control.value
     IN  IF \/ TypeOf(size) # Int32
            \/ IsRegister(size)
            \/ size.value <= 0
         THEN Fail
         ELSE GiveType(SizedArrayType(Frame.element, size.value))

BinaryExpression ==
  /\ Evaluating("binary")
  /\ Start([at |-> "left", op |-> control.expression.op, right |-> control.expression.right],
           control.expression.left)

RightOperand ==
  /\ Returning("left")
  /\ Resume([at |-> "right", op |-> Frame.op, lhs |-> control.value], Frame.right)
  /\ UNCHANGED <<tally, table, current, unit>>

Fitting(op, lhs, rhs) ==
  {o \in Overloads : o.op = op /\ o.operand = TypeOf(lhs) /\ o.operand = TypeOf(rhs)}

(* Constants are folded, anything else becomes an instruction; operands with  *)
(* no overload fail an assert.                                                *)
Operate ==
  /\ Returning("right")
  /\ LET lhs == Frame.lhs
         rhs == control.value
         fitting == Fitting(Frame.op, lhs, rhs)
         overload == CHOOSE o \in fitting : TRUE
     IN  \/ fitting = {} /\ Halt("assertion")
         \/ /\ fitting # {} /\ ~IsRegister(lhs) /\ ~IsRegister(rhs)
            /\ Give(Applied(overload, lhs, rhs))
            /\ UNCHANGED <<tally, table, current, unit>>
         \/ /\ fitting # {} /\ (IsRegister(lhs) \/ IsRegister(rhs))
            /\ functions' = WithRegister(WithInstruction(functions,
                              BinaryInstruction(overload, NextRegister, lhs, rhs)))
            /\ current' = Allocated(overload.result)
            /\ Give(Register(NextRegister))
            /\ UNCHANGED <<tally, table, types, function_table>>

----------------------------------------------------------------------------
(* Calls. *)

CallExpression ==
  /\ Evaluating("call")
  /\ Start([at |-> "callee", rest |-> control.expression.arguments], control.expression.callee)

Callee ==
  /\ Returning("callee")
  /\ LET type == types[TypeOf(control.value)]
     IN  IF \/ type.kind # "Function"
            \/ IsRegister(control.value)
            \/ Len(Frame.rest) # Len(type.parameters)
         THEN Fail
         ELSE /\ stack' = Replaced([at |-> "argument", callee |-> control.value.value,
                                    values |-> << >>, rest |-> Frame.rest])
              /\ control' = [do |-> "call"]
              /\ UNCHANGED <<tally, table, current, unit>>

Argument ==
  /\ control.do = "call" /\ Frame.rest # << >>
  /\ control' = EvaluateOf(Head(Frame.rest))
  /\ UNCHANGED <<tally, table, current, stack, unit>>

ArgumentValue ==
  /\ Returning("argument")
  /\ IF ~Compatible(types[functions[Frame.callee].type].parameters[Len(Frame.values) + 1],
                    TypeOf(control.value))
     THEN Fail
     ELSE /\ stack' = Replaced([Frame EXCEPT !.values = Append(@, control.value), !.rest = Tail(@)])
          /\ control' = [do |-> "call"]
          /\ UNCHANGED <<tally, table, current, unit>>

(* With constant arguments the callee is run at once, even if it is still     *)
(* being compiled.                                                            *)
CallNow ==
  /\ control.do = "call" /\ Frame.rest = << >>
  /\ \A i \in DOMAIN Frame.values : ~IsRegister(Frame.values[i])
  /\ LET run == Interpret(functions, Frame.callee, Frame.values, Fuel)
     IN  \/ /\ run.ended = "value"
            /\ Give(run.value)
            /\ UNCHANGED <<tally, table, current, unit>>
         \/ /\ run.ended = "fuel"
            /\ IF \E i \in DOMAIN stack : stack[i].at \in Catching THEN Fail ELSE Halt("escaped")
         \/ run.ended = "exception" /\ Halt("escaped")
         \/ run.ended = "assertion" /\ Halt("assertion")

EmitCall ==
  /\ control.do = "call" /\ Frame.rest = << >>
  /\ \E i \in DOMAIN Frame.values : IsRegister(Frame.values[i])
  /\ functions' = WithRegister(WithInstruction(functions,
                    CallInstruction(NextRegister, Frame.callee, Frame.values)))
  /\ current' = Allocated(types[functions[Frame.callee].type].result)
  /\ Give(Register(NextRegister))
  /\ UNCHANGED <<tally, table, types, function_table>>

----------------------------------------------------------------------------
(* If expressions.  `part` is the one whose condition or body is compiled;     *)
(* constant conditions are folded until one is not.                           *)

IfExpression ==
  /\ Evaluating("if")
  /\ Start([at |-> "condition", part |-> 1, parts |-> control.expression.parts,
            else |-> control.expression.else, merge |-> 0, target |-> 0,
            type |-> 0, parameter |-> << >>],
           control.expression.parts[1].condition)

(* Whether a part or an else follows the one being compiled. *)
Follows(frame) == frame.part < Len(frame.parts) \/ frame.else # << >>

(* Only the first condition's type is checked. *)
ConditionRefused ==
  /\ Returning("condition")
  /\ \/ Frame.part = 1 /\ TypeOf(control.value) # Bool /\ Fail
     \/ Frame.part # 1 /\ ~IsRegister(control.value) /\ control.value.type # Bool /\ Halt("escaped")

ConditionFolded ==
  /\ Returning("condition")
  /\ ~IsRegister(control.value) /\ control.value.type = Bool
  /\ UNCHANGED <<tally, table, current, unit>>
  /\ IF control.value = BoolValue(TRUE)
     THEN stack' = Tail(stack) /\ control' = EvaluateOf(Frame.parts[Frame.part].body)
     ELSE IF Frame.part < Len(Frame.parts)
     THEN Resume([Frame EXCEPT !.part = @ + 1], Frame.parts[Frame.part + 1].condition)
     ELSE /\ stack' = Tail(stack)
          /\ control' = IF Frame.else = << >> THEN ValueOf(VoidValue)
                                              ELSE EvaluateOf(Frame.else[1])

(* A branch on the part's condition, to a block for its body and one for what *)
(* follows, which is the merge block when nothing does.                       *)
Fork(merge, last) ==
  LET other == IF Follows(Frame) THEN last + 2 ELSE merge
      created == (IF other = merge THEN last + 1 ELSE last + 2) - Len(Blocks)
  IN  /\ functions' = WithBlocks(
                        WithTerminator(functions, BranchTo(control.value, last + 1, other)), created)
      /\ current' = [current EXCEPT !.block = last + 1]
      /\ Resume([Frame EXCEPT !.at = "branch", !.merge = merge, !.target = other],
                Frame.parts[Frame.part].body)
      /\ UNCHANGED <<tally, table, types, function_table>>

ConditionForks ==
  /\ Returning("condition")
  /\ IsRegister(control.value)
  /\ Frame.part = 1 => TypeOf(control.value) = Bool
  /\ IF IsTopLevel THEN Halt("assertion")     \* new_block()
     ELSE Fork(Len(Blocks) + 1, Len(Blocks) + 1)

ElseIfCondition ==
  /\ Returning("else_if")
  /\ Fork(Frame.merge, Len(Blocks))

(* A branch's value.  The first one's type decides the merge parameter, and   *)
(* the others' must be the same; without an else the edge that skips every    *)
(* branch passes nothing to it.                                               *)
BranchDone ==
  /\ Returning("branch")
  /\ LET type == TypeOf(control.value)
         first == Frame.type = 0
         allocates == first /\ type # Void
         parameter == IF allocates THEN <<NextRegister>> ELSE Frame.parameter
         frame == [Frame EXCEPT !.type = type, !.parameter = parameter]
         done == ~Follows(Frame)
     IN  IF ~first /\ type # Frame.type THEN Fail
         ELSE /\ functions' =
                   WithTerminator(
                     IF allocates
                     THEN [WithRegister(functions) EXCEPT
                             ![current.function].blocks[Frame.merge].parameters = parameter]
                     ELSE functions,
                     JumpTo(Frame.merge, IF parameter = << >> THEN << >> ELSE <<control.value>>))
              /\ current' = [(IF allocates THEN Allocated(type) ELSE current) EXCEPT
                               !.block = IF done THEN Frame.merge ELSE Frame.target]
              /\ UNCHANGED <<tally, table, types, function_table>>
              /\ IF done
                 THEN Give(IF parameter = << >> THEN VoidValue ELSE Register(parameter[1]))
                 ELSE IF Frame.part < Len(Frame.parts)
                 THEN Resume([frame EXCEPT !.at = "else_if", !.part = @ + 1],
                             Frame.parts[Frame.part + 1].condition)
                 ELSE Resume([frame EXCEPT !.else = << >>], Frame.else[1])

----------------------------------------------------------------------------
(* Functions. *)

(* The type expressions, the return type's last. *)
TypeExpressions(fn) ==
  Append([i \in DOMAIN fn.parameters |-> fn.parameters[i].type], fn.return_type)

FnExpression ==
  /\ Evaluating("fn")
  /\ Start([at |-> "type", fn |-> control.expression, types |-> << >>],
           TypeExpressions(control.expression)[1])

TypeRefused ==
  \/ IsRegister(control.value)
  \/ control.value.type # TypeType
  \/ /\ Len(Frame.types) < Len(Frame.fn.parameters)
     /\ ~IsObjectType(types, control.value.value)

(* Of two parameters with one name the later one is found. *)
WithParameters(scope, fn, parameter_types) ==
  LET named(name) == {i \in DOMAIN parameter_types : fn.parameters[i].name = name}
      binding(i) == ObjectBinding(parameter_types[i], i - 1)
      symbols == [name \in {fn.parameters[i].name : i \in DOMAIN parameter_types} |->
                    binding(CHOOSE i \in named(name) : \A j \in named(name) : j <= i)]
  IN  [scope EXCEPT !.scopes[Len(scope.scopes)].symbols = Hiding(@, symbols)]

(* A function of this type, its scope and its entry block. *)
EnterFunction(fn, parameter_types, result) ==
  LET type == FunctionType(parameter_types, result)
      pool == Interned(types, type)
      f == Len(functions) + 1
      n == Len(parameter_types)
      scope == PushScope(table, TRUE)
  IN  /\ types' = pool
      /\ functions' = Append(functions,
           [type |-> TypeIn(pool, type), register_count |-> n,
            blocks |-> <<[EmptyBlock EXCEPT !.parameters = [i \in 1..n |-> i - 1]]>>])
      /\ current' = [function |-> f, block |-> 1, register_types |-> parameter_types]
      /\ table' = WithParameters(
                    IF fn.name = << >> THEN scope
                    ELSE Declared(scope, fn.name[1], Constant(TypeIn(pool, type), f)),
                    fn, parameter_types)
      /\ Resume([at |-> "body", fn |-> fn, saved |-> current], fn.body)

TypeValue ==
  /\ Returning("type")
  /\ LET known == Append(Frame.types, control.value.value)
         fn == Frame.fn
     IN  IF TypeRefused THEN Fail
         ELSE IF Len(known) <= Len(fn.parameters)
         THEN /\ Resume([Frame EXCEPT !.types = known], TypeExpressions(fn)[Len(known) + 1])
              /\ UNCHANGED <<tally, table, current, unit>>
         ELSE /\ EnterFunction(fn, Front(known), control.value.value)
              /\ UNCHANGED <<tally, function_table>>

(* A Void body is accepted whatever the return type. *)
LeaveFunction ==
  /\ Returning("body")
  /\ LET type == TypeOf(control.value)
         f == current.function
         value == Constant(functions[f].type, f)
         name == Frame.fn.name
     IN  IF type # Void /\ ~Compatible(types[functions[f].type].result, type)
         THEN Fail
         ELSE /\ functions' = WithTerminator(functions, ReturnOf(control.value))
              /\ current' = Frame.saved
              /\ table' = IF name = << >> THEN PopScope(table)
                          ELSE Declared(PopScope(table), name[1], value)
              /\ function_table' = IF name # << >> /\ Frame.saved.function = 0
                                   THEN Hiding(function_table, Symbol(name[1], f))
                                   ELSE function_table
              /\ Give(value)
              /\ UNCHANGED <<tally, types>>

----------------------------------------------------------------------------

Next ==
  \/ TopLevelStatement \/ EndOfUnit \/ UnknownRegister
  \/ LetStatement \/ LetBinding \/ WhileStatement \/ ReturnStatement \/ ReturnValue
  \/ ExpressionStatement \/ Discard
  \/ IntLiteral \/ ParenExpression \/ PrefixExpression \/ PrefixOperand \/ PostfixExpression
  \/ IndexExpression \/ PrefixBracketExpression \/ ElementType \/ ArraySize
  \/ Identifier \/ RecurseExpression \/ EnterBlock \/ BlockStatement \/ BlockTail \/ LeaveBlock
  \/ BinaryExpression \/ RightOperand \/ Operate
  \/ CallExpression \/ Callee \/ Argument \/ ArgumentValue \/ CallNow \/ EmitCall
  \/ IfExpression \/ ConditionRefused \/ ConditionFolded \/ ConditionForks
  \/ ElseIfCondition \/ BranchDone
  \/ FnExpression \/ TypeValue \/ LeaveFunction

Spec == Init /\ [][Next]_vars

----------------------------------------------------------------------------
(* The parts of TypeOK.  No type is in the pool twice: a type's identity is   *)
(* its place there (Type_pool, type.cpp:118-178).                             *)
TypesDiffer ==
  \A t, u \in DOMAIN types : types[t] = types[u] => t = u

(* A function's type is a function type of the pool. *)
FunctionsHaveTypes ==
  \A f \in DOMAIN functions :
    /\ functions[f].type \in DOMAIN types
    /\ types[functions[f].type].kind = "Function"

(* _register_types has one entry for each register of the current function.   *)
RegistersCounted ==
  current.function # 0 => Len(current.register_types) = NextRegister

(* Types. *)
TypeOK ==
  /\ program \in Programs
  /\ next \in 1..Len(program) + 1
  /\ TypesDiffer
  /\ FunctionsHaveTypes
  /\ RegistersCounted
  /\ \A name \in DOMAIN function_table : function_table[name] \in DOMAIN functions
  /\ current.function \in 0..Len(functions)
  /\ current.function # 0 => current.block \in DOMAIN Blocks
  /\ diagnostics \in 0..Len(program)
  /\ outcome \in {"compiling", "unit", "failure", "escaped", "assertion", "undefined"}

(* Between two top-level statements no function is being compiled, however    *)
(* deep in nested functions the last statement was given up (Scoped_assign,   *)
(* compile.cpp:22): is_top_level() is right about each statement.             *)
TopLevelIsTopLevel ==
  control = NextStatement /\ stack = << >> => current = NoFunction

(* The emission asserts (compile.cpp:587, :599, :619, :1210): while a         *)
(* function is compiled its current block is open, and when the unit is done  *)
(* every block of every function has ended.                                   *)
BlocksEndOnce ==
  /\ current.function # 0 /\ control.do # "done" =>
       Blocks[current.block].terminator = NoTerminator
  /\ outcome = "unit" =>
       \A f \in DOMAIN functions : \A b \in DOMAIN functions[f].blocks :
         functions[f].blocks[b].terminator # NoTerminator

(* The registers an instruction or a terminator reads. *)
Registers(operands) == {o.register : o \in {o \in operands : IsRegister(o)}}

InstructionOperands(i) ==
  CASE i.does = "binary" -> {i.lhs, i.rhs}
    [] i.does = "negate" -> {i.operand}
    [] i.does = "call" -> Range(i.arguments)

TerminatorOperands(t) ==
  CASE t.to = "jump" -> Range(t.arguments)
    [] t.to = "branch" -> {t.condition}
    [] t.to = "return" -> {t.value}
    [] OTHER -> {}

Successors(t) ==
  CASE t.to = "jump" -> {t.target}
    [] t.to = "branch" -> {t.then, t.else}
    [] OTHER -> {}

(* The blocks a path from the first leads to without entering those avoided.  *)
Reached(blocks, avoided) ==
  LET within[n \in Nat] ==
        IF n = 0 THEN {1} \ avoided
        ELSE within[n - 1] \union
               ((UNION {Successors(blocks[b].terminator) : b \in within[n - 1]}) \ avoided)
  IN  within[Len(blocks)]

Defines(block, count) ==
  Range(block.parameters) \union {block.instructions[i].result : i \in 1..count}

(* In a finished unit no path reaches a read of a register before the         *)
(* instruction or the block parameter that defines it: a name's register is   *)
(* only ever found where its definition has run (Symbol_table's scopes follow *)
(* the blocks, compile.cpp:857 and :1179).                                    *)
DefinedBeforeRead ==
  outcome = "unit" =>
    \A f \in DOMAIN functions :
      LET blocks == functions[f].blocks
          all(b) == Defines(blocks[b], Len(blocks[b].instructions))
          defined(r, b, count) ==
            \/ r \in Defines(blocks[b], count)
            \/ b \notin Reached(blocks, {d \in DOMAIN blocks \ {b} : r \in all(d)})
      IN  \A b \in Reached(blocks, {}) :
            /\ \A i \in DOMAIN blocks[b].instructions :
                 \A r \in Registers(InstructionOperands(blocks[b].instructions[i])) : defined(r, b, i - 1)
            /\ \A r \in Registers(TerminatorOperands(blocks[b].terminator)) :
                 defined(r, b, Len(blocks[b].instructions))

(* What the assert in type_of_register() (compile.cpp:568) says: an operand   *)
(* whose type is asked for is a register of the function being compiled.      *)
RegistersAreTheFunctions ==
  control.do = "value" => \A operand \in Asked : Known(operand)
============================================================================
