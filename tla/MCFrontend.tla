---------------------------- MODULE MCFrontend ----------------------------
(* Instances of Frontend, and what a program of the language means, to        *)
(* compare the compiled code with.                                            *)
EXTENDS Frontend

----------------------------------------------------------------------------
(* What a syntax tree means, by evaluating it.  An environment is the global  *)
(* names, the local ones and the function being run; a value is a constant, a *)
(* closure over the globals only, as no function sees another's locals, or a  *)
(* type, which is what it is built from and not a place in a pool.            *)

Closure(fn, globals) == [closure |-> fn, globals |-> globals]
IsClosure(v) == "closure" \in DOMAIN v

Gives(v, env) == [ends |-> "value", value |-> v, env |-> env]
Returns(v) == [ends |-> "return", value |-> v]
Stuck == [ends |-> "stuck"]
TooDeep == [ends |-> "deep"]

Bound(env, name, v) ==
  IF env.self = << >> /\ env.depth = 0
  THEN [env EXCEPT !.globals = (name :> v) @@ @]
  ELSE [env EXCEPT !.locals = (name :> v) @@ @]

Applying(op, l, r) ==
  LET fitting == {o \in Overloads : o.op = op /\ o.operand = l.type /\ o.operand = r.type}
  IN  IF IsClosure(l) \/ IsClosure(r) \/ fitting = {} THEN Stuck
      ELSE [ends |-> "value", value |-> Applied(CHOOSE o \in fitting : TRUE, l, r)]

TypeMeant(type) == Constant(TypeType, type)
IsTypeMeant(v) == ~IsClosure(v) /\ v.type = TypeType

Int8s == -128..127

(* The integer of a literal's digits, with the sign before it, if its type    *)
(* has it.                                                                    *)
Written(literal, n) ==
  IF literal.type = Int32 \/ (literal.type = Int8 /\ n \in Int8s)
  THEN [ends |-> "value", value |-> Constant(literal.type, n)] ELSE Stuck

(* Minus a number: what gives zero when it is added, modulo the type's width. *)
Opposite(v) ==
  CASE v.type = Int32 -> [ends |-> "value", value |-> Constant(Int32, 0 - v.value)]
    [] v.type = Int8 ->
         [ends |-> "value",
          value |-> Constant(Int8, CHOOSE n \in Int8s : (n + v.value) % 256 = 0)]
    [] OTHER -> Stuck

(* A prefix operator on a value. *)
Prefixed(op, v) ==
  CASE IsClosure(v) -> Stuck
    [] op = "unary_plus" /\ v.type \in IntegerTypes -> [ends |-> "value", value |-> v]
    [] op = "unary_minus" -> Opposite(v)
    [] op \in {"pointer_to", "pointer_to_mut"} /\ v.type = TypeType ->
         [ends |-> "value", value |-> TypeMeant(<<op, v.value>>)]
    [] OTHER -> Stuck

ArrayMeant(element, size) ==
  IF ~IsTypeMeant(element) THEN Stuck
  ELSE IF size = << >> THEN [ends |-> "value", value |-> TypeMeant(<<"slice", element.value>>)]
  ELSE IF IsClosure(size[1]) \/ size[1].type # Int32 \/ size[1].value <= 0 THEN Stuck
  ELSE [ends |-> "value", value |-> TypeMeant(<<"array", element.value, size[1].value>>)]

RECURSIVE Meaning(_, _, _), MeaningOfAll(_, _, _), MeaningOfBlock(_, _, _, _),
          MeaningOfIf(_, _, _, _), MeaningOfCall(_, _, _)

(* Of an expression; `calls` bounds how deep calls nest. *)
Meaning(e, env, calls) ==
  CASE e.node = "literal" -> Written(e, e.digits) @@ [env |-> env]
    [] e.node = "paren" -> Meaning(e.inner, env, calls)
    [] e.node \in {"postfix", "index"} -> Stuck
    [] e.node = "prefix" ->
         LET v == Meaning(e.operand, env, calls)
         IN  IF e.op = "unary_minus" /\ e.operand.node = "literal"
             THEN Written(e.operand, -e.operand.digits) @@ [env |-> env]
             ELSE IF v.ends # "value" THEN v
             ELSE Prefixed(e.op, v.value) @@ [env |-> env]
    [] e.node = "bracket" ->
         LET all == MeaningOfAll(<<e.operand>> \o e.size, env, calls)
         IN  IF all.ends # "value" THEN all
             ELSE ArrayMeant(all.value[1], Tail(all.value)) @@ [env |-> env]
    [] e.node = "identifier" ->
         IF e.name \in DOMAIN env.locals THEN Gives(env.locals[e.name], env)
         ELSE IF e.name \in DOMAIN env.globals THEN Gives(env.globals[e.name], env)
         ELSE Stuck
    [] e.node = "recurse" -> IF env.self = << >> THEN Stuck ELSE Gives(env.self[1], env)
    [] e.node = "fn" -> Gives(Closure(e, env.globals), env)
    [] e.node = "binary" ->
         LET all == MeaningOfAll(<<e.left, e.right>>, env, calls)
         IN  IF all.ends # "value" THEN all ELSE Applying(e.op, all.value[1], all.value[2])
    [] e.node = "if" -> MeaningOfIf(e.parts, e.else, env, calls)
    [] e.node = "block" ->
         MeaningOfBlock(e.statements, e.tail, [env EXCEPT !.depth = @ + 1], calls)
    [] e.node = "call" ->
         LET all == MeaningOfAll(<<e.callee>> \o e.arguments, env, calls)
         IN  IF all.ends # "value" THEN all
             ELSE IF ~IsClosure(all.value[1]) THEN Stuck
             ELSE IF calls = 0 THEN TooDeep
             ELSE MeaningOfCall(all.value[1], Tail(all.value), calls - 1)

(* The values of several expressions, in order. *)
MeaningOfAll(es, env, calls) ==
  IF es = << >> THEN [ends |-> "value", value |-> << >>]
  ELSE LET first == Meaning(Head(es), env, calls)
           others == MeaningOfAll(Tail(es), env, calls)
       IN  IF first.ends # "value" THEN first
           ELSE IF others.ends # "value" THEN others
           ELSE [ends |-> "value", value |-> <<first.value>> \o others.value]

MeaningOfIf(parts, else, env, calls) ==
  IF parts = << >>
  THEN IF else = << >> THEN Gives(VoidValue, env) ELSE Meaning(else[1], env, calls)
  ELSE LET condition == Meaning(parts[1].condition, env, calls)
       IN  IF condition.ends # "value" THEN condition
           ELSE IF condition.value = BoolValue(TRUE) THEN Meaning(parts[1].body, env, calls)
           ELSE IF condition.value = BoolValue(FALSE) THEN MeaningOfIf(Tail(parts), else, env, calls)
           ELSE Stuck

(* Of statements and a tail: the value and the environment they leave. *)
MeaningOfBlock(statements, tail, env, calls) ==
  IF statements = << >>
  THEN IF tail = << >> THEN Gives(VoidValue, env) ELSE Meaning(tail[1], env, calls)
  ELSE LET s == Head(statements)
           e == CASE s.node = "let" -> s.initializer
                  [] s.node = "return" -> s.value
                  [] s.node = "expression" -> s.expression
           v == Meaning(e, env, calls)
           named == IF s.node = "let" THEN <<s.name>>
                    ELSE IF e.node = "fn" THEN e.name ELSE << >>
       IN  IF v.ends # "value" THEN v
           ELSE IF s.node = "return" THEN Returns(v.value)
           ELSE MeaningOfBlock(Tail(statements), tail,
                               IF named = << >> THEN env ELSE Bound(env, named[1], v.value), calls)

MeaningOfCall(closure, values, calls) ==
  LET fn == closure.closure
      parameters == [i \in DOMAIN values |-> fn.parameters[i].name]
      arguments == [name \in Range(parameters) |->
                      values[CHOOSE i \in DOMAIN values :
                               parameters[i] = name /\ \A j \in DOMAIN values :
                                                         parameters[j] = name => j <= i]]
      own == IF fn.name = << >> THEN NoSymbols ELSE fn.name[1] :> closure
      v == Meaning(fn.body,
                   [globals |-> closure.globals, locals |-> arguments @@ own,
                    self |-> <<closure>>, depth |-> 1], calls)
  IN  IF v.ends \in {"value", "return"} THEN [ends |-> "value", value |-> v.value] ELSE v

(* What the unit's statements leave in the global scope. *)
Builtins ==
  [name \in {"Int8", "Int32", "Bool", "Void"} |-> TypeMeant(<<name>>)]
    @@ "true" :> BoolValue(TRUE) @@ "false" :> BoolValue(FALSE)

GlobalMeaning(statements, calls) ==
  MeaningOfBlock(statements, << >>,
                 [globals |-> Builtins, locals |-> NoSymbols, self |-> << >>, depth |-> 0], calls)

Arguments ==
  {Constant(Int32, n) : n \in 0..2} \union {Constant(Int8, n) : n \in {-128, -1, 0, 127}}
    \union {BoolValue(b) : b \in BOOLEAN}
ArgumentsOf(parameters) ==
  {values \in [DOMAIN parameters -> Arguments] :
     \A i \in DOMAIN parameters : values[i].type = parameters[i]}

CONSTANT Calls     \* how deep the calls nest that are compared

(* Compiled f and the closure it was compiled from agree on these arguments. *)
Agree(f, closure, values) ==
  LET compiled == Interpret(functions, f, values, Fuel)
      meant == MeaningOfCall(closure, values, Calls)
  IN  \/ meant.ends = "deep" \/ compiled.ended = "fuel"
      \/ meant.ends = "stuck" /\ compiled.ended \in {"exception", "assertion"}
      \/ /\ meant.ends = "value" /\ compiled.ended = "value"
         /\ IsClosure(meant.value) \/ compiled.value = meant.value

(* The pool's type t as the source builds it. *)
RECURSIVE Structure(_)
Structure(t) ==
  LET type == types[t]
  IN  CASE type.kind = "Pointer" ->
             <<IF type.is_mutable THEN "pointer_to_mut" ELSE "pointer_to", Structure(type.pointee)>>
        [] type.kind = "Sized_array" -> <<"array", Structure(type.element), type.size>>
        [] type.kind = "Unsized_array" -> <<"slice", Structure(type.element)>>
        [] OTHER -> <<type.kind>>

(* Whatever was folded, inlined into constants, branched on and merged        *)
(* (compile.cpp:713-1016), the unit's global constants are the values the     *)
(* source means, and its functions return what the source's return.           *)
CompiledCodeMeansItsSource ==
  outcome = "unit" =>
    LET meant == GlobalMeaning(program, Calls)
    IN  meant.ends = "value" =>
          \A name \in DOMAIN meant.env.globals :
            LET v == meant.env.globals[name]
                binding == table.global[name]
            IN  IF IsTypeMeant(v)
                THEN binding.type = TypeType /\ Structure(binding.value) = v.value
                ELSE IF ~IsClosure(v) THEN binding = v
                ELSE \A values \in ArgumentsOf(types[binding.type].parameters) :
                       Agree(binding.value, v, values)

(* "return value type does not match function return type" (compile.cpp:1135) *)
(* and "body type does not match return type" (:1204): a function that        *)
(* compiles returns a value of the type it declares.                          *)
ReturnsWhatItDeclares ==
  outcome = "unit" =>
    \A f \in DOMAIN functions :
      LET type == types[functions[f].type]
      IN  \A values \in ArgumentsOf(type.parameters) :
            LET run == Interpret(functions, f, values, Fuel)
            IN  run.ended = "value" => run.value.type = type.result

----------------------------------------------------------------------------
(* Programs. *)

X == Name("x")
Y == Name("y")
Lit0 == Literal(0)
Lit1 == Literal(1)
True == Name("true")
False == Name("false")
IntParameter(name) == [name |-> name, type |-> Name("Int32")]
BoolParameter(name) == [name |-> name, type |-> Name("Bool")]
IntFn(body) == Fn(<< >>, <<IntParameter("x")>>, Name("Int32"), body)
NamedFn(name, body) == Fn(<<name>>, <<IntParameter("x")>>, Name("Int32"), body)
VoidFn(body) == Fn(<< >>, <<IntParameter("x")>>, Name("Void"), body)
Equal(a, b) == Binary("equal", a, b)
Minus(a, b) == Binary("subtract", a, b)
In(e) == Block(<< >>, <<e>>)
Part(c, e) == [condition |-> c, body |-> In(e)]
IfElse(c, a, b) == If(<<Part(c, a)>>, <<In(b)>>)
IfOnly(c, a) == If(<<Part(c, a)>>, << >>)
F(e) == Call(Name("f"), <<e>>)

(* Every if expression, with and without else-ifs and early returns, over a   *)
(* few conditions and branches, as a function and run on a constant.          *)
Conditions == {Equal(X, Lit0), Equal(Lit1, X), False}
Branches == {X, Lit1, Minus(X, Lit1), Block(<<Let("y", Minus(Lit0, X))>>, <<Minus(Y, X)>>)}
Ifs ==
  {IfElse(c, a, b) : c \in Conditions \union {True}, a \in Branches, b \in Branches}
    \union {If(<<Part(c, X), Part(d, a)>>, <<In(b)>>) :
              c \in Conditions, d \in Conditions \union {True}, a \in Branches, b \in Branches}
    \union {If(<<Part(c, Lit0), Part(d, Lit1), Part(Equal(X, Literal(2)), a)>>, <<In(Minus(X, Literal(7)))>>) :
              c \in Conditions, d \in Conditions, a \in Branches}
Early ==
  {Block(<<Expression(If(<<[condition |-> c, body |-> Block(<<Return(a)>>, << >>)]>>, << >>)),
           Let("x", b)>>, <<Minus(X, Lit1)>>) : c \in Conditions, a \in Branches, b \in Branches}
Bodies ==
  Ifs \union Early
    \union {Minus(i, j) : i \in {IfElse(Equal(X, Lit0), a, Lit1) : a \in Branches},
                          j \in {IfElse(Equal(X, Lit1), Lit0, a) : a \in Branches}}

FunctionPrograms ==
  {<<Let("f", IntFn(b)), Let("z", F(Lit1)), Expression(NamedFn("g", Minus(F(X), F(Lit0))))>> : b \in Bodies}

(* A name a block binds, read after the block. *)
ScopePrograms ==
  {<<Let("f", IntFn(Block(<<Expression(IfElse(Equal(X, Lit0), Block(<<Let("y", Minus(X, Lit1))>>, <<Y>>), Lit1))>>,
                          <<Y>>)))>>,
   <<Let("f", IntFn(Block(<<Let("y", Minus(X, Lit1)), Let("h", Fn(<< >>, << >>, Name("Int32"), Y))>>,
                          <<Call(Name("h"), << >>)>>)))>>,
   <<Let("y", Lit1), Let("f", IntFn(Block(<<Let("y", X), Let("h", IntFn(Minus(X, Y)))>>,
                                          <<Call(Name("h"), <<Y>>)>>)))>>,
   <<Let("k", Block(<<Let("y", Lit1)>>, <<IntFn(Minus(X, Y))>>))>>}

(* Recursion, by name and by keyword, run while and after it is compiled. *)
RecursionPrograms ==
  {<<Expression(NamedFn("f", IfElse(Equal(X, Lit0), Lit1, F(Minus(X, Lit1))))), Let("z", F(Literal(2)))>>,
   <<Let("f", IntFn(IfElse(Equal(X, Lit0), Lit0, Call(Recurse, <<Minus(X, Lit1)>>)))), Let("z", F(Lit1))>>,
   <<Let("f", IntFn(Call(Recurse, <<Minus(X, Lit1)>>))), Let("z", F(Lit1)), Let("w", Lit1)>>,
   <<Let("f", IntFn(Call(Recurse, <<X>>))), Expression(F(Lit1))>>,
   <<Expression(NamedFn("f", F(Lit1)))>>,
   <<Expression(NamedFn("f", Block(<<Expression(If(<<[condition |-> Equal(X, Lit1),
                                                      body |-> Block(<<Return(Lit0)>>, << >>)]>>, << >>)),
                                     Return(X)>>, <<F(Lit1)>>))), Let("z", F(Lit0))>>,
   <<Expression(NamedFn("f", Block(<<Return(X)>>, <<F(Lit1)>>))), Let("z", F(Lit0))>>,
   <<Expression(Recurse)>>}

(* Integers at the ends of their types, folded, as functions and as operands  *)
(* that turn out to be out of range.                                          *)
Byte(n) == Suffixed(n, Int8)
Negative(e) == Prefix("unary_minus", e)
Plus(e) == Prefix("unary_plus", e)
Least == Negative(Byte(128))
ByteFn(body) == Fn(<< >>, <<[name |-> "x", type |-> Name("Int8")]>>, Name("Int8"), body)
Numbers ==
  {Byte(127), Byte(128), Least, Negative(Byte(129)), Negative(Paren(Byte(128))), Negative(Paren(Byte(127))),
   Negative(Least), Plus(Least), Suffixed(1, 0), Negative(Suffixed(1, 0)), Literal(2147483647),
   Negative(Literal(2147483647)), Minus(Least, Byte(1)), Minus(Byte(127), Negative(Byte(1))),
   Negative(Plus(Lit1))}
ByteBodies ==
  {Negative(X), Plus(X), Negative(Negative(X)), Minus(X, Least), Minus(Negative(X), X),
   Minus(Negative(Byte(1)), X), IfElse(Equal(Negative(X), X), Plus(X), Negative(X)),
   Minus(IfElse(Equal(X, Least), Negative(X), X), Plus(Byte(127)))}
NumberPrograms ==
  {<<Let("z", e), Let("w", Negative(Name("z")))>> : e \in Numbers}
    \union {<<Let("f", ByteFn(b)), Let("z", F(Least)), Let("w", F(Byte(127)))>> : b \in ByteBodies}
    \union {<<Let("f", IntFn(b)), Let("z", F(Negative(Lit1)))>> :
              b \in {Negative(X), Minus(Negative(Paren(Minus(X, Lit1))), Plus(X))}}

(* Types built from types, and what of one type may be passed as another.     *)
Pointer(e) == Prefix("pointer_to", e)
MutPointer(e) == Prefix("pointer_to_mut", e)
Array(n, e) == PrefixBracket(<<n>>, e)
Slice(e) == PrefixBracket(<< >>, e)
Built ==
  {Name("Int8"), Pointer(Name("Int8")), MutPointer(Name("Int8")), Slice(Name("Int8")),
   Array(Literal(2), Name("Int8")), Array(Minus(Literal(4), Lit1), Name("Int8")),
   Pointer(Slice(Name("Int8"))), MutPointer(Slice(Name("Int8"))), Pointer(Array(Literal(2), Name("Int8"))),
   Pointer(MutPointer(Name("Int8"))), MutPointer(MutPointer(Name("Int8"))),
   Array(Literal(2), Pointer(Name("Int8"))), Pointer(Slice(Pointer(Name("Int8")))),
   Array(Literal(2), MutPointer(Name("Int8")))}
Taking(type, body) == Fn(<< >>, <<[name |-> "x", type |-> type]>>, Name("Int32"), body)
TypePrograms ==
  {<<Let("T", to), Let("g", Taking(Name("T"), Lit1)), Let("f", Taking(from, Call(Name("g"), <<X>>))),
     Let("h", Fn(<< >>, <<[name |-> "x", type |-> from]>>, Name("T"), X))>> : to \in Built, from \in Built}

(* What is refused, in a function, with statements of the same unit after it. *)
RefusedExpressions ==
  {Name("w"), Call(X, << >>), F(Lit0), Call(Name("g"), << >>), Call(Name("g"), <<True>>),
   IfElse(X, Lit1, Lit0), IfElse(Equal(X, Lit0), X, True),
   If(<<Part(Equal(X, Lit0), X), Part(Equal(X, Lit1), True)>>, <<In(Lit0)>>),
   Equal(X, Lit0), Block(<<Return(True)>>, <<X>>), Block(<<While>>, <<X>>),
   Block(<<LetMut("y", X)>>, <<X>>),
   Call(IfElse(Equal(X, Lit0), Name("g"), Name("g")), <<X>>),
   Block(<<Let("t", IfElse(Equal(X, Lit0), Name("Int32"), Name("Bool")))>>, <<X>>),
   Array(X, Name("Int32")), Array(Lit0, Name("Int32")), Array(Negative(Lit1), Name("Int32")),
   Array(True, Name("Int32")), Array(Minus(X, Lit1), Name("Int32")), Array(Byte(2), Name("Int32")),
   Array(Literal(2), Lit1), Slice(X), Postfix(X), Byte(128), Negative(Paren(Byte(128))), Suffixed(1, 0),
   Slice(IfElse(Equal(X, Lit0), Name("Int32"), Name("Bool"))),
   Fn(<< >>, <<[name |-> "y", type |-> X]>>, Name("Int32"), X),
   Fn(<< >>, <<[name |-> "y", type |-> Lit1]>>, Name("Int32"), X),
   Fn(<< >>, <<[name |-> "y", type |-> Block(<<Expression(F(Lit1))>>, <<Name("Int32")>>)]>>,
      Name("Int32"), X)}
RefusedPrograms ==
  {<<Let("g", IntFn(X)), Let("f", IntFn(e)), Let("h", Fn(<< >>, << >>, Name("Bool"), True)),
     Let("z", Call(Name("h"), << >>))>> : e \in RefusedExpressions}
    \union {<<Let("f", IntFn(Let("h", IntFn(Minus(X, Name("w")))).initializer)), Let("z", X)>>,
            <<Let("f", IntFn(Block(<<Let("h", IntFn(Name("w")))>>, <<X>>))), Let("z", Lit1), LetMut("u", Lit1)>>,
            <<Let("f", IntFn(Call(Recurse, <<X>>))),
              Let("h", Fn(<< >>, <<[name |-> "y", type |-> F(Lit1)]>>, Name("Int32"), X))>>}

(* What ends the pass otherwise. *)
EndingPrograms ==
  {<<Let("z", Equal(Lit1, True))>>,
   <<Let("z", Index(Lit1, Lit0))>>,
   <<Let("z", Negative(True))>>,
   <<Let("z", Pointer(Lit1))>>,
   <<Let("f", IntFn(Prefix("address_of", X)))>>,
   <<Let("f", IntFn(Pointer(IfElse(Equal(X, Lit0), Name("Int32"), Name("Bool")))))>>,
   <<Expression(Block(<<Return(Lit1)>>, << >>))>>,
   <<Let("z", If(<<Part(False, Lit0), Part(Lit1, Lit0)>>, << >>))>>,
   <<Let("f", IntFn(Name("w"))), Let("z", X)>>,
   <<Let("z", If(<<Part(False, Lit1), Part(Equal(Lit1, Lit0), Lit0)>>, << >>)), Let("f", IntFn(X))>>}

(* Void functions, void bodies and if expressions without an else. *)
UsedIn(b) == <<Let("f", IntFn(b)), Let("z", F(Lit1)), Let("g", IntFn(Minus(F(X), Lit1)))>>
VoidPrograms ==
  {<<Let("f", VoidFn(b)), Let("z", F(Lit1))>> :
     b \in {Block(<< >>, << >>), IfOnly(Equal(X, Lit0), Block(<<Expression(Minus(X, Lit1))>>, << >>))}}
    \union {UsedIn(b) :
              b \in {Block(<<Expression(Minus(X, Lit1))>>, << >>),
                     If(<<Part(Equal(X, Lit0), X), Part(X, Lit1)>>, <<In(Lit0)>>)}}
ElselessPrograms ==
  {UsedIn(IfOnly(c, a)) : c \in Conditions, a \in Branches}
    \union {UsedIn(If(<<Part(Equal(X, Lit0), X), Part(Equal(X, Lit1), Lit1)>>, << >>))}

AllPrograms ==
  FunctionPrograms \union ScopePrograms \union RecursionPrograms \union RefusedPrograms
    \union EndingPrograms \union NumberPrograms \union TypePrograms \union VoidPrograms \union ElselessPrograms
============================================================================
