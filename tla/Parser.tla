------------------------------- MODULE Parser -------------------------------
(* Parser (src/code/parsing/src/parser.cpp): recursive descent, with         *)
(* precedence climbing for the operators.  The C++ call stack is a variable: *)
(* an activation has the AST node it is building and what the rest of its    *)
(* function does.  What a function reads unconditionally is a list of steps; *)
(* every place where it looks at the next token and chooses is an action.    *)
(*                                                                           *)
(* The lexemes come from a Lexeme_stream_reader that may give any token next *)
(* or throw; the parser never looks further than one token ahead.            *)
EXTENDS Integers, Sequences, SequencesExt

CONSTANT Inputs      \* the texts, in sets: [start: the tokens they begin with,
                     \* tokens: those that may follow, length: how many in all]

ASSUME InputsAssumption == \A i \in Inputs : i.start \in Seq(Range(i.start))

VARIABLES
  input,      \* the member of Inputs at hand
  tokens,     \* history: the tokens read
  ahead,      \* the token peek() shows, Unseen before it is asked for
  stack,      \* the activations, innermost last
  outcome     \* "parsing", "parsed", or the exception that left the parser

vars == <<input, tokens, ahead, stack, outcome>>

Unseen == "unseen"

----------------------------------------------------------------------------
(* ast/src/operator.cpp: operators by the token that writes them.            *)

AnyLevel == 2147483647      \* std::numeric_limits<int>::max()

PostfixOperators == {"(", "[", "^"}
PrefixOperators == {"&", "&mut", "^", "^mut", "+", "-"}
BinaryOperators == {"*", "/", "%", "+", "-", "<", "<=", ">", ">=", "==", "!=", "="}

PostfixLevel == 0
PrefixLevel == 1
BinaryLevel(op) == CASE op \in {"*", "/", "%"} -> 2
                     [] op \in {"+", "-"} -> 3
                     [] op \in {"<", "<=", ">", ">="} -> 4
                     [] op \in {"==", "!="} -> 5
                     [] op = "=" -> 6

RightLevel_OneForAll(op) == BinaryLevel(op)          \* mutant: every level is right-associative

(* The level of the right operand: one below the operator's unless the level *)
(* is right-associative.                                                     *)
RightLevel(op) == IF BinaryLevel(op) = 6 THEN BinaryLevel(op) ELSE BinaryLevel(op) - 1

----------------------------------------------------------------------------
(* Steps.  Expect: member = expect(token).  Accept: the same if the token is *)
(* next, else nothing.  Parse: a call.  Decide: look at the next token.      *)

Expect(token, member) == [do |-> "expect", token |-> token, member |-> member]
Accept(token, member) == [do |-> "accept", token |-> token, member |-> member]
Operand(level, member) == [do |-> "parse", what |-> "expression", level |-> level, member |-> member]
Parse(what, member) == [do |-> "parse", what |-> what, level |-> AnyLevel, member |-> member]
Decide(what) == [do |-> "decide", what |-> what]

(* The functions: the node each begins with, and what it does.               *)

Unit == [node |-> [kind |-> "unit", statements |-> << >>], todo |-> <<Decide("unit")>>]
Statement == [node |-> [kind |-> "none"], todo |-> <<Decide("statement")>>]
LetStatement ==
  [node |-> [kind |-> "let"],
   todo |-> <<Expect("kw_let", "kw_let"), Accept("kw_mut", "kw_mut"), Expect("identifier", "name"),
              Expect("=", "eq"), Parse("expression", "initializer"), Expect(";", "semicolon")>>]
ReturnStatement ==
  [node |-> [kind |-> "return"],
   todo |-> <<Expect("kw_return", "kw_return"), Parse("expression", "value"),
              Expect(";", "semicolon")>>]
WhileStatement ==
  [node |-> [kind |-> "while"],
   todo |-> <<Expect("kw_while", "kw_while"), Parse("expression", "condition"),
              Parse("block", "body")>>]
ExpressionStatement ==
  [node |-> [kind |-> "expression_statement"],
   todo |-> <<Parse("expression", "expression"), Expect(";", "semicolon")>>]

Expression == [node |-> [kind |-> "none"], todo |-> <<Decide("operand"), Decide("infix")>>]
PrimaryExpression == [node |-> [kind |-> "none"], todo |-> <<Decide("primary")>>]
ParenExpression ==
  [node |-> [kind |-> "paren"],
   todo |-> <<Expect("(", "lparen"), Parse("expression", "inner"), Expect(")", "rparen")>>]
BlockExpression ==
  [node |-> [kind |-> "block", statements |-> << >>],
   todo |-> <<Expect("{", "lbrace"), Decide("item")>>]
IfExpression ==
  [node |-> [kind |-> "if", elses |-> << >>],
   todo |-> <<Expect("kw_if", "kw_if"), Parse("expression", "condition"),
              Parse("block", "then_block"), Decide("else")>>]
ElsePart ==
  [node |-> [kind |-> "else"], todo |-> <<Expect("kw_else", "kw_else"), Decide("else_if")>>]
FnExpression ==
  [node |-> [kind |-> "fn", parameters |-> << >>, parameter_commas |-> << >>],
   todo |-> <<Expect("kw_fn", "kw_fn"), Accept("identifier", "name"), Expect("(", "lparen"),
              Decide("parameter"), Expect(")", "rparen"), Parse("return_type", "return_type"),
              Expect("=>", "arrow"), Parse("expression", "body")>>]
Parameter ==
  [node |-> [kind |-> "parameter"],
   todo |-> <<Accept("kw_mut", "kw_mut"), Expect("identifier", "name"), Expect(":", "colon"),
              Parse("expression", "type")>>]
ReturnTypeSpecifier ==
  [node |-> [kind |-> "return_type"], todo |-> <<Expect(":", "colon"), Parse("expression", "type")>>]

Functions == [statement |-> Statement, expression |-> Expression, primary |-> PrimaryExpression,
              let |-> LetStatement, return |-> ReturnStatement, while |-> WhileStatement,
              block |-> BlockExpression, else |-> ElsePart, parameter |-> Parameter,
              return_type |-> ReturnTypeSpecifier]

Activation(function, level) == [node |-> function.node, todo |-> function.todo, level |-> level]

Init ==
  /\ input \in Inputs
  /\ tokens = << >> /\ ahead = Unseen
  /\ stack = <<Activation(Unit, AnyLevel)>>
  /\ outcome = "parsing"

----------------------------------------------------------------------------
(* The machinery of an activation.                                           *)

Top == stack[Len(stack)]
Step == Head(Top.todo)
Running == outcome = "parsing" /\ Top.todo # << >>
At(what) == Running /\ Step = Decide(what) /\ ahead # Unseen

(* The lexeme about to be read, as a leaf of the tree. *)
Lexeme == [kind |-> "lexeme", token |-> ahead, at |-> Len(tokens) + 1]

Lists == {"statements", "arguments", "argument_commas", "parameters", "parameter_commas", "elses"}

(* A member is set; a vector is added to; "whole" is the node itself. *)
Put(node, member, value) ==
  CASE member = "whole" -> value
    [] member \in Lists -> [node EXCEPT ![member] = Append(@, value)]
    [] OTHER -> [m \in DOMAIN node \cup {member} |-> IF m = member THEN value ELSE node[m]]

Peeking == UNCHANGED <<tokens, ahead>>
Reading == tokens' = Append(tokens, ahead) /\ ahead' = Unseen

(* The activation goes on with this node and these steps. *)
Continue(node, todo) ==
  /\ stack' = [stack EXCEPT ![Len(stack)].node = node, ![Len(stack)].todo = todo]
  /\ UNCHANGED <<input, outcome>>

(* The decision taken adds these steps before the others. *)
Do(node, steps) == Continue(node, steps \o Tail(Top.todo))
Go(steps) == Peeking /\ Do(Top.node, steps)
Become(function) == Peeking /\ Do(function.node, function.todo)

Throw(exception) == outcome' = exception /\ UNCHANGED <<input, stack>>

(* _reader->peek(): the next token, or the lexer's exception. *)
Peeks ==
  /\ Running /\ Step.do # "parse" /\ ahead = Unseen
  /\ \/ /\ ahead' \in IF Len(tokens) < Len(input.start) THEN {input.start[Len(tokens) + 1]}
                       ELSE IF Len(tokens) = input.length THEN {"eof"}
                       ELSE input.tokens \cup {"eof"}
        /\ UNCHANGED <<input, tokens, stack, outcome>>
     \/ UNCHANGED <<tokens, ahead>> /\ Throw("lex_error")

Expects ==
  /\ Running /\ Step.do = "expect" /\ ahead # Unseen
  /\ Reading
  /\ IF ahead = Step.token
     THEN Do(Put(Top.node, Step.member, Lexeme), << >>)
     ELSE Throw("unexpected_token")

Accepts ==
  /\ Running /\ Step.do = "accept" /\ ahead # Unseen
  /\ IF ahead = Step.token
     THEN Reading /\ Do(Put(Top.node, Step.member, Lexeme), << >>)
     ELSE Go(<< >>)

Calls_AtAnyLevel ==      \* mutant: parse_expression() where parse_expression(level) is meant
  /\ Running /\ Step.do = "parse"
  /\ stack' = Append(stack, Activation(Functions[Step.what], AnyLevel))
  /\ UNCHANGED <<input, tokens, ahead, outcome>>

Calls ==
  /\ Running /\ Step.do = "parse"
  /\ stack' = Append(stack, Activation(Functions[Step.what], Step.level))
  /\ UNCHANGED <<input, tokens, ahead, outcome>>

(* The callee's node goes where the caller wants it. *)
Returns ==
  /\ outcome = "parsing" /\ Top.todo = << >>
  /\ LET n == Len(stack) - 1
         step == Head(stack[n].todo)
     IN  stack' = [Front(stack) EXCEPT ![n].node = Put(@, step.member, Top.node), ![n].todo = Tail(@)]
  /\ UNCHANGED <<input, tokens, ahead, outcome>>

----------------------------------------------------------------------------
(* Statements and blocks.                                                    *)

EndOfUnit ==
  /\ At("unit") /\ ahead = "eof"
  /\ outcome' = "parsed"
  /\ UNCHANGED <<input, tokens, ahead, stack>>

NextStatement ==
  /\ At("unit") /\ ahead # "eof"
  /\ Go(<<Parse("statement", "statements"), Decide("unit")>>)

StatementKeywords == {"kw_let", "kw_return", "kw_while"}
KeywordStatement == CASE ahead = "kw_let" -> "let"
                      [] ahead = "kw_return" -> "return"
                      [] ahead = "kw_while" -> "while"

ChooseStatement ==
  /\ At("statement")
  /\ Become(IF ahead \in StatementKeywords THEN Functions[KeywordStatement]
                                           ELSE ExpressionStatement)

BlockStatement ==
  /\ At("item") /\ ahead \in StatementKeywords
  /\ Go(<<Parse(KeywordStatement, "statements"), Decide("item")>>)

BlockExpressionItem_NotAtEof ==      \* mutant: the loop skips, without reading, what begins no item
  /\ At("item") /\ ahead \notin StatementKeywords \cup {"}"}
  /\ IF ahead = "eof" THEN UNCHANGED vars ELSE Go(<<Parse("expression", "tail"), Decide("tail")>>)

BlockExpressionItem ==
  /\ At("item") /\ ahead \notin StatementKeywords \cup {"}"}
  /\ Go(<<Parse("expression", "tail"), Decide("tail")>>)

EndOfBlock ==
  /\ At("item") /\ ahead = "}"
  /\ Go(<<Expect("}", "rbrace")>>)

(* The expression was a statement after all. *)
WithoutTail(node) == [m \in DOMAIN node \ {"tail"} |-> node[m]]

BlockSemicolon_KeepsTail ==      \* mutant: the expression is copied, not moved
  /\ At("tail") /\ ahead = ";"
  /\ Reading
  /\ Do(Put(Top.node, "statements",
            [kind |-> "expression_statement", expression |-> Top.node.tail, semicolon |-> Lexeme]),
        <<Decide("item")>>)

BlockSemicolon ==
  /\ At("tail") /\ ahead = ";"
  /\ Reading
  /\ Do(Put(WithoutTail(Top.node), "statements",
            [kind |-> "expression_statement", expression |-> Top.node.tail, semicolon |-> Lexeme]),
        <<Decide("item")>>)

BlockTail ==
  /\ At("tail") /\ ahead # ";"
  /\ Go(<<Expect("}", "rbrace")>>)

----------------------------------------------------------------------------
(* parse_expression(current_precedence): an operand, then the binary         *)
(* operators that bind tightly enough.                                       *)

IsPrefixOperator == ahead \in PrefixOperators /\ PrefixLevel <= Top.level
IsPrefixBracket == ahead = "[" /\ 1 <= Top.level

PrefixOperator ==
  /\ At("operand") /\ IsPrefixOperator
  /\ Reading
  /\ Do([kind |-> "prefix", op |-> Lexeme], <<Operand(PrefixLevel, "operand")>>)

PrefixBracket ==
  /\ At("operand") /\ ~IsPrefixOperator /\ IsPrefixBracket
  /\ Peeking
  /\ Do([kind |-> "prefix_bracket"],
        <<Expect("[", "lbracket"), Decide("size"), Expect("]", "rbracket"), Operand(1, "operand")>>)

Size ==
  /\ At("size")
  /\ Go(IF ahead = "]" THEN << >> ELSE <<Parse("expression", "size")>>)

PrimaryOperand ==
  /\ At("operand") /\ ~IsPrefixOperator /\ ~IsPrefixBracket
  /\ Go(<<Parse("primary", "whole"), Decide("postfix")>>)

IsPostfixOperator == ahead \in PostfixOperators /\ PostfixLevel <= Top.level

Call ==
  /\ At("postfix") /\ IsPostfixOperator /\ ahead = "("
  /\ Peeking
  /\ Do([kind |-> "call", callee |-> Top.node, arguments |-> << >>, argument_commas |-> << >>],
        <<Expect("(", "lparen"), Decide("argument"), Expect(")", "rparen"), Decide("postfix")>>)

Index ==
  /\ At("postfix") /\ IsPostfixOperator /\ ahead = "["
  /\ Peeking
  /\ Do([kind |-> "index", operand |-> Top.node],
        <<Expect("[", "lbracket"), Parse("expression", "index"), Expect("]", "rbracket"),
          Decide("postfix")>>)

Dereference ==
  /\ At("postfix") /\ IsPostfixOperator /\ ahead = "^"
  /\ Reading
  /\ Do([kind |-> "postfix", operand |-> Top.node, op |-> Lexeme], <<Decide("postfix")>>)

EndOfPostfix ==
  /\ At("postfix") /\ ~IsPostfixOperator
  /\ Go(<< >>)

IsInfixOperator == ahead \in BinaryOperators /\ BinaryLevel(ahead) <= Top.level

Infix ==
  /\ At("infix") /\ IsInfixOperator
  /\ Reading
  /\ Do([kind |-> "binary", left |-> Top.node, op |-> Lexeme],
        <<Operand(RightLevel(ahead), "right"), Decide("infix")>>)

EndOfInfix ==
  /\ At("infix") /\ ~IsInfixOperator
  /\ Go(<< >>)

(* A list in parentheses: an item unless it closes here, and another after a *)
(* comma.                                                                    *)
NextOf(item, list) ==
  /\ At(item)
  /\ Go(IF ahead = ")" THEN << >> ELSE <<Parse(list[1], list[2]), Decide(list[3])>>)
CommaOf(comma, member, item) ==
  /\ At(comma)
  /\ IF ahead = "," THEN Reading /\ Do(Put(Top.node, member, Lexeme), <<Decide(item)>>)
                    ELSE Go(<< >>)

NextArgument == NextOf("argument", <<"expression", "arguments", "argument_comma">>)
ArgumentComma == CommaOf("argument_comma", "argument_commas", "argument")
NextParameter == NextOf("parameter", <<"parameter", "parameters", "parameter_comma">>)
ParameterComma == CommaOf("parameter_comma", "parameter_commas", "parameter")

----------------------------------------------------------------------------
(* parse_primary_expression().                                               *)

Atoms == {"int_literal", "float_literal", "identifier", "kw_recurse"}

Atom ==
  /\ At("primary") /\ ahead \in Atoms
  /\ Reading
  /\ Do([kind |-> "atom", lexeme |-> Lexeme], << >>)

Composite ==
  /\ At("primary") /\ ahead \in {"kw_if", "{", "(", "kw_fn"}
  /\ Become(CASE ahead = "kw_if" -> IfExpression [] ahead = "{" -> BlockExpression
              [] ahead = "(" -> ParenExpression [] ahead = "kw_fn" -> FnExpression)

NotAnExpression ==
  /\ At("primary") /\ ahead \notin Atoms \cup {"kw_if", "{", "(", "kw_fn"}
  /\ Peeking
  /\ Throw("unexpected_token")

(* `else if` parts until there is no else, or one without if. *)
NextElse_AfterElse ==      \* mutant: the loop goes on after an else without if
  /\ At("else")
  /\ Go(IF ahead = "kw_else" THEN <<Parse("else", "elses"), Decide("else")>> ELSE << >>)

NextElse ==
  /\ At("else")
  /\ Go(IF ahead = "kw_else" /\ \A i \in DOMAIN Top.node.elses : "kw_if" \in DOMAIN Top.node.elses[i]
        THEN <<Parse("else", "elses"), Decide("else")>> ELSE << >>)

ElseIf ==
  /\ At("else_if")
  /\ Go(IF ahead = "kw_if"
        THEN <<Expect("kw_if", "kw_if"), Parse("expression", "condition"), Parse("block", "body")>>
        ELSE <<Parse("block", "body")>>)

----------------------------------------------------------------------------
Done == outcome # "parsing" /\ UNCHANGED vars      \* the parser is used once

Next ==
  \/ Peeks \/ Expects \/ Accepts \/ Calls \/ Returns \/ Done
  \/ EndOfUnit \/ NextStatement \/ ChooseStatement
  \/ BlockStatement \/ BlockExpressionItem \/ EndOfBlock \/ BlockSemicolon \/ BlockTail
  \/ PrefixOperator \/ PrefixBracket \/ Size \/ PrimaryOperand
  \/ Call \/ Index \/ Dereference \/ EndOfPostfix \/ Infix \/ EndOfInfix
  \/ NextArgument \/ ArgumentComma \/ NextParameter \/ ParameterComma
  \/ Atom \/ Composite \/ NotAnExpression \/ NextElse \/ ElseIf

(* Parsing is one call on one thread, and every call of the reader returns or *)
(* throws (Lexer, EveryLexEnds): nothing can hold it up.                      *)
Spec == Init /\ [][Next]_vars /\ WF_vars(Next)
============================================================================
