------------------------------- MODULE Trees -------------------------------
(* The syntax trees that the parser builds: their members in the order they   *)
(* are written (ast/include/ast/ast.h), the precedence table of               *)
(* docs/wiki/language.md as a condition on them, and the spans of their nodes *)
(* (ast/src/source_span.cpp).                                                 *)
EXTENDS Parser

----------------------------------------------------------------------------
(* Trees: the members of a node in the order they are written.               *)

Written ==
  [let |-> <<"kw_let", "kw_mut", "name", "eq", "initializer", "semicolon">>,
   return |-> <<"kw_return", "value", "semicolon">>,
   while |-> <<"kw_while", "condition", "body">>,
   expression_statement |-> <<"expression", "semicolon">>,
   atom |-> <<"lexeme">>,
   paren |-> <<"lparen", "inner", "rparen">>,
   block |-> <<"lbrace", "statements", "tail", "rbrace">>,
   if |-> <<"kw_if", "condition", "then_block", "elses">>,
   else |-> <<"kw_else", "kw_if", "condition", "body">>,
   fn |-> <<"kw_fn", "name", "lparen", "parameters", "rparen", "return_type", "arrow", "body">>,
   parameter |-> <<"kw_mut", "name", "colon", "type">>,
   return_type |-> <<"colon", "type">>,
   prefix |-> <<"op", "operand">>,
   prefix_bracket |-> <<"lbracket", "size", "rbracket", "operand">>,
   call |-> <<"callee", "lparen", "arguments", "rparen">>,
   index |-> <<"operand", "lbracket", "index", "rbracket">>,
   postfix |-> <<"operand", "op">>,
   binary |-> <<"left", "op", "right">>,
   unit |-> <<"statements">>,
   none |-> << >>]

Alternating(items, commas) ==
  [n \in 1..(Len(items) + Len(commas)) |-> IF n % 2 = 1 THEN items[(n + 1) \div 2]
                                                       ELSE commas[n \div 2]]

Member(node, m) ==
  IF m \notin DOMAIN node THEN << >>
  ELSE CASE m = "arguments" -> Alternating(node.arguments, node.argument_commas)
         [] m = "parameters" -> Alternating(node.parameters, node.parameter_commas)
         [] m \in Lists \ {"arguments", "parameters"} -> node[m]
         [] m \notin Lists -> <<node[m]>>

Members(node) ==
  FlattenSeq([i \in DOMAIN Written[node.kind] |-> Member(node, Written[node.kind][i])])

(* Trees with every inner node replaced by its members, as often as is asked; *)
(* a tree is at most as deep as it has lexemes, and one deeper while it is    *)
(* being built, so that this many times leaves nothing but lexemes.           *)
Opened(tree) == IF tree.kind = "lexeme" THEN <<tree>> ELSE Members(tree)
Expanded(trees) == FlattenSeq([n \in DOMAIN trees |-> Opened(trees[n])])
Levels(trees) == LET level[d \in Nat] == IF d = 0 THEN trees ELSE Expanded(level[d - 1]) IN level
Deepest == Len(tokens) + 1

(* The lexemes of trees, from left to right; all the nodes of a tree. *)
Yield(trees) == Levels(trees)[Deepest]
NodesOf(tree) == UNION {Range(Levels(<<tree>>)[d]) : d \in 0..Deepest}

(* Everything parsed so far: the activations' nodes, outermost first. *)
Built == [n \in DOMAIN stack |-> stack[n].node]
Translation == stack[1].node      \* the Translation_unit

----------------------------------------------------------------------------
(* source_span.cpp: a span is the hull of those of a first and a last part.   *)

IfEnd_ThenBlock(node) == node.then_block.rbrace      \* mutant: the else parts are forgotten
IfEnd(node) == IF node.elses # << >> THEN Last(node.elses).body.rbrace ELSE node.then_block.rbrace

Hull(node) ==
  CASE node.kind = "lexeme" -> <<node, node>>
    [] node.kind = "atom" -> <<node.lexeme, node.lexeme>>
    [] node.kind = "fn" -> <<node.kw_fn, node.body>>
    [] node.kind = "paren" -> <<node.lparen, node.rparen>>
    [] node.kind = "prefix" -> <<node.op, node.operand>>
    [] node.kind = "postfix" -> <<node.operand, node.op>>
    [] node.kind = "binary" -> <<node.left, node.right>>
    [] node.kind = "call" -> <<node.callee, node.rparen>>
    [] node.kind = "index" -> <<node.operand, node.rbracket>>
    [] node.kind = "prefix_bracket" -> <<node.lbracket, node.operand>>
    [] node.kind = "block" -> <<node.lbrace, node.rbrace>>
    [] node.kind = "if" -> <<node.kw_if, IfEnd(node)>>
    [] node.kind = "let" -> <<node.kw_let, node.semicolon>>
    [] node.kind = "while" -> <<node.kw_while, node.body.rbrace>>
    [] node.kind = "return" -> <<node.kw_return, node.semicolon>>
    [] node.kind = "expression_statement" -> <<node.expression, node.semicolon>>

(* From a node to the lexeme at one side of its span. *)
Edge(node, side) == LET part[d \in Nat] == IF d = 0 THEN node ELSE Hull(part[d - 1])[side] IN part
SpanOf(node) == <<Edge(node, 1)[Deepest].at, Edge(node, 2)[Deepest].at>>

----------------------------------------------------------------------------
(* The precedence table.  A row is how tightly the outermost operator of a   *)
(* tree binds; a function's body takes everything that follows it, so that   *)
(* nothing may be applied to a tree that ends in one.                        *)

Rows == <<{"*", "/", "%"}, {"+", "-"}, {"<", "<=", ">", ">="}, {"==", "!="}, {"="}>>
RowOf(op) == 1 + (CHOOSE r \in DOMAIN Rows : op.token \in Rows[r])

Row(tree) == CASE tree.kind \in {"prefix", "prefix_bracket"} -> 1
               [] tree.kind = "binary" -> RowOf(tree.op)
               [] OTHER -> 0

EndsInFunction(tree) == \E d \in 0..Deepest : Last(Levels(<<tree>>)[d]).kind = "fn"

Closed(tree, row) == Row(tree) <= row /\ ~EndsInFunction(tree)

BindsByTheTable(tree) ==
  CASE tree.kind = "binary" /\ RowOf(tree.op) < 6 ->       \* left-associative
         Closed(tree.left, RowOf(tree.op)) /\ Row(tree.right) < RowOf(tree.op)
    [] tree.kind = "binary" /\ RowOf(tree.op) = 6 ->       \* right-associative
         Closed(tree.left, 5)
    [] tree.kind \in {"prefix", "prefix_bracket"} -> Row(tree.operand) <= 1
    [] tree.kind = "call" -> Closed(tree.callee, 0)
    [] tree.kind \in {"index", "postfix"} -> Closed(tree.operand, 0)
    [] OTHER -> TRUE

----------------------------------------------------------------------------
(* The properties.                                                           *)

(* The nodes each function may return, by the statement and expression nodes  *)
(* of ast.h.  Three functions look at a token before they have a node.        *)
PrimaryKinds == {"atom", "paren", "block", "if", "fn"}
ExpressionKinds ==
  PrimaryKinds \cup {"prefix", "prefix_bracket", "call", "index", "postfix", "binary"}
StatementKinds == {"let", "return", "while", "expression_statement"}
KindsOf ==
  [statement |-> StatementKinds, expression |-> ExpressionKinds, primary |-> PrimaryKinds,
   let |-> {"let"}, return |-> {"return"}, while |-> {"while"}, block |-> {"block"},
   else |-> {"else"}, parameter |-> {"parameter"}, return_type |-> {"return_type"},
   unit |-> {"unit"}]
Builds(what, kind) ==
  kind \in KindsOf[what] \/ (kind = "none" /\ what \in {"statement", "expression", "primary"})

(* Every activation but the innermost waits in a call; the one above it is    *)
(* at the precedence the call passed and, whatever it has become by the       *)
(* tokens it saw, builds a node that the function called may return.  The     *)
(* unit is outermost.                                                         *)
TypeOK ==
  /\ input \in Inputs
  /\ tokens \in Seq(input.tokens \cup Range(input.start) \cup {"eof"})
  /\ ahead \in input.tokens \cup Range(input.start) \cup {"eof", Unseen}
  /\ outcome \in {"parsing", "parsed", "unexpected_token", "lex_error"}
  /\ stack # << >> /\ Translation.kind = "unit"
  /\ \A n \in DOMAIN stack :
       /\ stack[n].node.kind \in DOMAIN Written
       /\ stack[n].level \in 0..AnyLevel
       /\ n < Len(stack) => LET call == Head(stack[n].todo)
                           IN  /\ call.do = "parse" /\ call.level = stack[n + 1].level
                               /\ Builds(call.what, stack[n + 1].node.kind)

(* "AST nodes must preserve all lexemes" (docs/wiki/parsing.md): what the    *)
(* activations have built, outermost first, is every lexeme read, once and   *)
(* in order - however expressions were rewrapped by the operators after      *)
(* them, and a block's expression turned into a statement.                   *)
EveryLexemeOnce ==
  outcome \in {"parsing", "parsed"} =>
    Yield(Built) = [n \in 1..Len(tokens) |-> [kind |-> "lexeme", token |-> tokens[n], at |-> n]]

(* Every finished statement is the tree that the precedence table, the       *)
(* associativities and the reach of a function's body prescribe for its      *)
(* lexemes: with EveryLexemeOnce, the only such tree.                        *)
PrecedenceHolds ==
  At("unit") => \A tree \in NodesOf(Translation) : BindsByTheTable(tree)

(* "from the first character of its leftmost token to the last character of  *)
(* its rightmost token" (ast/include/ast/source_span.h), for every node.     *)
Spanned == {n \in NodesOf(Translation) :
              n.kind \notin {"unit", "else", "parameter", "return_type"}}
SpansAreTheText ==
  At("unit") => \A node \in Spanned : LET lexemes == Yield(<<node>>)
                                      IN  SpanOf(node) = <<Head(lexemes).at, Last(lexemes).at>>

============================================================================
