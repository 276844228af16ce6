------------------------------ MODULE Grammar ------------------------------
(* What the parser accepts: the language, as the set of its sentences.       *)
EXTENDS Trees

----------------------------------------------------------------------------
(* The language, as a grammar: the right-hand sides of every symbol.         *)

Expressions ==
  {<<a>> : a \in Atoms}
  \cup {<<op, "expression">> : op \in PrefixOperators}
  \cup {<<"expression", op, "expression">> : op \in UNION Range(Rows)}
  \cup {<<"[", "]", "expression">>, <<"[", "expression", "]", "expression">>,
        <<"expression", "^">>, <<"expression", "(", "arguments", ")">>,
        <<"expression", "[", "expression", "]">>, <<"(", "expression", ")">>, <<"block">>,
        <<"kw_if", "expression", "block", "elses">>,
        <<"kw_fn", "name", "(", "parameters", ")", ":", "expression", "=>", "expression">>}

Productions ==
  [name |-> {<< >>, <<"identifier">>},
   mut |-> {<< >>, <<"kw_mut">>},
   elses |-> {<< >>, <<"kw_else", "block">>,
              <<"kw_else", "kw_if", "expression", "block", "elses">>},
   block |-> {<<"{", "statements", "}">>, <<"{", "statements", "expression", "}">>},
   expression |-> Expressions,
   arguments |-> {<< >>, <<"expression">>, <<"expression", ",", "arguments">>},
   parameter |-> {<<"mut", "identifier", ":", "expression">>},
   parameters |-> {<< >>, <<"parameter">>, <<"parameter", ",", "parameters">>},
   statement |-> {<<"kw_let", "mut", "identifier", "=", "expression", ";">>,
                  <<"kw_return", "expression", ";">>, <<"kw_while", "expression", "block">>,
                  <<"expression", ";">>},
   statements |-> {<< >>, <<"statement", "statements">>}]

(* Symbols in an order in which a symbol's phrases of some length need only  *)
(* shorter ones and those of the symbols before it.                          *)
Order == <<"name", "mut", "elses", "block", "expression", "arguments", "parameter", "parameters",
           "statement", "statements">>

(* The strings of length n that the symbols of a right-hand side stand for,  *)
(* by a table of the phrases known: table[symbol][length].                   *)
RECURSIVE Strings(_, _, _)
Strings(table, symbols, n) ==
  IF symbols = << >> THEN IF n = 0 THEN {<< >>} ELSE {}
  ELSE UNION {{s \o t : s \in table[Head(symbols)][k], t \in Strings(table, Tail(symbols), n - k)} :
              k \in {i \in 0..n : table[Head(symbols)][i] # {}}}

(* The sentences over an alphabet up to a length. *)
Sentences(alphabet, length) ==
  LET terminals == UNION {UNION {Range(rhs) : rhs \in Productions[A]} : A \in Range(Order)}
                   \ Range(Order)
      Start == [A \in terminals \cup Range(Order) |->
                  [n \in 0..length |-> IF n = 1 /\ A \in alphabet THEN {<<A>>} ELSE {}]]
      AddSymbol(table, A, n) ==
        [table EXCEPT ![A][n] = UNION {Strings(table, rhs, n) : rhs \in Productions[A]}]
      (* The set has TLC evaluate the table of the shorter phrases first. *)
      AddLength(table, n) == CHOOSE longer \in {FoldLeft(LAMBDA u, A : AddSymbol(u, A, n), t, Order) :
                                                 t \in {table}} : TRUE
  IN  UNION Range(FoldLeft(AddLength, Start, [n \in 1..(length + 1) |-> n - 1]).statements)

Language == [i \in Inputs |-> Sentences(i.tokens \cup Range(i.start), i.length)]
Beginnings == [i \in Inputs |-> {SubSeq(s, 1, Min({n, Len(s)})) : s \in Language[i], n \in 0..i.length}]

----------------------------------------------------------------------------
(* The properties.                                                           *)

(* A text is accepted just when it is a sentence of the grammar, and an      *)
(* unexpected token is reported at the first lexeme that no sentence has     *)
(* after those before it: the precedences decide the tree, never whether     *)
(* there is one.                                                             *)
Offered == IF ahead = Unseen THEN tokens ELSE Append(tokens, ahead)
AcceptsTheLanguage ==
  /\ outcome = "parsed" => tokens \in Language[input]
  /\ outcome = "unexpected_token" =>
       IF Last(Offered) = "eof" THEN Front(Offered) \notin Language[input]
                                ELSE Offered \notin Beginnings[input]

(* Every parse ends, with a unit or an exception, whatever is read.          *)
EveryParseEnds == <>(outcome # "parsing")
============================================================================
