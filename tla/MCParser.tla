------------------------------ MODULE MCParser ------------------------------
(* Instances of the parser: short strings of all tokens, and longer ones     *)
(* over the tokens of one construct, that of an `if` or a function already   *)
(* begun.                                                                    *)
EXTENDS Grammar

Texts(beginning, more, bound) == [start |-> beginning, tokens |-> more, length |-> bound]

MCInputs == {
  Texts(<< >>, {"identifier", "-", "*", "=", "^", ";"}, 6),
  Texts(<<"identifier">>, {"identifier", "(", ")", ",", ";"}, 8),
  Texts(<< >>, {"identifier", "[", "]", "+", ";"}, 6),
  Texts(<<"{">>, {"identifier", ";", "}", "{", "kw_return", "kw_let", "=", "kw_while"}, 7),
  Texts(<<"kw_if", "identifier", "{", "}", "kw_else">>,
        {"identifier", "{", "}", "kw_if", "kw_else", ";"}, 13),
  Texts(<<"kw_let">>, {"identifier", "kw_mut", "=", ";", "+", "<", "=="}, 9),
  Texts(<<"kw_fn", "(">>, {"identifier", "kw_mut", ",", ")", ":", "=>", ";"}, 12),
  Texts(<<"kw_fn">>, {"identifier", "(", ")", ":", "=>", "^", ";"}, 10),
  Texts(<<"identifier", "*", "kw_fn", "(", ")", ":">>, {"identifier", "=>", "*", ";"}, 12),
  Texts(<< >>, Atoms \cup PrefixOperators \cup PostfixOperators \cup BinaryOperators
               \cup {")", "]", "{", "}", ":", ",", ";", "=>", "->", "kw_let", "kw_mut",
                     "kw_return", "kw_while", "kw_if", "kw_else", "kw_fn"}, 2)}
=============================================================================
