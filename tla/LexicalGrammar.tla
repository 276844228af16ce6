-------------------------- MODULE LexicalGrammar --------------------------
(* What the lexer is to do, said without its states: the characters of a     *)
(* text are what its bytes encode, a lexeme is the longest piece of text     *)
(* that can still become one, and it is where its characters are.            *)
EXTENDS Lexer

(* The characters of the text from byte `at` + 1 on.  How much ill-formed    *)
(* text an error consumes is left to the decoder: the interface does not say. *)
RECURSIVE CharactersFrom(_, _)
CharactersFrom(bytes, at) ==
  IF at = Len(bytes) THEN << >>
  ELSE LET ahead == SubSeq(bytes, at + 1, IF at + 4 < Len(bytes) THEN at + 4 ELSE Len(bytes))
           length == WellFormed(ahead)
       IN  IF length = 0
           THEN <<"malformed">> \o CharactersFrom(bytes, Decode(bytes, at).at)
           ELSE <<Symbol(Payload(SubSeq(ahead, 1, length)))>>
                  \o CharactersFrom(bytes, at + length)

(* Where the i-th character is.  Ill-formed text has no place. *)
PlaceOf(symbols, i) ==
  LET breaks == {j \in 1..i - 1 : symbols[j] = "\n"}
      before == {j \in 1..i - 1 : /\ \A b \in breaks : j > b
                                  /\ symbols[j] # "malformed"}
  IN  [line |-> Cardinality(breaks) + 1, column |-> Cardinality(before) + 1]

Placing(symbols) ==
  [i \in 1..Len(symbols) |-> [symbol |-> symbols[i], place |-> PlaceOf(symbols, i)]]

----------------------------------------------------------------------------
(* Pieces of text (sequences of symbols) that are lexemes, or begin one.     *)

All(piece, set) == \A i \in DOMAIN piece : piece[i] \in set

IsWord(piece) == piece # << >> /\ piece[1] \notin Digit /\ All(piece, InWord)

IsNumber(piece) ==
  \E k \in 1..Len(piece) :
    LET rest == SubSeq(piece, k + 1, Len(piece))
    IN  /\ All(SubSeq(piece, 1, k), Digit)
        /\ \/ rest \in {<< >>, <<"f">>, <<"d">>}
           \/ rest[1] = "i" /\ All(Tail(rest), Digit)
           \/ rest[1] = "." /\ \/ All(Tail(rest), Digit)
                               \/ /\ Last(rest) \in {"f", "d"}
                                  /\ All(Tail(Front(rest)), Digit)

Punctuators ==
  {<<c>> : c \in {"+", "-", "*", "/", "%", "=", "<", ">", "{", "[", "(", "}", "]", ")",
                  ":", ",", ";"}}
  \cup {<<"-", ">">>, <<"=", ">">>, <<"=", "=">>, <<"!", "=">>, <<"<", "=">>, <<">", "=">>}

Begins(piece) == IsWord(piece) \/ IsNumber(piece) \/ piece \in Punctuators \cup {<<"!">>}
IsComplete(piece) ==
  /\ piece # <<"!">>
  /\ IsNumber(piece) => Last(piece) # "i"

EverySymbol == InWord \cup {".", "=", ">"}
Extensible(piece) == \E c \in EverySymbol : Begins(Append(piece, c))

Spelled(piece) == FoldLeft(LAMBDA spelling, c : spelling \o c, "", piece)

ReservedWords == {"else", "fn", "if", "let", "mut", "recurse", "return", "while"}

KindOf(piece) ==
  CASE IsWord(piece) -> IF Spelled(piece) \in ReservedWords THEN "kw_" \o Spelled(piece)
                        ELSE "identifier"
    [] IsNumber(piece) -> IF \E i \in DOMAIN piece : piece[i] \in {".", "f", "d"}
                          THEN "float_literal" ELSE "int_literal"
    [] OTHER -> Spelled(piece)

----------------------------------------------------------------------------
(* The lexemes and errors of a text: what one call of lex() after another    *)
(* is to give.  `s` is what is left of it, `last` the place of its end.      *)

Pieces(s, n) == [i \in 1..n |-> s[i].symbol]
Rest(s, n) == SubSeq(s, n + 1, Len(s))
LexemeOf(s, n) ==
  Lexeme(KindOf(Pieces(s, n)), Spelled(Pieces(s, n)), s[1].place, s[n].place)

Longest(s) ==
  LET lengths == {n \in 1..Len(s) : Begins(Pieces(s, n))}
  IN  IF lengths = {} THEN 0 ELSE CHOOSE n \in lengths : \A m \in lengths : m <= n

MalformedWithin(s, from, to) ==
  {i \in from..(IF to < Len(s) THEN to ELSE Len(s)) : s[i].symbol = "malformed"}

TakesMut(s) ==
  /\ Len(s) >= 4 /\ Pieces(Tail(s), 3) = <<"m", "u", "t">>
  /\ Len(s) >= 5 => s[5].symbol \notin InWord

RECURSIVE Lexemes(_, _)
Lexemes(s, last) ==
  IF s = << >> THEN <<Lexeme("eof", "", last, last)>>
  ELSE IF s[1].symbol \in Blank \cup {"\n"} THEN Lexemes(Tail(s), last)
  ELSE IF s[1].symbol = "malformed"
       THEN <<Failure("decode_error", Nowhere)>> \o Lexemes(Tail(s), last)
  ELSE IF s[1].symbol \in {"&", "^"}
       THEN LET bad == MalformedWithin(s, 2, 5)
                n == IF TakesMut(s) THEN 4 ELSE 1
            IN  IF bad # {}
                THEN <<Failure("decode_error", Nowhere)>>
                       \o Lexemes(Tail(RemoveAt(s, CHOOSE i \in bad : \A j \in bad : i <= j)), last)
                ELSE <<LexemeOf(s, n)>> \o Lexemes(Rest(s, n), last)
  ELSE LET n == Longest(s)
           piece == Pieces(s, n)
       IN  CASE n = 0 ->
                  <<Failure("lex_error", s[1].place)>> \o Lexemes(Tail(s), last)
             [] n > 0 /\ Extensible(piece) /\ MalformedWithin(s, n + 1, n + 1) # {} ->
                  <<Failure("decode_error", Nowhere)>> \o Lexemes(Rest(s, n + 1), last)
             [] n > 0 /\ (Extensible(piece) => MalformedWithin(s, n + 1, n + 1) = {}) ->
                  <<IF IsComplete(piece) THEN LexemeOf(s, n)
                    ELSE Failure("lex_error", s[1].place)>>
                    \o Lexemes(Rest(s, n), last)

LexemesOf(bytes) ==
  LET symbols == CharactersFrom(bytes, 0)
  IN  Lexemes(Placing(symbols), PlaceOf(symbols, Len(symbols) + 1))

----------------------------------------------------------------------------
(* Correctness.                                                             *)

(* The calls of lex() give the lexemes and errors of the text, each with its *)
(* token, spelling and span, and then `eof` for ever.                        *)
LexemesAreTheText ==
  LET expected == LexemesOf(text)
  IN  \A i \in DOMAIN made :
        made[i] = IF i <= Len(expected) THEN expected[i] ELSE Last(expected)
============================================================================
