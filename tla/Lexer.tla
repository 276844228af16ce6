------------------------------- MODULE Lexer -------------------------------
(* Lexeme_stream (src/code/lexing/src/lexeme_stream.cpp) over a              *)
(* Char_input_stream_peeker over Utf8_char_input_stream, and                 *)
(* Lexeme_stream_reader, the parser's lookahead, over it.                    *)
(*                                                                           *)
(* lex() is a loop over a state; here an iteration is an action.  Anything   *)
(* that looks at the text may throw Decode_error there and then.             *)
EXTENDS Integers, Sequences, FiniteSets, SequencesExt, Utf8, Ring

CONSTANTS
  Texts,           \* the texts to lex, as bytes
  MaxLexemes(_),   \* bound on the calls of lex(), by the text
  MaxPeek          \* the furthest the client peeks

ASSUME LexerAssumption ==
  /\ \A t \in Texts : t \in Seq(Byte) /\ MaxLexemes(t) \in Nat
  /\ MaxPeek \in Nat

VARIABLES
  text,                       \* the bytes the input stream gives
  reader,                     \* _reader: bytes decoded so far, and the ring
  location,                   \* _location
  state, token_location,      \* locals of lex(); state "idle" outside
  suffix_digits,
  building, draft, spellings, \* the spelling table: a build, its text, the stored texts
  made,                       \* history: what the calls of lex() gave
  buffer,                     \* _buffer of the Lexeme_stream_reader
  request,                    \* the client's call on it
  taken                       \* history: the lexemes the client has read

characters == <<text, reader>>
lexing == <<location, state, token_location, suffix_digits>>
store == <<building, draft, spellings>>
lookahead == <<buffer, request, taken>>
vars == <<characters, lexing, store, made, lookahead>>

Capacity == 4      \* std::bit_ceil(3 + 1): lex() peeks up to three ahead

Nowhere == [line |-> 0, column |-> 0]      \* token_location until a token begins
NoRequest == [op |-> "none", offset |-> 0]

Init ==
  /\ text \in Texts
  /\ reader = [at |-> 0, ring |-> EmptyRing(Capacity)]
  /\ location = [line |-> 1, column |-> 1]
  /\ token_location = Nowhere
  /\ state = "idle" /\ suffix_digits = 0
  /\ building = FALSE /\ draft = "" /\ spellings = {}
  /\ made = << >>
  /\ buffer = EmptyRing(0)
  /\ request = NoRequest
  /\ taken = << >>

----------------------------------------------------------------------------
(* Symbols: the ASCII characters by name, everything else "other".          *)

LowerCase == << "a", "b", "c", "d", "e", "f", "g", "h", "i", "j", "k", "l", "m",
                "n", "o", "p", "q", "r", "s", "t", "u", "v", "w", "x", "y", "z" >>
UpperCase == << "A", "B", "C", "D", "E", "F", "G", "H", "I", "J", "K", "L", "M",
                "N", "O", "P", "Q", "R", "S", "T", "U", "V", "W", "X", "Y", "Z" >>
Digits == << "0", "1", "2", "3", "4", "5", "6", "7", "8", "9" >>
Marks == [c \in {9, 10, 13, 32, 33} \cup 37..38 \cup 40..47 \cup 58..62 \cup {91, 93, 94, 95, 123, 125} |->
            CASE c = 9 -> "\t" [] c = 10 -> "\n" [] c = 13 -> "\r" [] c = 32 -> " "
              [] c = 33 -> "!" [] c = 37 -> "%" [] c = 38 -> "&"
              [] c \in 40..47 -> << "(", ")", "*", "+", ",", "-", ".", "/" >>[c - 39]
              [] c \in 58..62 -> << ":", ";", "<", "=", ">" >>[c - 57]
              [] c = 91 -> "[" [] c = 93 -> "]" [] c = 94 -> "^" [] c = 95 -> "_"
              [] c = 123 -> "{" [] c = 125 -> "}"]

Symbol(c) ==
  CASE c \in 97..122 -> LowerCase[c - 96]
    [] c \in 65..90 -> UpperCase[c - 64]
    [] c \in 48..57 -> Digits[c - 47]
    [] c \in DOMAIN Marks -> Marks[c]
    [] OTHER -> "other"

Digit == Range(Digits)
Alpha == Range(LowerCase) \cup Range(UpperCase)
Blank == {" ", "\t", "\r"}
InWord == Alpha \cup Digit \cup {"_"}
SingleToken == {"+", "*", "/", "%", "{", "[", "}", "]", "(", ")", ":", ",", ";"}

(* The second characters a two-character token may have, by its first. *)
Seconds(c) == CASE c = "-" -> {">"}
                [] c = "=" -> {"=", ">"}
                [] c \in {"!", "<", ">"} -> {"="}
                [] OTHER -> {}
Reference == {"&", "^"}
Keyword == {"else", "fn", "if", "let", "mut", "recurse", "return", "while"}

----------------------------------------------------------------------------
(* Char_input_stream_peeker.  peek(n) is a loop that decodes characters into *)
(* the ring until it holds n + 1 or the text ends; here Decodes is one turn   *)
(* of it, and the steps of lex() wait until what they peek at is there.      *)

Peeks == IF state = "reference" THEN 3 ELSE 0       \* the furthest the state peeks

AtEnd == Decode(text, reader.at).kind = "end"
Peeked == reader.ring.size > Peeks \/ AtEnd

(* What peek(n) shows then. *)
Ahead(n) == IF n < reader.ring.size THEN Symbol(At(reader.ring, n)) ELSE "end"
Look == Ahead(0)

(* read() after a peek() that showed a character. *)
Read(r) == [r EXCEPT !.ring = Popped(@)]

----------------------------------------------------------------------------
(* The parts of lex().                                                       *)

Right(loc, n) == [loc EXCEPT !.column = @ + n]

Lexeme(token, spelling, start, end) ==
  [outcome |-> "lexeme", token |-> token, spelling |-> spelling, start |-> start, end |-> end]
Failure(kind, at) == [outcome |-> kind, start |-> at]

(* make_lexeme(): the build is finalized; the lexeme ends one column before  *)
(* where the lexer is.                                                       *)
Return(token, spelling, start, there) ==
  /\ state' = "idle"
  /\ location' = there
  /\ building' = FALSE
  /\ draft' = ""
  /\ spellings' = spellings \cup {spelling}
  /\ made' = Append(made, Lexeme(token, spelling, start,
                                 IF token = "eof" THEN start ELSE Right(there, -1)))
  /\ UNCHANGED <<text, token_location, suffix_digits, lookahead>>

Throw_KeepsBuild(kind, start, there) ==      \* mutant: the build is not cancelled
  /\ state' = "idle"
  /\ location' = there
  /\ building' = FALSE
  /\ made' = Append(made, Failure(kind, start))
  /\ UNCHANGED <<text, token_location, suffix_digits, draft, spellings, lookahead>>

(* An exception: the Builder's destructor cancels the build. *)
Throw(kind, start, there) ==
  /\ state' = "idle"
  /\ location' = there
  /\ building' = FALSE
  /\ draft' = ""
  /\ made' = Append(made, Failure(kind, start))
  /\ UNCHANGED <<text, token_location, suffix_digits, spellings, lookahead>>

(* One character goes into the draft, and the loop goes round. *)
Extend(next, start) ==
  /\ draft' = draft \o Look
  /\ reader' = Read(reader)
  /\ location' = Right(location, 1)
  /\ state' = next
  /\ token_location' = start
  /\ suffix_digits' = IF state = "suffix" THEN suffix_digits + 1 ELSE 0
  /\ UNCHANGED <<text, building, spellings, made, lookahead>>

(* lex() is called: the table hands out a Builder. *)
Lex ==
  /\ state = "idle"
  /\ state' = "trivia"
  /\ building' = TRUE
  /\ token_location' = Nowhere
  /\ suffix_digits' = 0
  /\ UNCHANGED <<characters, location, draft, spellings, made>>

In(s) == state = s /\ Peeked      \* in a state, and what it peeks at is there

(* A turn of peek()'s loop: a character into the ring, or Decode_error out   *)
(* of lex(), wherever the lexer is.                                          *)
Decodes ==
  /\ state # "idle"
  /\ ~Peeked
  /\ LET next == Decode(text, reader.at)
     IN  \/ /\ next.kind = "char"
            /\ reader' = [at |-> next.at, ring |-> Placed(reader.ring, next.value)]
            /\ UNCHANGED <<text, lexing, store, made, lookahead>>
         \/ /\ next.kind = "malformed"
            /\ reader' = [reader EXCEPT !.at = next.at]
            /\ Throw("decode_error", Nowhere, location)

----------------------------------------------------------------------------
(* State 0: between tokens, and everything that is not a word or a number.   *)

EndOfText ==
  /\ In("trivia")
  /\ Look = "end"
  /\ UNCHANGED reader
  /\ Return("eof", draft, location, location)

Skip_OnlyPeeks(there) ==      \* mutant: the character is not consumed
  /\ UNCHANGED reader
  /\ location' = there
  /\ UNCHANGED <<text, state, token_location, suffix_digits, store, made, lookahead>>

Skip(there) ==
  /\ reader' = Read(reader)
  /\ location' = there
  /\ UNCHANGED <<text, state, token_location, suffix_digits, store, made, lookahead>>

SkipNewline_FromZero ==      \* mutant: columns begin at 0 after the first line
  /\ In("trivia")
  /\ Look = "\n"
  /\ Skip([line |-> location.line + 1, column |-> 0])

SkipNewline ==
  /\ In("trivia")
  /\ Look = "\n"
  /\ Skip([line |-> location.line + 1, column |-> 1])

SkipBlank ==
  /\ In("trivia")
  /\ Look \in Blank
  /\ Skip(Right(location, 1))

BeginWord ==
  /\ In("trivia")
  /\ Look \in Alpha \cup {"_"}
  /\ Extend("word", location)

BeginNumber ==
  /\ In("trivia")
  /\ Look \in Digit
  /\ Extend("integer", location)

Punctuation ==
  /\ In("trivia")
  /\ Look \in SingleToken
  /\ reader' = Read(reader)
  /\ Return(Look, draft \o Look, location, Right(location, 1))

UnknownCharacter ==
  /\ In("trivia")
  /\ Look = "other" \/ Look = "."
  /\ reader' = Read(reader)
  /\ Throw("lex_error", location, Right(location, 1))

(* A character that may begin a longer token is consumed before what follows *)
(* it is looked at.                                                          *)
BeginOperator ==
  /\ In("trivia") /\ Seconds(Look) # {}
  /\ Extend("operator", location)

BeginReference ==
  /\ In("trivia") /\ Look \in Reference
  /\ Extend("reference", location)

LongOperator ==
  /\ In("operator") /\ Look \in Seconds(draft)
  /\ reader' = Read(reader)
  /\ Return(draft \o Look, draft \o Look, token_location, Right(location, 1))

ShortOperator ==
  /\ In("operator") /\ Look \notin Seconds(draft) /\ draft # "!"
  /\ UNCHANGED reader
  /\ Return(draft, draft, token_location, location)

LoneBang ==
  /\ In("operator") /\ Look \notin Seconds(draft) /\ draft = "!"
  /\ UNCHANGED reader
  /\ Throw("lex_error", token_location, location)

(* & and ^ take in a whole word `mut`: three characters and the one after    *)
(* them are looked at, whatever they are.                                    *)
BeforeMut_AnyPrefix == <<Ahead(0), Ahead(1), Ahead(2)>> = <<"m", "u", "t">>      \* mutant

BeforeMut ==
  /\ <<Ahead(0), Ahead(1), Ahead(2)>> = <<"m", "u", "t">>
  /\ Ahead(3) \notin InWord

MutReference ==
  /\ In("reference") /\ BeforeMut
  /\ reader' = Read(Read(Read(reader)))
  /\ Return(draft \o "mut", draft \o "mut", token_location, Right(location, 3))

PlainReference ==
  /\ In("reference") /\ ~BeforeMut
  /\ UNCHANGED reader
  /\ Return(draft, draft, token_location, location)

----------------------------------------------------------------------------
(* States 1, 2 and 3: words, integers with their suffix, and fractions.      *)

ContinueWord ==
  /\ In("word")
  /\ Look \in InWord
  /\ Extend("word", token_location)

EndWord ==
  /\ In("word")
  /\ Look \notin InWord
  /\ UNCHANGED reader
  /\ Return(IF draft \in Keyword THEN "kw_" \o draft ELSE "identifier",
            draft, token_location, location)

ContinueNumber ==
  /\ In("integer") \/ In("fraction") \/ In("suffix")
  /\ Look \in Digit
  /\ Extend(state, token_location)

BeginFraction ==
  /\ In("integer")
  /\ Look = "."
  /\ Extend("fraction", token_location)

BeginSuffix ==
  /\ In("integer")
  /\ Look = "i"
  /\ Extend("suffix", token_location)

EndFloat ==
  /\ In("integer") \/ In("fraction")
  /\ Look \in {"f", "d"}
  /\ reader' = Read(reader)
  /\ Return("float_literal", draft \o Look, token_location, Right(location, 1))

EndFraction ==
  /\ In("fraction")
  /\ Look \notin Digit \cup {"f", "d"}
  /\ UNCHANGED reader
  /\ Return("float_literal", draft, token_location, location)

EndInteger ==
  /\ \/ In("integer") /\ Look \notin Digit \cup {".", "f", "d", "i"}
     \/ In("suffix") /\ suffix_digits > 0 /\ Look \notin Digit
  /\ UNCHANGED reader
  /\ Return("int_literal", draft, token_location, location)

BareSuffix ==
  /\ In("suffix") /\ suffix_digits = 0
  /\ Look \notin Digit
  /\ UNCHANGED reader
  /\ Throw("lex_error", token_location, location)

LexStep ==
  \/ Decodes \/ EndOfText \/ SkipNewline \/ SkipBlank
  \/ Punctuation \/ UnknownCharacter
  \/ BeginOperator \/ LongOperator \/ ShortOperator \/ LoneBang
  \/ BeginReference \/ MutReference \/ PlainReference
  \/ BeginWord \/ ContinueWord \/ EndWord
  \/ BeginNumber \/ ContinueNumber \/ BeginFraction \/ BeginSuffix
  \/ EndFloat \/ EndFraction \/ EndInteger \/ BareSuffix

----------------------------------------------------------------------------
(* Lexeme_stream_reader.                                                     *)

Awaited == state = "idle" /\ request # NoRequest     \* lex() has just returned or thrown
Latest == made[Len(made)]

Peek(n) ==
  /\ state = "idle" /\ request = NoRequest
  /\ buffer.size <= n
  /\ Len(made) + n + 1 - buffer.size <= MaxLexemes(text)
  /\ request' = [op |-> "peek", offset |-> n]
  /\ Lex
  /\ UNCHANGED <<buffer, taken>>

ReadBuffered ==
  /\ state = "idle" /\ request = NoRequest
  /\ buffer.size > 0
  /\ taken' = Append(taken, At(buffer, 0))
  /\ buffer' = Popped(buffer)
  /\ UNCHANGED <<characters, lexing, store, made, request>>

ReadThrough ==
  /\ state = "idle" /\ request = NoRequest
  /\ buffer.size = 0
  /\ Len(made) < MaxLexemes(text)
  /\ request' = [op |-> "read", offset |-> 0]
  /\ Lex
  /\ UNCHANGED <<buffer, taken>>

(* lex() threw, and so does the client's call. *)
Propagate ==
  /\ Awaited
  /\ Latest.outcome # "lexeme"
  /\ request' = NoRequest
  /\ UNCHANGED <<characters, lexing, store, made, buffer, taken>>

ReadReturns ==
  /\ Awaited
  /\ request.op = "read"
  /\ Latest.outcome = "lexeme"
  /\ taken' = Append(taken, Latest)
  /\ request' = NoRequest
  /\ UNCHANGED <<characters, lexing, store, made, buffer>>

PeekContinues ==
  /\ Awaited
  /\ request.op = "peek"
  /\ Latest.outcome = "lexeme"
  /\ buffer' = Pushed(buffer, Latest)
  /\ IF buffer.size + 1 > request.offset
     THEN /\ request' = NoRequest
          /\ UNCHANGED <<characters, lexing, store, made>>
     ELSE Lex /\ UNCHANGED request
  /\ UNCHANGED taken

(* The client has had all it asks for. *)
Done ==
  /\ state = "idle" /\ request = NoRequest
  /\ Len(made) = MaxLexemes(text)
  /\ UNCHANGED vars

Client == ReadBuffered \/ ReadThrough \/ Done \/ \E n \in 0..MaxPeek : Peek(n)
Step == LexStep \/ Propagate \/ ReadReturns \/ PeekContinues
Next == Client \/ Step

Spec == Init /\ [][Next]_vars

----------------------------------------------------------------------------
(* Correctness; that they are the right lexemes is LexicalGrammar's to say.  *)

TypeOK ==
  /\ \A i \in DOMAIN text : text[i] \in Byte
  /\ reader.at \in 0..Len(text) /\ IsRing(reader.ring)
  /\ location.line \in Nat \ {0} /\ location.column \in Nat \ {0}
  /\ state \in {"idle", "trivia", "word", "integer", "suffix", "fraction",
               "operator", "reference"}
  /\ suffix_digits \in Nat
  /\ building \in BOOLEAN
  /\ Len(made) <= MaxLexemes(text)
  /\ IsRing(buffer)
  /\ request \in [op : {"none", "peek", "read"}, offset : 0..MaxPeek]

(* The decoder gives a code point exactly where the bytes encode a scalar    *)
(* value, and that one: no overlong form, no surrogate, nothing past the     *)
(* last plane, and an error or the end otherwise.                            *)
DecodesUtf8 ==
  LET ahead == SubSeq(text, reader.at + 1,
                      IF reader.at + 4 < Len(text) THEN reader.at + 4 ELSE Len(text))
      next == Decode(text, reader.at)
  IN  /\ next.kind = "char" <=> WellFormed(ahead) > 0
      /\ next.kind = "char" => SubSeq(text, reader.at + 1, next.at) = Encode(next.value)
      /\ next.kind = "end" <=> ahead = << >>

(* What the client has had or is to have next: the lexemes read, and those   *)
(* buffered; and how much of `made` it has been told of.                     *)
Given == taken \o Contents(buffer)
Told == IF Awaited THEN Len(made) - 1 ELSE Len(made)

(* The number of lexemes among the first n that lex() gave. *)
LexemesAmong(n) == Cardinality({i \in 1..n : made[i].outcome = "lexeme"})

(* Nothing is lost, repeated or reordered between lex() and the parser,      *)
(* however far it peeks: the n-th lexeme of those lex() gave, errors apart,  *)
(* is the n-th that the client reads, and there are no others.  Both rings   *)
(* hold live elements only.                                                  *)
LexemesInOrder ==
  /\ LiveSlots(buffer) /\ LiveSlots(reader.ring)
  /\ Len(Given) = LexemesAmong(Told)
  /\ \A i \in 1..Told : made[i].outcome = "lexeme" => Given[LexemesAmong(i)] = made[i]

(* An error cancels the build it interrupts: between two calls no Builder is *)
(* left open, and the table has the spellings of the lexemes and no half of  *)
(* a token that failed.                                                      *)
StoreHoldsTheLexemes ==
  /\ building <=> state # "idle"
  /\ ~building => draft = ""
  /\ spellings = {made[i].spelling : i \in {j \in DOMAIN made : made[j].outcome = "lexeme"}}

(* Every call of lex() comes to an end: a step either decodes or consumes a  *)
(* character, or is the last.                                                *)
Unread == 2 * (Len(text) - reader.at) + reader.ring.size
EveryLexEnds == [][state # "idle" => state' = "idle" \/ Unread' < Unread]_vars
============================================================================
