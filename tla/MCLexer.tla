------------------------------ MODULE MCLexer ------------------------------
(* Instances of the lexer: short texts over an alphabet with a symbol for    *)
(* every case of lex(), longer ones where lookahead or a suffix matters, and *)
(* byte sequences at every boundary of UTF-8.                                *)
EXTENDS LexicalGrammar

(* Bytes of the texts' symbols: "e'" is two bytes, "bad" none of UTF-8, and  *)
(* "cut" the beginning of a character that swallows the byte after it.       *)
CodeOf(symbol) == CHOOSE c \in 0..127 : Symbol(c) = symbol
BytesOf(symbol) ==
  CASE symbol = "e'" -> <<195, 169>>
    [] symbol = "bad" -> <<255>>
    [] symbol = "cut" -> <<226, 130>>
    [] symbol = "$" -> <<36>>
    [] OTHER -> <<CodeOf(symbol)>>
Written(symbols) == FoldLeft(LAMBDA bytes, s : bytes \o BytesOf(s), << >>, symbols)

Strings(alphabet, length) == UNION {[1..n -> alphabet] : n \in 0..length}

Alphabet == {"\n", " ", "a", "_", "0", ".", "i", "f", "&", "-", "=", "!", ">", ";", "e'",
             "bad", "cut"}

Triples == [1..3 -> Alphabet \ {"_", "cut"}]
Numbers == {<<"0">> \o w : w \in Strings({"0", ".", "i", "f", "a", "bad"}, 3)}
Muts == {<<c>> \o w : c \in {"&", "^"},
                      w \in {<<"m", "u", "t">> \o v :
                                v \in {<< >>} \cup {<<s>> : s \in Alphabet}}
                            \cup {<<"m", "u">> \o v : v \in Strings({"m", "\n", "bad"}, 2)}
                            \cup {<<s, ";", s>> : s \in Alphabet}}
Words == {Front(w) : w \in {
  << "e", "l", "s", "e", " " >>, << "f", "n", " " >>, << "i", "f", " " >>,
  << "l", "e", "t", " " >>, << "m", "u", "t", " " >>, << "r", "e", "c", "u", "r", "s", "e", " " >>,
  << "r", "e", "t", "u", "r", "n", " " >>, << "w", "h", "i", "l", "e", " " >>}}
Sentences == {
  << "+", "*", "/", "%", "{", "}", "[", "]", ";" >>,
  << "(", ")", ":", ",", ";", "<", "\t", ">", "=" >>,
  << "a", "\r", "\n", "b", "\n", "\n", " ", "c", "=", "Z", "$" >> }

(* A sentence (more than eight bytes) has lexemes enough for the reader's    *)
(* ring to grow while it is wrapped around; the other texts are read to the  *)
(* end once.                                                                 *)
CallsFor(bytes) == CASE Len(bytes) > 8 -> 8
                     [] Len(bytes) < 3 -> Len(bytes) + 1
                     [] OTHER -> 3

LeadBytes == {65, 128, 193, 194, 223, 224, 225, 236, 237, 238, 239, 240, 241, 243, 244, 245}
MoreBytes == {65, 128, 143, 144, 159, 160, 191, 192}
ByteTexts == {<<b>> \o w : b \in LeadBytes, w \in Strings(MoreBytes, 2)}
             \cup {<<b, 128, c, d>> : b \in LeadBytes, c \in MoreBytes, d \in MoreBytes}
             \cup {<<b, 191, 128, d>> : b \in LeadBytes, d \in MoreBytes}

MCTexts ==
  ByteTexts
  \cup {Written(w) : w \in Strings(Alphabet, 2) \cup Triples \cup Numbers \cup Muts \cup Words
                           \cup {w \o <<"0">> : w \in Words} \cup {Front(w) : w \in Words}
                           \cup Sentences}
============================================================================
