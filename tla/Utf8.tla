------------------------------- MODULE Utf8 -------------------------------
(* Utf8_char_input_stream::decode_codepoint                                 *)
(* (src/code/streams/include/streams/utf8_char_input_stream.h) over the      *)
(* bytes of a text, and the encoding of Unicode it is to invert.             *)
EXTENDS Integers, Sequences

Byte == 0..255
Between(min, max) == min..max     \* read_continuation()
AnyTail == Between(128, 191)      \* read_tail()

(* The ranges of the bytes that follow a lead byte, by the code's cases;     *)
(* none for the bytes that begin no character.                               *)
Continuations_Overlong(b) ==       \* mutant: E0 and F0 are not special
  CASE 194 <= b /\ b <= 223 -> <<AnyTail>>
    [] 224 <= b /\ b <= 239 -> <<IF b = 237 THEN Between(128, 159) ELSE AnyTail, AnyTail>>
    [] 240 <= b /\ b <= 243 -> <<AnyTail, AnyTail, AnyTail>>
    [] b = 244 -> <<Between(128, 143), AnyTail, AnyTail>>
    [] OTHER -> << >>

Continuations(b) ==
  CASE 194 <= b /\ b <= 223 -> <<AnyTail>>
    [] b = 224 -> <<Between(160, 191), AnyTail>>
    [] (225 <= b /\ b <= 236) \/ (238 <= b /\ b <= 239) -> <<AnyTail, AnyTail>>
    [] b = 237 -> <<Between(128, 159), AnyTail>>
    [] b = 240 -> <<Between(144, 191), AnyTail, AnyTail>>
    [] 241 <= b /\ b <= 243 -> <<AnyTail, AnyTail, AnyTail>>
    [] b = 244 -> <<Between(128, 143), AnyTail, AnyTail>>
    [] OTHER -> << >>

LeadBits(b) == IF b <= 223 THEN b % 32 ELSE IF b <= 239 THEN b % 16 ELSE b % 8

Continued(codepoint, byte) == 64 * codepoint + (byte % 64)      \* decode_continuation()

Decoded(kind, value, at) == [kind |-> kind, value |-> value, at |-> at]

(* The character at byte `at` + 1: "char" and its code point, "end", or      *)
(* "malformed" for Decode_error; with how many bytes have been read then.    *)
(* The byte that does not fit has been read too.                             *)
Decode(bytes, at) ==
  IF at = Len(bytes) THEN Decoded("end", 0, at)
  ELSE LET lead == bytes[at + 1]
           ranges == Continuations(lead)
           count == Len(ranges)
           Fits(n) == \A i \in 1..n : at + 1 + i <= Len(bytes) /\ bytes[at + 1 + i] \in ranges[i]
           fitting == CHOOSE n \in 0..count : Fits(n) /\ (n < count => ~Fits(n + 1))
           past == at + 1 + fitting
           One == Continued(LeadBits(lead), bytes[at + 2])
           Two == Continued(One, bytes[at + 3])
           Three == Continued(Two, bytes[at + 4])
       IN  CASE lead < 128 -> Decoded("char", lead, at + 1)
             [] lead >= 128 /\ count = 0 -> Decoded("malformed", 0, at + 1)
             [] lead >= 128 /\ count > fitting ->
                  Decoded("malformed", 0, IF past < Len(bytes) THEN past + 1 ELSE past)
             [] OTHER ->
                  Decoded("char",
                          CASE count = 1 -> One [] count = 2 -> Two [] count = 3 -> Three,
                          past)

----------------------------------------------------------------------------
(* The definition of UTF-8: the scalar values and their bytes.              *)

IsScalar(c) == c \in Nat /\ c <= 1114111 /\ ~(55296 <= c /\ c <= 57343)

(* The lead byte, and six bits of the code point in each byte after it.      *)
Encode(c) ==
  LET Tail6(bits) == 128 + (bits % 64)
  IN  CASE c < 128 -> <<c>>
        [] 128 <= c /\ c < 2048 -> <<192 + c \div 64, Tail6(c)>>
        [] 2048 <= c /\ c < 65536 -> <<224 + c \div 4096, Tail6(c \div 64), Tail6(c)>>
        [] OTHER -> <<240 + c \div 262144, Tail6(c \div 4096), Tail6(c \div 64), Tail6(c)>>

(* The only scalar value that the one to four bytes could encode: the lead   *)
(* byte's payload and six bits of each other byte.                           *)
Payload(bytes) ==
  LET Six(i) == bytes[i] % 64
  IN  CASE Len(bytes) = 1 -> bytes[1]
        [] Len(bytes) = 2 -> 64 * (bytes[1] % 32) + Six(2)
        [] Len(bytes) = 3 -> 4096 * (bytes[1] % 16) + 64 * Six(2) + Six(3)
        [] OTHER -> 262144 * (bytes[1] % 8) + 4096 * Six(2) + 64 * Six(3) + Six(4)

(* The number of bytes of the character that `bytes` begin with, or 0. *)
WellFormed(bytes) ==
  LET Encodes(n) == /\ n <= Len(bytes)
                    /\ IsScalar(Payload(SubSeq(bytes, 1, n)))
                    /\ Encode(Payload(SubSeq(bytes, 1, n))) = SubSeq(bytes, 1, n)
  IN  IF \E n \in 1..4 : Encodes(n) THEN CHOOSE n \in 1..4 : Encodes(n) ELSE 0
============================================================================
